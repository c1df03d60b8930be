---------------------------- MODULE StreamRestore ----------------------------
(***************************************************************************)
(* The plugin of stream restore volumes                                    *)
(* (src/src/plugins/streamrestore/plugin.c) on its volume controller: the  *)
(* volume of a role follows keys of the context and the output route, a    *)
(* transform carries the volume of one stream over to another or to the    *)
(* context, and the connection is made again whenever PulseAudio goes.     *)
(*                                                                         *)
(* A variable that is "about the model" is read by guards of nothing in    *)
(* the program, only by properties.                                        *)
(***************************************************************************)
EXTENDS VolumeController, Lists

CONSTANTS
  Roles,        \* function of a role to its rules, [key, type, min]
  Keys, Values, \* integers of the context that roles follow
  Routes,       \* output routes
  FixedSets,    \* records [stream, volume], the set.* parameters
  Mixes,        \* volumes of channels that others set
  MaxChanges    \* bound: changes of the context and by others in PulseAudio

Types == {"default", "builtin", "external"}

\* The parameters are in a hash table, and read in any order.
Params == {<<"role", r>> : r \in DOMAIN Roles} \cup {<<"set", f>> : f \in FixedSets}
            \cup {<<"transform", t>> : t \in Transforms}

ASSUME StreamRestoreAssumption ==
  /\ None \notin Streams /\ Subscribed \cup DOMAIN Roles \subseteq Streams
  /\ \A t \in Transforms : ~t.toContext => t.dst \in Streams
  /\ \A f \in FixedSets : f.stream \in Streams
  /\ \A t, u \in Transforms : t.src = u.src => t = u
  /\ \A r \in DOMAIN Roles :
       /\ Roles[r] \in Seq([key : Keys, type : Types, min : BOOLEAN])
       /\ (\E i \in DOMAIN Roles[r] : Roles[r][i].type = "default") => Len(Roles[r]) = 1
  /\ IsFiniteSet(Params) /\ IsFiniteSet(Keys)
  /\ Routes \subseteq Types
  /\ MaxChanges \in Nat

VARIABLES
  world,     \* the world of VolumeController; world.bus is bus
  context,   \* external: the output route, in the context
  changes    \* number of changes

vars == <<link, world, context, changes>>

-----------------------------------------------------------------------------
(* Roles.                                                                   *)

\* role_entry_get_volume, for the values that a role holds for its rules.
RoleVolume(rules, vals, route) ==
  LET applies == {i \in DOMAIN rules : rules[i].type = route}
      decides == {i \in DOMAIN rules : rules[i].type = "default"}
                   \cup {i \in applies : ~rules[i].min}
  IN  IF decides # {} THEN vals[Min(decides)]
      ELSE Min({100} \cup {vals[i] : i \in applies})

\* Slip: a key is looked for in the rules until it is found.
SeesOnce(w, r, k, v) ==
  LET first  == Min({i \in DOMAIN Roles[r] : Roles[r][i].key = k})
      vals   == [w.roles[r].vals EXCEPT ![first] = v]
      volume == RoleVolume(Roles[r], vals, w.route)
  IN  IF vals = w.roles[r].vals THEN w
      ELSE Update([w EXCEPT !.roles[r] = [vals |-> vals, volume |-> volume],
                            !.rerouted = @ \ {r}], r, volume)

\* The volume of a role goes to PulseAudio when it is another.
RoleSees(w, r, k, v) ==
  LET vals   == [i \in DOMAIN Roles[r] |->
                   IF Roles[r][i].key = k THEN v ELSE w.roles[r].vals[i]]
      volume == RoleVolume(Roles[r], vals, w.route)
      after  == [w EXCEPT !.roles[r] = [vals |-> vals, volume |-> volume],
                          !.rerouted = @ \ {r}]
  IN  IF vals = w.roles[r].vals THEN w
      ELSE IF volume = w.roles[r].volume THEN after
      ELSE Update(after, r, volume)

RoleKeys == {k \in Keys : \E r \in DOMAIN Roles : \E i \in DOMAIN Roles[r] : Roles[r][i].key = k}

\* context_value_changed_cb for a key that roles follow.
KeyChanges(w, k, v) ==
  Through(w, w.known, LAMBDA x, r : RoleSees(x, r, k, v))

SetContext(w, k, v) ==
  KeyChanges([w EXCEPT !.values = [x \in DOMAIN @ \cup {k} |->
                                     IF x = k THEN v ELSE @[x]]], k, v)

-----------------------------------------------------------------------------
(* Transforms.                                                              *)

TransformOf(s) == CHOOSE t \in Transforms : t.src = s

\* BASE_VOLUME, whose division is towards zero.
Carried(t, v) ==
  IF t.max >= t.base THEN t.base + (v * (t.max - t.base)) \div 100
                     ELSE t.base - (v * (t.base - t.max)) \div 100

\* volume_changed_cb.
VolumeChanged(w, s, v) ==
  LET t == TransformOf(s)
  IN  IF t.toContext THEN SetContext(w, t.dst, Carried(t, v))
                     ELSE Update(w, t.dst, Carried(t, v))

\* These are the volumes that the entry has now, and none that it had before
\* are still to be handled.
Heard(w, s, channels) ==
  IF /\ Alive(w) /\ w.level[s] = channels
     /\ ~\E i \in DOMAIN w.signals :
           w.signals[i].kind = "volume" /\ ItemAt(w, w.signals[i].path) = s
  THEN [w EXCEPT !.missed = @ \ {s}] ELSE w

\* get_entry_volume.
GetEntryVolume(w, s) ==
  LET p    == ObjectPath(w, s)
      item == ItemAt(w, p)
  IN  IF p = NoPath \/ item = None THEN w
      ELSE VolumeChanged(Heard(w, item, w.level[s]), item, FromPa(Queried(w.level[s])))

GetVolume(w, s) == IF w.bus = None THEN QueueGet(w, s) ELSE GetEntryVolume(w, s)

-----------------------------------------------------------------------------
(* The connection.                                                          *)

RunOp(w, o) == IF o.op = "set" THEN AddEntry(w, o.stream, o.volume)
                               ELSE GetEntryVolume(w, o.stream)

Die(w) == [w EXCEPT !.bus = IF @ = "up" THEN "dead" ELSE @]

\* The connection may die before one of the things that waited is done.
ServeNext(w, queue, dying, i) ==
  RunOp(IF i = dying THEN Die(w) ELSE w, queue[i])

\* process_queued_ops.
ProcessQueuedOps(w, dying) ==
  LET open  == [w EXCEPT !.bus = "up", !.queue = <<>>, !.queueSubscribe = FALSE,
                         !.signals = <<>>]
      start == IF dying = 0 THEN Die(open) ELSE open
      tuned == IF w.queueSubscribe THEN UpdateObjectMap(ListenForEntries(start))
                                   ELSE start
  IN  Through(tuned, [i \in DOMAIN w.queue |-> i],
              LAMBDA x, i : ServeNext(x, w.queue, dying, i))

\* A set or a get goes to PulseAudio when there is a connection already.
ReadParam(w, p) ==
  CASE p[1] = "role"      -> [w EXCEPT !.known = Append(@, p[2])]
    [] p[1] = "set"       -> Update(w, p[2].stream, p[2].volume)
    [] p[1] = "transform" -> GetVolume(Subscribe(w, p[2].src), p[2].src)

Load ==
  /\ LinkLoad
  /\ \E params \in Orders(Params) :
       world' = Through([world EXCEPT !.bus = bus'], params, ReadParam)
  /\ UNCHANGED <<context, changes>>

\* init_done_cb: the route, and what the keys are by now.
SeesKey(w, k) == KeyChanges(w, k, w.values[k])
InitDone ==
  /\ stage = "loaded"
  /\ stage' = "running"
  /\ LET w == [world EXCEPT !.route = context,
                            !.rerouted = IF context = world.route THEN @
                                         ELSE DOMAIN Roles]
     IN  \E keys \in Orders(RoleKeys \cap DOMAIN world.values) : world' = Through(w, keys, SeesKey)
  /\ UNCHANGED <<retry, asking, address, bus, server, restarts, context, changes>>

AddressReply == LinkAddressReply /\ UNCHANGED <<world, context, changes>>

RetryTimeout ==
  /\ \E dies \in BOOLEAN :
       /\ LinkRetry(dies)
       /\ IF bus' = None THEN UNCHANGED world
          ELSE \E dying \in IF bus' = "dead" THEN 0..Len(world.queue)
                                           ELSE {Len(world.queue) + 1} :
                 world' = ProcessQueuedOps(world, dying)
  /\ UNCHANGED <<context, changes>>

\* Slip: the paths of the last connection are kept.
KeepPaths(w) ==
  [w EXCEPT !.bus = None,
            !.queueSubscribe = @ \/ DOMAIN w.items # {},
            !.heeded = [entries |-> FALSE, paths |-> {}]]

\* What filter_cb forgets when it is told that the connection is gone: the
\* object map is kept, with keys that are freed, until it is made again.
AfterDisconnect(w) ==
  [w EXCEPT !.bus = None,
            !.items = [s \in DOMAIN @ |-> NoPath],
            !.freedKeys = w.objectMap # {},
            !.queueSubscribe = @ \/ DOMAIN w.items # {},
            !.heeded = [entries |-> FALSE, paths |-> {}]]

\* filter_cb: messages are handled in order, and last that there are no more.
Disconnected ==
  /\ LinkDisconnected
  /\ world.signals = <<>>
  /\ world' = AfterDisconnect(world)
  /\ UNCHANGED <<context, changes>>

ReceiveSignal ==
  /\ bus # None /\ world.signals # <<>>
  /\ LET n == Head(world.signals)
         w == [world EXCEPT !.signals = Tail(@)]
         s == ItemAt(w, n.path)
     IN  \/ n.kind = "new"     /\ world' = EntryAppears(w, n.path)
         \/ n.kind = "removed" /\ world' = EntryDisappears(w, n.path)
         \/ /\ n.kind = "volume"
            /\ world' = IF s = None THEN w
                        ELSE VolumeChanged(Heard(w, s, n.channels), s, FromPa(Average(n.channels)))
  /\ UNCHANGED <<link, context, changes>>

\* Nothing runs after unloading: the process ends.
Unload ==
  /\ LinkUnload
  /\ world' = [Through(world, SetToSeq(DOMAIN world.items), Unsubscribe)
                  EXCEPT !.bus = None, !.queue = <<>>]
  /\ UNCHANGED <<context, changes>>

-----------------------------------------------------------------------------
(* Others: the context, other clients of PulseAudio, PulseAudio itself.     *)

Changing == stage # "unloaded" /\ changes < MaxChanges /\ changes' = changes + 1

\* No role is known before loading; init_done_cb reads what was set until then.
ChangeKey(k, v) ==
  /\ Changing /\ ~(k \in DOMAIN world.values /\ world.values[k] = v)
  /\ ~\E t \in Transforms : t.toContext /\ t.dst = k
  /\ world' = SetContext(world, k, v)
  /\ UNCHANGED <<link, context>>

\* The volumes of the roles stay what they are.
ChangeRoute(r) ==
  /\ Changing /\ context # r
  /\ context' = r
  /\ world' = IF stage = "loading" THEN world
              ELSE [world EXCEPT !.route = r, !.rerouted = DOMAIN Roles]
  /\ UNCHANGED link

OthersSet(s, mix) ==
  /\ Changing /\ server # None /\ world.level[s] # mix
  /\ world' = SetLevel(world, s, mix)
  /\ UNCHANGED <<link, context>>

OthersRemove(s) ==
  /\ Changing /\ server # None /\ world.path[s] # NoPath
  /\ world' = RemoveEntry(world, s)
  /\ UNCHANGED <<link, context>>

PulseStops == PulseGoes /\ world' = Die(world) /\ UNCHANGED <<context, changes>>

\* The entries are there again, under paths given out in any order.
PulseStarts(a) ==
  /\ PulseComes(a)
  /\ LET S == {s \in Streams : world.path[s] # NoPath}
     IN  \E f \in Injection(S, 1..Cardinality(S)) :
           world' = [world EXCEPT !.path = [s \in Streams |->
                                              IF s \in S THEN f[s] ELSE NoPath],
                                  !.next = Cardinality(S) + 1]
  /\ UNCHANGED <<context, changes>>

-----------------------------------------------------------------------------
\* Entries exist, from an earlier run, for streams that are subscribed.
Init ==
  /\ LinkInit
  /\ context \in Routes /\ changes = 0
  /\ \E old \in {{}, Subscribed} :
       LET f == CHOOSE g \in Injection(old, 1..Cardinality(old)) : TRUE
       IN  world = [bus |-> None, queue |-> <<>>, items |-> <<>>, objectMap |-> {},
                     freedKeys |-> FALSE, complete |-> FALSE, queueSubscribe |-> FALSE,
                     heeded |-> [entries |-> FALSE, paths |-> {}], signals |-> <<>>,
                     level |-> [s \in Streams |-> <<0>>],
                     path  |-> [s \in Streams |-> IF s \in old THEN f[s] ELSE NoPath],
                     next  |-> Cardinality(old) + 1,
                     route |-> "default", values |-> <<>>, known |-> <<>>,
                     roles |-> [r \in DOMAIN Roles |->
                                  [vals |-> [i \in DOMAIN Roles[r] |-> 0], volume |-> 0]],
                     lost  |-> Streams, reordered |-> {}, rerouted |-> {},
                     missed |-> Subscribed]

Next ==
  \/ Load \/ InitDone \/ AddressReply \/ RetryTimeout \/ Disconnected
  \/ ReceiveSignal \/ Unload \/ PulseStops
  \/ \E k \in Keys, v \in Values : ChangeKey(k, v)
  \/ \E r \in Routes : ChangeRoute(r)
  \/ \E s \in Subscribed, mix \in Mixes : OthersSet(s, mix)
  \/ \E s \in Subscribed : OthersRemove(s)
  \/ \E a \in Addresses : PulseStarts(a)

Spec == Init /\ [][Next]_vars /\ LinkFairness

-----------------------------------------------------------------------------
\* While there is a connection the entry of a role has the volume that its rule
\* makes of the context, across restarts of PulseAudio and with what waited for
\* it.  Excepted are a role whose last volume met a dead connection or was
\* never sent (a first volume of 0 is not), one that changed twice while there
\* was no connection (QueueSet), and one whose keys have not changed since the
\* route did (ChangeRoute).
RolesReachPulse ==
  stage = "running" /\ bus = "up" =>
    \A r \in (DOMAIN Roles) \ (world.lost \cup world.reordered \cup world.rerouted) :
      LET vals == [i \in DOMAIN Roles[r] |->
                     IF Roles[r][i].key \in DOMAIN world.values
                     THEN world.values[Roles[r][i].key] ELSE 0]
      IN  world.level[r] = <<ToPa(RoleVolume(Roles[r], vals, context))>>

\* What the volume of a stream makes of another stream, or of a key.
CarriedOver(w, t) ==
  \E v \in {Average(w.level[t.src]), Queried(w.level[t.src])} :
    IF t.toContext
    THEN t.dst \in DOMAIN w.values /\ w.values[t.dst] = Carried(t, FromPa(v))
    ELSE t.dst \notin w.lost \cup w.reordered =>
           w.level[t.dst] = <<ToPa(Carried(t, FromPa(v)))>>

\* While there is a connection and no signal waits, each entry of a stream
\* with a transform is listened to, under its path of now, and the last volume
\* that it had while ngfd could hear it is carried over.
TransformsFollow ==
  /\ bus # None => ~world.freedKeys
  /\ stage # "loading" /\ bus = "up" /\ world.signals = <<>> =>
       /\ world.heeded.paths = {world.path[s] : s \in Subscribed} \ {NoPath}
       /\ \A t \in Transforms :
            /\ world.heeded.entries
            /\ world.items[t.src] = world.path[t.src]
            /\ t.src \notin world.missed => CarriedOver(world, t)

\* What the parameters must be for RolesReachPulse: a role is no stream of a
\* transform, nor one whose volume is a parameter.
RolesAreOwn ==
  \A r \in DOMAIN Roles :
    /\ \A t \in Transforms : r # t.src /\ (~t.toContext => r # t.dst)
    /\ \A f \in FixedSets : r # f.stream

\* What they must be for TransformsFollow: nothing else writes where a transform
\* does (ChangeKey leaves its keys alone).
TransformsAreOwn ==
  \A t \in Transforms :
    /\ \A u \in Transforms : (u.toContext <=> t.toContext) /\ u.dst = t.dst => u = t
    /\ ~t.toContext => /\ t.dst \notin Subscribed \cup DOMAIN Roles
                       /\ \A f \in FixedSets : t.dst # f.stream
=============================================================================
