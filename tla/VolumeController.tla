-------------------------- MODULE VolumeController --------------------------
(***************************************************************************)
(* The volume controller: what ngfd keeps of the stream restore entries of *)
(* PulseAudio and does to them, over a connection of its own               *)
(* (src/src/plugins/streamrestore/volume-controller.c).  The connection    *)
(* itself is in PulseLink, the main loop in StreamRestore.                 *)
(*                                                                         *)
(* A handler makes several calls, each of which changes PulseAudio or what *)
(* is kept here; such a call is an operator from a world w, the record of  *)
(* all of this state, to the world after it.  Calls wait for their reply;  *)
(* on a connection that is dead, and not yet known to be, they fail.       *)
(*                                                                         *)
(* External: PulseAudio, whose entries have object paths that are given    *)
(* out anew when it restarts.                                              *)
(***************************************************************************)
EXTENDS PulseLink, Integers, Sequences, FiniteSets, SequencesExt

CONSTANTS
  Streams,     \* names of stream restore entries
  Transforms   \* records [src, dst, toContext, base, max], one for each src

NoPath == 0    \* object paths are numbers, in the order they are given out

Subscribed == {t.src : t \in Transforms}

-----------------------------------------------------------------------------
(* Volumes.  An entry has the volumes of its channels, in units of 1/65536. *)

Scale == 65536

Least(a, b) == IF a < b THEN a ELSE b

ToPa(v)   == (Least(v, 100) * Scale) \div 100
FromPa(x) == (x * 100) \div Scale

\* The signal is read as the average, the answer to a query by its first channel.
Average(channels) == FoldLeft(+, 0, channels) \div Len(channels)
Queried(channels) == Least(Head(channels), Scale)

-----------------------------------------------------------------------------
(* PulseAudio, external: who hears of a change depends on what this         *)
(* connection listens for.                                                  *)

Alive(w) == w.bus = "up"

Send(w, kind, path, channels) ==
  [w EXCEPT !.signals =
     Append(@, [kind |-> kind, path |-> path, channels |-> channels])]

Listens(w) == Alive(w) /\ w.heeded.entries

Hears(w, s) == Alive(w) /\ w.path[s] \in w.heeded.paths

\* The entry of s gets these volumes, and is made when there is none.
SetLevel(w, s, channels) ==
  LET new   == w.path[s] = NoPath
      deaf  == w.level[s] # channels /\ ~Hears(w, s)
      after == [w EXCEPT !.level[s] = channels,
                         !.path[s]  = IF new THEN w.next ELSE @,
                         !.next     = IF new THEN @ + 1 ELSE @,
                         !.missed   = IF s \in Subscribed /\ deaf
                                      THEN @ \cup {s} ELSE @]
  IN  IF new /\ Listens(w) THEN Send(after, "new", w.next, channels)
      ELSE IF Hears(w, s) /\ w.level[s] # channels
           THEN Send(after, "volume", w.path[s], channels)
      ELSE after

RemoveEntry(w, s) ==
  LET after == [w EXCEPT !.path[s] = NoPath]
  IN  IF Listens(w) THEN Send(after, "removed", w.path[s], <<>>) ELSE after

-----------------------------------------------------------------------------
(* Calls to PulseAudio.                                                     *)

AddEntry(w, s, v) ==
  IF Alive(w) THEN [SetLevel(w, s, <<ToPa(v)>>) EXCEPT !.lost = @ \ {s}]
              ELSE [w EXCEPT !.lost = @ \cup {s}]

\* Without a connection the volume waits, ahead of all that wait already: of
\* two for one stream it is the older that PulseAudio gets last.
QueueSet(w, s, v) ==
  LET waits == \E i \in DOMAIN w.queue :
                 w.queue[i].op = "set" /\ w.queue[i].stream = s
  IN  [w EXCEPT
         !.queue     = <<[op |-> "set", stream |-> s, volume |-> v]>> \o @,
         !.reordered = IF waits THEN @ \cup {s} ELSE @ \ {s}]

QueueGet(w, s) ==
  [w EXCEPT !.queue = Append(@, [op |-> "get", stream |-> s, volume |-> 0])]

Update(w, s, v) ==
  IF w.bus = None THEN QueueSet(w, s, v)
                  ELSE [AddEntry(w, s, v) EXCEPT !.reordered = @ \ {s}]

\* get_object_path and get_object_name.
ObjectPath(w, s) == IF Alive(w) THEN w.path[s] ELSE NoPath
ObjectName(w, p) ==
  IF Alive(w) /\ \E s \in Streams : w.path[s] = p
  THEN CHOOSE s \in Streams : w.path[s] = p ELSE None

ListenForEntries(w) ==
  IF Alive(w) THEN [w EXCEPT !.heeded.entries = TRUE] ELSE w

\* update_object_map_listen.
UpdateObjectMap(w) ==
  LET items == [s \in DOMAIN w.items |->
                  IF w.items[s] = NoPath THEN ObjectPath(w, s) ELSE w.items[s]]
      known == {s \in DOMAIN items : items[s] # NoPath}
  IN  IF w.bus = None THEN w
      ELSE [w EXCEPT
              !.items         = items,
              !.objectMap     = {<<items[s], s>> : s \in known},
              !.freedKeys     = FALSE,
              !.complete      = known = DOMAIN items,
              !.heeded.paths  = IF Alive(w) THEN {items[s] : s \in known} ELSE @]

\* The stream that is looked up in object_map by a path.
ItemAt(w, p) ==
  IF \E m \in w.objectMap : m[1] = p
  THEN (CHOOSE m \in w.objectMap : m[1] = p)[2] ELSE None

Subscribe(w, s) ==
  LET first  == DOMAIN w.items = {}
      added  == [w EXCEPT !.items = [x \in DOMAIN @ \cup {s} |->
                                       IF x = s THEN NoPath ELSE @[x]]]
  IN  IF w.bus = None THEN [added EXCEPT !.queueSubscribe = TRUE]
      ELSE UpdateObjectMap(IF first THEN ListenForEntries(added) ELSE added)

\* The item is still subscribed while the object map is made again.
Unsubscribe(w, s) ==
  LET mapped == w.items[s] # NoPath
      out    == [w EXCEPT !.objectMap = {m \in @ : m[2] # s}]
      after  == IF mapped THEN UpdateObjectMap(out) ELSE w
      rest   == [after EXCEPT !.items = [x \in DOMAIN @ \ {s} |-> @[x]],
                              !.freedKeys = mapped /\ w.bus # None]
  IN  IF DOMAIN rest.items = {}
      THEN [rest EXCEPT !.objectMap = {}, !.freedKeys = FALSE, !.heeded.entries = FALSE]
      ELSE rest

\* NewEntry, by the name that PulseAudio gives for the path.
EntryAppears(w, p) ==
  LET s == ObjectName(w, p)
  IN  IF w.complete \/ ItemAt(w, p) # None \/ s \notin DOMAIN w.items THEN w
      ELSE UpdateObjectMap([w EXCEPT !.items[s] = p])

\* EntryRemoved.
EntryDisappears(w, p) ==
  LET s == ItemAt(w, p)
  IN  IF s = None THEN w
      ELSE UpdateObjectMap([w EXCEPT !.items[s] = NoPath])
=============================================================================
