------------------------------- MODULE Player -------------------------------
(***************************************************************************)
(* The player of the feedback daemon: the life of an NRequest from         *)
(* n_core_play_request to n_request_free (src/src/ngf/core-player.c and    *)
(* request.c), driven by the input interface above it (inputinterface.c),  *)
(* by the sinks below it (sinkinterface.c) and by the sources it puts on   *)
(* the GLib main loop.                                                     *)
(*                                                                         *)
(* The daemon has one thread.  Every action is one callback of the main    *)
(* loop, run to its end; what interleaves is the order of the callbacks.   *)
(* Each function of core-player.c that works on one request is an operator *)
(* from the request to the request it leaves.                              *)
(*                                                                         *)
(* A definition introduced by "Slip" is no part of the model: it is the    *)
(* definition below it with a plausible bug, for a property to catch.      *)
(***************************************************************************)
EXTENDS Integers, FiniteSets

CONSTANTS
  Requests,       \* request identifiers
  Sinks,          \* the registered sinks
  Rank,           \* a sink's place in the order of n_core_sink_priority_cmp
  NoPrepare,      \* sinks whose declaration leaves prepare NULL
  Unkeyed,        \* sinks that store nothing with the request (tonegen)
  CallSinks,      \* sinks that free their effects for a call (gst)
  ResyncSinks,    \* sinks that call n_sink_interface_set_resync_on_master
  MasterResyncs,  \* may the master call n_sink_interface_resynchronize?
  MaxCopies       \* bound: times a sink may stand in sinks_playing

ASSUME RankAssumption ==
  /\ Rank \in [Sinks -> Nat]
  /\ \A s, t \in Sinks : Rank[s] = Rank[t] => s = t
ASSUME SinkAssumption ==
  /\ NoPrepare \subseteq Sinks
  /\ Unkeyed \subseteq Sinks
  /\ CallSinks \subseteq Sinks \ (NoPrepare \cup Unkeyed)
  /\ ResyncSinks \subseteq Sinks
  /\ MasterResyncs \in BOOLEAN
  /\ MaxCopies \in Nat \ {0}

VARIABLES
  live,       \* ids of the NRequests that are allocated
  requests,   \* core->requests, the list that lookups and stops search
  req,        \* the NRequest of an id; Blank when there is none
  reply,      \* the last status sent to the client of an id
  closed,     \* number of COMPLETED and FAILED statuses sent for an id
  aborted,    \* the assertion or NULL access that killed the daemon
  stopAsked   \* ids for which a client's stop was acknowledged

vars == <<live, requests, req, reply, closed, aborted, stopAsked>>

-----------------------------------------------------------------------------
(* The request and what the sinks keep for it.                             *)

\* Sinks whose play and pause need the data that their prepare stored.
Keepers == Sinks \ (NoPrepare \cup Unkeyed)

\* What a sink has for a request, stored with n_request_store_data or in its
\* own lists: nothing, a prepared effect, an effect it is playing (or has
\* paused), one it has reported complete.
SinkData == {"none", "ready", "active", "ended"}

Statuses == {"none", "playing", "paused", "completed", "failed"}
Aborts   == {"no", "replay", "nodata", "resync"}

Request ==
  [fallback  : BOOLEAN,          \* is_fallback
   failed    : BOOLEAN,          \* has_failed
   noEvent   : BOOLEAN,          \* no_event
   paused    : BOOLEAN,          \* is_paused
   play      : BOOLEAN,          \* play_source_id # 0
   stop      : BOOLEAN,          \* stop_source_id # 0
   max       : BOOLEAN,          \* max_timeout_id # 0
   timed     : BOOLEAN,          \* timeout_ms > 0
   all       : SUBSET Sinks,     \* all_sinks
   preparing : SUBSET Sinks,     \* sinks_preparing
   prepared  : SUBSET Sinks,     \* sinks_prepared
   playing   : [Sinks -> Nat],   \* copies of a sink in sinks_playing
   resync    : SUBSET Sinks,     \* sinks_resync
   stops     : SUBSET Sinks,     \* stop_list
   data      : [Sinks -> SinkData],
   lost      : SUBSET Sinks]     \* whose data the sink has freed by itself

NobodyPlays == [s \in Sinks |-> 0]

\* g_slice_new0
Blank ==
  [fallback |-> FALSE, failed |-> FALSE, noEvent |-> FALSE, paused |-> FALSE,
   play |-> FALSE, stop |-> FALSE, max |-> FALSE, timed |-> FALSE,
   all |-> {}, preparing |-> {}, prepared |-> {}, playing |-> NobodyPlays,
   resync |-> {}, stops |-> {}, data |-> [s \in Sinks |-> "none"],
   lost |-> {}]

\* The first sink of the sorted list.
IsMaster(q, s) == s \in q.all /\ \A t \in q.all : Rank[s] <= Rank[t]

-----------------------------------------------------------------------------
(* The functions of core-player.c that work on one request.                *)

SetupMaxTimeout(q) ==
  IF q.stop \/ q.max \/ ~q.timed THEN q ELSE [q EXCEPT !.max = TRUE]

SetupSynchronizeDone(q) ==
  IF q.stop THEN q ELSE [q EXCEPT !.play = TRUE]

\* Slip: the maximum timeout is left armed.
SetupDoneKeepsTimeout(q) == [q EXCEPT !.play = FALSE, !.stop = TRUE]

\* Slip: the play source is left armed.
SetupDoneKeepsPlay(q) == [q EXCEPT !.max = FALSE, !.stop = TRUE]

\* The done source removes the two other sources of the request.
SetupDone(q) ==
  [q EXCEPT !.max = FALSE, !.play = FALSE, !.stop = TRUE]

StopRequest(q) == IF q.stop THEN q ELSE SetupDone(q)

\* Slips: a late failure is noted; a failure only sets the flag.
FailSinkAlways(q) == SetupDone([q EXCEPT !.failed = TRUE])
FailSinkNoDone(q) == [q EXCEPT !.failed = TRUE]

FailSink(q) ==
  IF q.stop THEN q ELSE SetupDone([q EXCEPT !.failed = TRUE])

\* Slip: the first sink that synchronizes starts the playback.
SynchronizeAtOnce(q, S) ==
  IF q.stop \/ q.play \/ S \cap q.preparing = {} THEN q
  ELSE SetupSynchronizeDone([q EXCEPT !.preparing = @ \ S,
                                      !.prepared  = @ \cup (S \cap q.preparing)])

\* n_core_synchronize_sink, for the sinks of S one after the other.
SynchronizeSinks(q, S) ==
  IF q.stop \/ q.play \/ S \cap q.preparing = {} THEN q
  ELSE LET p == [q EXCEPT !.preparing = @ \ S,
                          !.prepared  = @ \cup (S \cap q.preparing)]
       IN  IF p.preparing = {} THEN SetupSynchronizeDone(p) ELSE p

\* Slips: a sink that is not in the list is counted down; none is removed.
RemovePlayingBlindly(q, s) == [q EXCEPT !.playing[s] = q.playing[s] - 1]
RemovePlayingNobody(q, s)  == q

\* g_list_remove takes one copy of the sink out of sinks_playing, if any.
RemovePlaying(q, s) ==
  LET copies == q.playing[s]
  IN  [q EXCEPT !.playing[s] = IF copies = 0 THEN 0 ELSE copies - 1]

\* Slip: the last completion does not end the request.
CompleteSinkQuietly(q, s) == RemovePlaying(q, s)

CompleteSink(q, s) ==
  LET p == RemovePlaying(q, s)
  IN  IF q.playing = NobodyPlays THEN q
      ELSE IF p.playing = NobodyPlays THEN SetupDone(p) ELSE p

\* Slip: a prepared sink is put on the stop_list only when it is played.
PrepareSinksUnlisted(q, S, reached, prompt) ==
  LET p == [q EXCEPT !.data = [s \in Sinks |-> IF s \in reached THEN "ready"
                                               ELSE q.data[s]]]
      e == SynchronizeSinks(p, prompt \cup (reached \cap NoPrepare))
  IN  IF reached = S THEN e ELSE FailSink(e)

\* n_core_prepare_sinks prepares the sinks of S, in the order of a list, up to
\* the first whose prepare returns FALSE: those behind it are never prepared.
\* Of the sinks reached, some call synchronize in prepare, others later.
PrepareSinks(q, S, reached, prompt) ==
  LET ready == reached \ NoPrepare
      p == [q EXCEPT !.stops = @ \cup ready,
                     !.data  = [s \in Sinks |-> IF s \in ready THEN "ready"
                                                ELSE q.data[s]]]
      e == SynchronizeSinks(p, prompt \cup (reached \cap NoPrepare))
  IN  IF reached = S THEN e ELSE FailSink(e)

\* How far it comes in a list sorted by rank, and in a list in any order.
SortedReach(S) ==
  {S} \cup {{s \in S : Rank[s] < Rank[f]} : f \in S \ NoPrepare}
AnyReach(S) == {S} \cup UNION {SUBSET (S \ {f}) : f \in S \ NoPrepare}

\* The sinks of P started by n_core_sink_synchronize_done_cb.
StartSinks(q, P) ==
  [q EXCEPT !.stops   = @ \cup P,
            !.playing = [s \in Sinks |-> IF s \in P THEN q.playing[s] + 1
                                                    ELSE q.playing[s]],
            !.data    = [s \in Sinks |-> IF s \in P THEN "active"
                                                    ELSE q.data[s]]]

\* n_core_stop_sinks: every shipped sink drops its data for the request.
StopSinks(q, S) ==
  [q EXCEPT !.data = [s \in Sinks |-> IF s \in S THEN "none" ELSE q.data[s]],
            !.lost = @ \ S]

\* What a sink of CallSinks had for the request is freed, the request keeps
\* the pointer to it.
LoseEffects(q) ==
  [q EXCEPT !.lost = @ \cup {s \in CallSinks : q.data[s] # "none"}]

-----------------------------------------------------------------------------
(* n_core_play_request: q is the request handed in, new or a fallback copy. *)

\* Slip: the done source is not set up.
PlayUnresolvedQuietly(r, q) ==
  /\ req' = [req EXCEPT ![r] = [q EXCEPT !.noEvent = TRUE, !.failed = TRUE]]
  /\ requests' = requests \ {r}
  /\ UNCHANGED reply

\* No event matches: the request fails without joining core->requests.
PlayUnresolved(r, q) ==
  /\ req' = [req EXCEPT ![r] = SetupDone([q EXCEPT !.noEvent = TRUE,
                                                   !.failed  = TRUE])]
  /\ requests' = requests \ {r}
  /\ UNCHANGED reply

\* No sink can handle the request, or the filters removed them all.
PlayNoSinks(r, q) ==
  /\ req' = [req EXCEPT ![r] = SetupDone([q EXCEPT !.failed = TRUE])]
  /\ requests' = requests \ {r}
  /\ UNCHANGED reply

\* The PLAYING status is sent whatever becomes of the preparation.
PlaySinks(r, q) ==
  \E S \in (SUBSET Sinks) \ {{}}, timed \in BOOLEAN :
    \E reached \in SortedReach(S) : \E prompt \in SUBSET reached :
      /\ req' = [req EXCEPT ![r] =
                   PrepareSinks([q EXCEPT !.all = S, !.preparing = S,
                                          !.timed = timed],
                                S, reached, prompt)]
      /\ requests' = requests \cup {r}
      /\ reply' = [reply EXCEPT ![r] = "playing"]

PlayRequest(r, q) ==
  PlayUnresolved(r, q) \/ PlayNoSinks(r, q) \/ PlaySinks(r, q)

-----------------------------------------------------------------------------
(* Calls of the input interface.                                           *)

\* A new request: n_request_new gave it an id that was never used.
Submit(r) ==
  /\ r \notin live /\ closed[r] = 0
  /\ live' = live \cup {r}
  /\ PlayRequest(r, Blank)
  /\ UNCHANGED <<closed, aborted, stopAsked>>

\* Sinks of the request that were never prepared for it and need to be, or
\* whose data is freed.
Unready(q) ==
  {s \in q.all \cap Keepers : q.data[s] = "none" \/ s \in q.lost}

\* n_core_pause_request.  Sinks differ in what pause and play do without data:
\* some read through the NULL pointer or assert, some have nothing to do.  What
\* is done with freed memory may go unnoticed or be the end, too.
Pause(r) ==
  /\ r \in requests /\ ~req[r].paused
  /\ \/ /\ req' = [req EXCEPT ![r].paused = TRUE]
        /\ \E allPaused \in BOOLEAN :
             reply' = IF allPaused THEN [reply EXCEPT ![r] = "paused"]
                                   ELSE reply
        /\ UNCHANGED aborted
     \/ /\ Unready(req[r]) # {}
        /\ aborted' = "nodata"
        /\ UNCHANGED <<req, reply>>
  /\ UNCHANGED <<live, requests, closed, stopAsked>>

\* n_core_resume_request calls play on every sink of all_sinks, whether or not
\* it was prepared or is in sinks_playing; some may fail.
Resume(r) ==
  /\ r \in requests /\ req[r].paused
  /\ \/ \E F \in SUBSET req[r].all :
          /\ req' = [req EXCEPT
               ![r].paused = FALSE,
               ![r].data = [s \in Sinks |->
                  IF s \in req[r].all \ (F \cup Unready(req[r]))
                  THEN "active" ELSE req[r].data[s]]]
          /\ reply' = IF F = {} THEN [reply EXCEPT ![r] = "playing"]
                                ELSE reply
          /\ UNCHANGED aborted
     \/ /\ Unready(req[r]) # {}
        /\ aborted' = "nodata"
        /\ UNCHANGED <<req, reply>>
  /\ UNCHANGED <<live, requests, closed, stopAsked>>

\* n_input_interface_play_request on a request that is playing and not paused:
\* n_core_play_request finds original_properties set and asserts.
Replay(r) ==
  /\ r \in requests /\ ~req[r].paused
  /\ aborted' = "replay"
  /\ UNCHANGED <<live, requests, req, reply, closed, stopAsked>>

\* n_core_stop_request for one listed request, and for all of them (a client
\* that disconnects, the stop of every request, a reload of the events).
Stop(r) ==
  /\ r \in requests
  /\ req' = [req EXCEPT ![r] = StopRequest(@)]
  /\ stopAsked' = stopAsked \cup {r}
  /\ UNCHANGED <<live, requests, reply, closed, aborted>>

StopAll ==
  /\ requests # {}
  /\ req' = [r \in Requests |-> IF r \in requests THEN StopRequest(req[r])
                                                  ELSE req[r]]
  /\ UNCHANGED <<live, requests, reply, closed, aborted, stopAsked>>

-----------------------------------------------------------------------------
(* Calls of the sinks.                                                     *)

\* A sink that deferred in prepare reports that it is ready; a resume may have
\* played it already, even to its end.
SinkSynchronizes(r, s) ==
  /\ r \in live /\ req[r].data[s] # "none" /\ s \notin req[r].lost
  /\ req' = [req EXCEPT ![r] = SynchronizeSinks(@, {s})]
  /\ UNCHANGED <<live, requests, reply, closed, aborted, stopAsked>>

\* The effect of the sink has come to its end.
SinkCompletes(r, s) ==
  /\ r \in live /\ req[r].data[s] = "active" /\ s \notin req[r].lost
  /\ req' = [req EXCEPT ![r] =
               CompleteSink([req[r] EXCEPT !.data[s] = "ended"], s)]
  /\ UNCHANGED <<live, requests, reply, closed, aborted, stopAsked>>

\* The sink fails while it prepares or plays.
SinkFails(r, s) ==
  /\ r \in live /\ req[r].data[s] \in {"ready", "active"} /\ s \notin req[r].lost
  /\ req' = [req EXCEPT ![r] = FailSink(@)]
  /\ UNCHANGED <<live, requests, reply, closed, aborted, stopAsked>>

\* A call becomes active: gst frees the streams of all requests.  One of them
\* that is stopped afterwards may free the stream of another that was given
\* the same memory (GstStream), so that it may be of some requests only.
CallActive ==
  \E R \in (SUBSET live) \ {{}} :
    /\ req' = [r \in Requests |-> IF r \in R THEN LoseEffects(req[r])
                                            ELSE req[r]]
    /\ UNCHANGED <<live, requests, reply, closed, aborted, stopAsked>>

\* Slip: the master may put itself on the list.
SetResyncAny(r, s) ==
  /\ s \in Sinks /\ r \in live /\ req[r].data[s] = "active"
  /\ req' = [req EXCEPT ![r].resync = @ \cup {s}]
  /\ UNCHANGED <<live, requests, reply, closed, aborted, stopAsked>>

\* n_core_set_resync_on_master: the master itself is refused.
SetResync(r, s) ==
  /\ s \in ResyncSinks /\ r \in live
  /\ req[r].data[s] = "active" /\ ~IsMaster(req[r], s)
  /\ req' = [req EXCEPT ![r].resync = @ \cup {s}]
  /\ UNCHANGED <<live, requests, reply, closed, aborted, stopAsked>>

\* n_core_resynchronize_sinks, called by a master that is playing: it is called
\* when the playback of the master restarts (sinkinterface.h:128), which the
\* first conjunct on q.playing assumes of the sink.  The code does not look.
Resynchronize(r, s) ==
  /\ MasterResyncs /\ r \in live
  /\ LET q == req[r]
         p == [RemovePlaying(q, s) EXCEPT !.prepared = @ \cup {s}]
     IN
     /\ IsMaster(q, s) /\ q.playing[s] > 0 /\ ~q.play
     /\ \A t \in q.resync : q.playing[t] < MaxCopies
     /\ \/ /\ q.resync = {}
           /\ req' = [req EXCEPT ![r] = SetupSynchronizeDone(p)]
           /\ UNCHANGED aborted
        \/ /\ q.resync # {} /\ q.preparing # {}
           /\ aborted' = "resync"
           /\ UNCHANGED req
        \/ /\ q.resync # {} /\ q.preparing = {}
           /\ \E reached \in AnyReach(q.resync) :
                \E prompt \in SUBSET reached :
                  req' = [req EXCEPT ![r] =
                    PrepareSinks([StopSinks(p, q.resync) EXCEPT
                                    !.resync = {}, !.preparing = q.resync],
                                 q.resync, reached, prompt)]
           /\ UNCHANGED aborted
  /\ UNCHANGED <<live, requests, reply, closed, stopAsked>>

-----------------------------------------------------------------------------
(* Sources of the main loop.                                               *)

\* n_core_sink_synchronize_done_cb.  sinks_prepared is in the order in which
\* the sinks synchronized, so the sinks played before one fails may be any.
\* The play of a sink whose data is freed may be the end.
SynchronizeDone(r) ==
  /\ r \in live /\ req[r].play
  /\ LET q == SetupMaxTimeout([req[r] EXCEPT !.play = FALSE])
     IN  \/ /\ req' = [req EXCEPT ![r] =
                         [StartSinks(q, q.prepared) EXCEPT !.prepared = {}]]
            /\ UNCHANGED aborted
         \/ /\ \E f \in q.prepared : \E P \in SUBSET (q.prepared \ {f}) :
                 req' = [req EXCEPT ![r] = FailSink(StartSinks(q, P))]
            /\ UNCHANGED aborted
         \/ /\ q.prepared \cap q.lost # {}
            /\ aborted' = "nodata"
            /\ UNCHANGED req
  /\ UNCHANGED <<live, requests, reply, closed, stopAsked>>

\* Slip: the callback clears its id and stops nothing.
MaxTimeoutNoStop(r) ==
  /\ r \in live /\ req[r].max
  /\ req' = [req EXCEPT ![r].max = FALSE]
  /\ UNCHANGED <<live, requests, reply, closed, aborted, stopAsked>>

\* n_core_max_timeout_reached_cb.
MaxTimeout(r) ==
  /\ r \in live /\ req[r].max
  /\ req' = [req EXCEPT ![r] = StopRequest([req[r] EXCEPT !.max = FALSE])]
  /\ UNCHANGED <<live, requests, reply, closed, aborted, stopAsked>>

\* Slip: the request is freed before its sinks are stopped.
FreedUnstopped(q) == [Blank EXCEPT !.data = q.data]

\* n_request_free: what is left is what sinks that were not stopped still keep.
Freed(q) == [Blank EXCEPT !.data = StopSinks(q, q.stops).data]

\* Slip: the freed request stays in core->requests.
FinishListed(r, status) ==
  /\ req' = [req EXCEPT ![r] = Freed(@)]
  /\ live' = live \ {r}
  /\ reply' = [reply EXCEPT ![r] = status]
  /\ closed' = [closed EXCEPT ![r] = @ + 1]
  /\ UNCHANGED requests

\* The last status is sent and the request is freed.
Finish(r, status) ==
  /\ req' = [req EXCEPT ![r] = Freed(@)]
  /\ live' = live \ {r}
  /\ requests' = requests \ {r}
  /\ reply' = [reply EXCEPT ![r] = status]
  /\ closed' = [closed EXCEPT ![r] = @ + 1]

\* The request is freed and its fallback copy, of the same id, played at once.
Retry(r) ==
  /\ PlayRequest(r, [Freed(req[r]) EXCEPT !.fallback = TRUE])
  /\ UNCHANGED <<live, closed>>

\* Slip: a fallback that fails is retried as well.
RequestDoneAgain(r) ==
  /\ r \in live /\ req[r].stop
  /\ \/ ~req[r].failed /\ Finish(r, "completed")
     \/ req[r].failed /\ Finish(r, "failed")
     \/ req[r].failed /\ ~req[r].noEvent /\ Retry(r)
  /\ UNCHANGED <<aborted, stopAsked>>

\* n_core_request_done_cb.  Whether the properties hold a fallback key is
\* decided by the event that was matched.
RequestDone(r) ==
  /\ r \in live /\ req[r].stop
  /\ LET q == req[r]
     IN  \/ ~q.failed /\ Finish(r, "completed")
         \/ q.failed /\ Finish(r, "failed")
         \/ q.failed /\ ~q.fallback /\ ~q.noEvent /\ Retry(r)
  /\ UNCHANGED <<aborted, stopAsked>>

-----------------------------------------------------------------------------
Init ==
  /\ live = {} /\ requests = {} /\ stopAsked = {}
  /\ req = [r \in Requests |-> Blank]
  /\ reply = [r \in Requests |-> "none"]
  /\ closed = [r \in Requests |-> 0]
  /\ aborted = "no"

Step(r) ==
  \/ Submit(r) \/ Pause(r) \/ Resume(r) \/ Replay(r) \/ Stop(r)
  \/ SynchronizeDone(r) \/ MaxTimeout(r) \/ RequestDone(r)
  \/ \E s \in Sinks : SinkSynchronizes(r, s) \/ SinkCompletes(r, s)
                      \/ SinkFails(r, s) \/ SetResync(r, s)
                      \/ Resynchronize(r, s)

\* A daemon that has aborted takes no step.
Next == aborted = "no" /\ (StopAll \/ CallActive \/ \E r \in Requests : Step(r))

Spec == Init /\ [][Next]_vars

\* A sink still has the effect it prepared, was not played, and reports.
Reports(r, s) ==
  req[r].data[s] = "ready" /\ SinkSynchronizes(r, s)

\* The main loop dispatches every source that stays ready; a sink that defers
\* in prepare reports its readiness (or fails) in the end, unless a resume has
\* played it before or a call took its effect away.  Nothing makes a client
\* stop a request or an effect come to its end.
Fairness ==
  \A r \in Requests :
    /\ WF_vars(aborted = "no" /\ SynchronizeDone(r))
    /\ WF_vars(aborted = "no" /\ MaxTimeout(r))
    /\ WF_vars(aborted = "no" /\ RequestDone(r))
    /\ \A s \in Sinks : WF_vars(aborted = "no" /\ Reports(r, s))

FairSpec == Spec /\ Fairness
=============================================================================
