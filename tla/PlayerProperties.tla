-------------------------- MODULE PlayerProperties --------------------------
(***************************************************************************)
(* What the player must never do and must eventually do.  The names of the *)
(* functions are those of src/src/ngf/core-player.c.                       *)
(***************************************************************************)
EXTENDS Player

\* Every variable has its type; in particular a sink is never counted a
\* negative number of times in sinks_playing.
TypeOK ==
  /\ live \subseteq Requests
  /\ requests \subseteq Requests
  /\ req \in [Requests -> Request]
  /\ reply \in [Requests -> Statuses]
  /\ closed \in [Requests -> Nat]
  /\ aborted \in Aborts
  /\ stopAsked \subseteq Requests

\* "done timer takes precedence over max_timeout and synchronize_done"
\* (n_core_setup_done): a request that is ending has no other source that could
\* start its sinks or stop it again, whatever the sinks report meanwhile.
DonePrecedence ==
  \A r \in Requests : req[r].stop => ~req[r].play /\ ~req[r].max

\* A source holds the NRequest as its user data: an id without a request has
\* no source left, and core->requests holds no freed request.
NoDanglingSource ==
  /\ requests \subseteq live
  /\ \A r \in Requests \ live : ~req[r].play /\ ~req[r].stop /\ ~req[r].max

\* A request that lookups cannot find (it never reached core->requests) cannot
\* be stopped by its client: it must already be on its way out.
UnlistedIsEnding == \A r \in live \ requests : req[r].stop

\* The play source exists only when every sink has synchronized ("all sinks
\* have been synchronized for the request"), and it has something to play.
SynchronizedBeforePlay ==
  \A r \in live : req[r].play => req[r].preparing = {} /\ req[r].prepared # {}

\* A sink that keeps data for a request is on its stop_list, so it is told to
\* stop before the request is freed, on every path: a prepare that failed half
\* way, a play that failed half way, a resume before the sinks synchronized.
SinksWillStop ==
  \A r \in live, s \in Keepers :
    req[r].data[s] # "none" => s \in req[r].stops

\* No sink keeps data (a timer, a stream) for a request that was freed.
SinksReleased ==
  \A r \in Requests \ live, s \in Keepers : req[r].data[s] = "none"

\* No request is left with nothing that could end it: unless a source is
\* pending or a sink has still to synchronize, some sink the player waits for
\* is at work, or was when a call took its effect away.  (A completion reported
\* before the player had noted the sink as playing is dropped, but then the
\* sink is played again.)
NeverForgotten ==
  \A r \in live :
    \/ req[r].stop \/ req[r].play \/ req[r].preparing # {}
    \/ \E s \in Sinks : req[r].playing[s] > 0 /\ req[r].data[s] = "active"

\* A failure reported after the request began to end without one ("Do not set
\* 'has_failed' if already stopping") turns neither a stop nor a completion
\* into a failure or a fallback.
LateFailureIgnored ==
  [][\A r \in live : req[r].stop /\ ~req[r].failed =>
       ~req'[r].failed /\ reply'[r] # "failed"]_vars

\* A maximum timeout that was armed is only removed by the done source: as
\* long as the request goes on, it stays armed.
TimeoutStaysArmed ==
  [][\A r \in live : req[r].max => req'[r].max \/ req'[r].stop]_vars

\* Every request that is accepted gets its last status, unless the daemon died,
\* the request plays without a time limit, or it waits for a sink that a resume
\* played before it was ready or whose effect a call took away: such a sink may
\* never report, and the timeout is armed only when all have.
EventuallyClosed ==
  \A r \in Requests :
    r \in live ~> \/ closed[r] > 0 \/ aborted # "no"
                  \/ ~req[r].timed /\ req[r].playing # NobodyPlays
                  \/ \E s \in req[r].preparing :
                       req[r].data[s] # "ready" \/ s \in req[r].lost

\* n_core_resynchronize_sinks asserts that no sink is still preparing: only a
\* master that plays may resynchronize, and it plays when all are ready.
NeverResyncedWhilePreparing == aborted # "resync"

-----------------------------------------------------------------------------
(* The inductive invariant: what holds of one request between two callbacks,*)
(* then what relates the requests to the lists of the core.                *)

DoneFirst(q) == q.stop => ~q.play /\ ~q.max

PlaysSynchronized(q) == q.play => q.preparing = {} /\ q.prepared # {}

\* The master stands in sinks_playing once at most, and only when no sink is
\* preparing; it never waits for itself.
MasterWaits(q) ==
  \A m \in Sinks : IsMaster(q, m) =>
    /\ m \notin q.resync
    /\ q.playing[m] <= 1
    /\ q.playing[m] > 0 => q.preparing = {} /\ (q.stop \/ m \notin q.prepared)

KeepersStop(q) ==
  \A s \in Keepers : q.data[s] # "none" => s \in q.stops

Sound(q) ==
  DoneFirst(q) /\ PlaysSynchronized(q) /\ MasterWaits(q) /\ KeepersStop(q)

Idle(q) ==
  /\ ~q.play /\ ~q.stop /\ ~q.max
  /\ \A s \in Keepers : q.data[s] = "none"

\* Inductive; it implies the invariants above that no bound restricts.
PlayerInv ==
  /\ TypeOK
  /\ \A r \in Requests : Sound(req[r])
  /\ \A r \in Requests \ live : Idle(req[r])
  /\ requests \subseteq live
  /\ \A r \in live : closed[r] = 0 /\ (r \notin requests => req[r].stop)
  /\ aborted # "resync"

-----------------------------------------------------------------------------
(* The player keeps the promise of RequestLifecycle.                       *)

Lifecycle == INSTANCE RequestLifecycle WITH
  stage  <- [r \in Requests |->
               IF closed[r] > 0 THEN "closed"
               ELSE IF r \notin live THEN "new"
               ELSE IF req[r].fallback THEN "fallback" ELSE "first"],
  listed <- requests,
  ending <- {r \in live : req[r].stop},
  failed <- {r \in live : req[r].failed},
  last   <- reply,
  up     <- aborted = "no"

\* Every id gets its statuses in order and exactly one last status, fails over
\* to its fallback at most once, and a request that began to end goes on.
ImplementsLifecycle == Lifecycle!LifecycleSpec

\* What sink s sees of the first attempt at a request or of its fallback.
SinkPhase(r, s, fallback) ==
  LET q == req[r]
      now == r \in live /\ q.fallback = fallback
  IN  IF now /\ s \in q.stops
      THEN IF q.stop THEN "ending"
           ELSE IF s \in q.preparing THEN "preparing"
           ELSE IF s \in q.prepared THEN "prepared" ELSE "playing"
      ELSE IF now \/ closed[r] > 0 \/ (r \in live /\ ~fallback)
           THEN "gone" ELSE "none"

SeenBy(s, fallback) == INSTANCE SinkContract WITH
  phase  <- [r \in Requests |-> SinkPhase(r, s, fallback)],
  paused <- {r \in live : /\ req[r].fallback = fallback /\ req[r].paused
                          /\ s \in req[r].stops},
  played <- {r \in live : /\ req[r].fallback = fallback
                          /\ req[r].data[s] \in {"active", "ended"}}

\* To each sink that is prepared, the player makes its calls in the order the
\* models of the sinks rely on: play once when all are ready and never while
\* the attempt ends, stop once and as the last call.
KeepsSinkContract ==
  /\ \A s \in Keepers, fallback \in BOOLEAN : SeenBy(s, fallback)!ContractInit
  /\ [][\A s \in Keepers, fallback \in BOOLEAN :
          [SeenBy(s, fallback)!ContractNext]_<<SeenBy(s, fallback)!contractVars>>]_vars

-----------------------------------------------------------------------------
(* What the code or its comments claim and the runs refute.                *)

\* n_input_interface_stop_request "stops playback of the request": a request a
\* client has stopped does not prepare sinks again.
StoppedStaysStopped ==
  [][\A r \in stopAsked, s \in Sinks :
       req[r].data[s] = "none" => req'[r].data[s] = "none"]_vars
=============================================================================
