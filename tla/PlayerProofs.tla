---------------------------- MODULE PlayerProofs ----------------------------
(***************************************************************************)
(* Theorems about Player for every set of requests and sinks, every order  *)
(* of the sinks and every choice of the other constants: its invariant,    *)
(* what no step does to a request, and that it implements RequestLifecycle;*)
(* and, where no sink resynchronizes, that no request is forgotten and that*)
(* every sink gets its calls in the order of SinkContract.                 *)
(***************************************************************************)
EXTENDS PlayerProperties, TLAPS

-----------------------------------------------------------------------------
(* The operators of Player map requests to requests.                       *)

\* A zeroed NRequest is a request.
LEMMA BlankType == Blank \in Request
BY DEF Blank, Request, NobodyPlays, SinkData

\* So is what the functions that touch only the sources leave.
LEMMA SourceTypes ==
  ASSUME NEW q \in Request
  PROVE  /\ SetupMaxTimeout(q) \in Request
         /\ SetupSynchronizeDone(q) \in Request
         /\ SetupDone(q) \in Request
         /\ StopRequest(q) \in Request
         /\ FailSink(q) \in Request
BY DEF SetupMaxTimeout, SetupSynchronizeDone, SetupDone, StopRequest,
       FailSink, Request

\* n_core_synchronize_sink, for any set of sinks that report at once.
LEMMA SynchronizeType ==
  ASSUME NEW q \in Request, NEW S \in SUBSET Sinks
  PROVE  SynchronizeSinks(q, S) \in Request
<1> DEFINE p == [q EXCEPT !.preparing = @ \ S,
                          !.prepared  = @ \cup (S \cap q.preparing)]
<1>1. p \in Request
  BY DEF Request
<1>2. SetupSynchronizeDone(p) \in Request
  BY <1>1, SourceTypes
<1> HIDE DEF p
<1>3. QED
  BY <1>1, <1>2 DEF SynchronizeSinks, p

\* n_core_complete_sink, which takes one copy of a sink off sinks_playing.
LEMMA CompleteType ==
  ASSUME NEW q \in Request, NEW s \in Sinks
  PROVE  /\ RemovePlaying(q, s) \in Request
         /\ CompleteSink(q, s) \in Request
<1> DEFINE n == IF q.playing[s] = 0 THEN 0 ELSE q.playing[s] - 1
<1>1. q.playing \in [Sinks -> Nat] /\ n \in Nat
  BY DEF Request
<1>2. RemovePlaying(q, s) = [q EXCEPT !.playing = [q.playing EXCEPT ![s] = n]]
  BY DEF RemovePlaying
<1>3. RemovePlaying(q, s) \in Request
  <2> HIDE DEF n
  <2>1. [q.playing EXCEPT ![s] = n] \in [Sinks -> Nat]
    BY <1>1
  <2>2. QED
    BY <1>2, <2>1 DEF Request
<1>4. SetupDone(RemovePlaying(q, s)) \in Request
  BY <1>3, SourceTypes
<1>5. QED
  BY <1>3, <1>4 DEF CompleteSink

\* The play and the stop of a set of sinks, which change what they keep.
LEMMA SinkTypes ==
  ASSUME NEW q \in Request, NEW S \in SUBSET Sinks
  PROVE  StartSinks(q, S) \in Request /\ StopSinks(q, S) \in Request
<1>1. q.playing \in [Sinks -> Nat] /\ q.data \in [Sinks -> SinkData]
  BY DEF Request
<1>2. /\ [s \in Sinks |-> IF s \in S THEN q.playing[s] + 1 ELSE q.playing[s]]
           \in [Sinks -> Nat]
      /\ [s \in Sinks |-> IF s \in S THEN "active" ELSE q.data[s]]
           \in [Sinks -> SinkData]
      /\ [s \in Sinks |-> IF s \in S THEN "none" ELSE q.data[s]]
           \in [Sinks -> SinkData]
  BY <1>1 DEF SinkData
<1>3. QED
  BY <1>2 DEF StartSinks, StopSinks, Request

\* n_core_prepare_sinks, for every sink it may fail at.
LEMMA PrepareType ==
  ASSUME NEW q \in Request, NEW S, NEW reached \in SUBSET Sinks,
         NEW prompt \in SUBSET reached
  PROVE  PrepareSinks(q, S, reached, prompt) \in Request
<1> DEFINE ready == reached \ NoPrepare
           data  == [s \in Sinks |-> IF s \in ready THEN "ready"
                                     ELSE q.data[s]]
           p     == [q EXCEPT !.stops = @ \cup ready, !.data = data]
           e     == SynchronizeSinks(p, prompt \cup (reached \cap NoPrepare))
<1>1. data \in [Sinks -> SinkData]
  BY DEF Request, SinkData
<1>2. p \in Request
  <2> HIDE DEF data
  <2> QED BY <1>1 DEF Request
<1> HIDE DEF p
<1>3. e \in Request
  BY <1>2, SynchronizeType
<1>4. PrepareSinks(q, S, reached, prompt) =
        IF reached = S THEN e ELSE FailSink(e)
  BY DEF PrepareSinks, p
<1> HIDE DEF e
<1>5. QED
  BY <1>3, <1>4, SourceTypes

-----------------------------------------------------------------------------
(* They keep a request sound.                                              *)

\* A new request is sound, and no sink keeps anything for it.
LEMMA BlankSound == Sound(Blank) /\ Idle(Blank)
BY DEF Blank, Sound, DoneFirst, PlaysSynchronized, MasterWaits, KeepersStop,
       IsMaster, Idle, NobodyPlays, Keepers

\* Every way to begin to end a request, and to arm its timeout.
LEMMA SourcesSound ==
  ASSUME NEW q \in Request, Sound(q)
  PROVE  /\ Sound(SetupMaxTimeout(q))
         /\ Sound(SetupDone(q))
         /\ Sound(StopRequest(q))
         /\ Sound(FailSink(q))
BY DEF SetupMaxTimeout, SetupDone, StopRequest, FailSink, Request, Sound,
       DoneFirst, PlaysSynchronized, MasterWaits, KeepersStop, IsMaster

\* The last sink to synchronize arms the play source, and only for a request
\* that is not ending.
LEMMA SynchronizeSound ==
  ASSUME NEW q \in Request, Sound(q), NEW S \in SUBSET Sinks
  PROVE  Sound(SynchronizeSinks(q, S))
<1> DEFINE p == [q EXCEPT !.preparing = @ \ S,
                          !.prepared  = @ \cup (S \cap q.preparing)]
<1>1. CASE q.stop \/ q.play \/ S \cap q.preparing = {}
  BY <1>1 DEF SynchronizeSinks
<1>2. CASE ~(q.stop \/ q.play \/ S \cap q.preparing = {})
  <2>1. p \in Request /\ p.prepared # {} /\ ~p.stop /\ ~p.play
    BY <1>2 DEF Request
  <2>2. Sound(p)
    BY <1>2 DEF Request, Sound, DoneFirst, PlaysSynchronized, MasterWaits,
                KeepersStop, IsMaster
  <2>3. SynchronizeSinks(q, S) = IF p.preparing = {}
                                 THEN SetupSynchronizeDone(p) ELSE p
    BY <1>2 DEF SynchronizeSinks
  <2> HIDE DEF p
  <2>4. ASSUME p.preparing = {} PROVE Sound(SetupSynchronizeDone(p))
    BY <2>1, <2>2, <2>4
       DEF SetupSynchronizeDone, Request, Sound, DoneFirst,
           PlaysSynchronized, MasterWaits, KeepersStop, IsMaster
  <2>5. QED
    BY <2>2, <2>3, <2>4
<1>3. QED
  BY <1>1, <1>2

\* The last sink to complete arms the done source, which drops the others.
LEMMA CompleteSound ==
  ASSUME NEW q \in Request, Sound(q), NEW s \in Sinks
  PROVE  /\ Sound(RemovePlaying(q, s))
         /\ Sound(CompleteSink(q, s))
<1> DEFINE n == IF q.playing[s] = 0 THEN 0 ELSE q.playing[s] - 1
           p == RemovePlaying(q, s)
<1>1. p \in Request
  BY CompleteType
<1>2. /\ \A t \in Sinks : p.playing[t] <= q.playing[t]
      /\ q.playing \in [Sinks -> Nat] /\ p.playing \in [Sinks -> Nat]
  BY DEF RemovePlaying, Request
<1>3. /\ p.stop = q.stop /\ p.play = q.play /\ p.max = q.max
      /\ p.all = q.all /\ p.preparing = q.preparing
      /\ p.prepared = q.prepared /\ p.resync = q.resync
      /\ p.stops = q.stops /\ p.data = q.data
  BY DEF RemovePlaying, Request
<1>4. Sound(p)
  <2> HIDE DEF p
  <2>1. MasterWaits(p)
    BY <1>2, <1>3 DEF Sound, MasterWaits, IsMaster
  <2>2. QED
    BY <1>3, <2>1 DEF Sound, DoneFirst, PlaysSynchronized, KeepersStop
<1>5. Sound(SetupDone(p))
  BY <1>1, <1>4, SourcesSound
<1>6. QED
  BY <1>4, <1>5 DEF CompleteSink

\* Stopping sinks of the stop_list leaves no keeper outside of it.
LEMMA StopSinksSound ==
  ASSUME NEW q \in Request, Sound(q), NEW S \in SUBSET Sinks
  PROVE  Sound(StopSinks(q, S))
BY DEF StopSinks, Request, Sound, DoneFirst, PlaysSynchronized, MasterWaits,
       KeepersStop, IsMaster, Keepers

\* Every sink that is prepared is put on the stop_list, and a failure arms the
\* done source.
LEMMA PrepareSound ==
  ASSUME NEW q \in Request, Sound(q), NEW S, NEW reached \in SUBSET Sinks,
         NEW prompt \in SUBSET reached
  PROVE  Sound(PrepareSinks(q, S, reached, prompt))
<1> DEFINE ready == reached \ NoPrepare
           data  == [s \in Sinks |-> IF s \in ready THEN "ready"
                                     ELSE q.data[s]]
           p     == [q EXCEPT !.stops = @ \cup ready, !.data = data]
           e     == SynchronizeSinks(p, prompt \cup (reached \cap NoPrepare))
<1>1. data \in [Sinks -> SinkData]
  BY DEF Request, SinkData
<1>2. p \in Request
  <2> HIDE DEF data
  <2> QED BY <1>1 DEF Request
<1>3. Sound(p)
  BY DEF Request, Sound, DoneFirst, PlaysSynchronized, MasterWaits,
         KeepersStop, IsMaster, Keepers
<1> HIDE DEF p
<1>4. e \in Request /\ Sound(e)
  BY <1>2, <1>3, SynchronizeSound, SynchronizeType
<1>5. PrepareSinks(q, S, reached, prompt) =
        IF reached = S THEN e ELSE FailSink(e)
  BY DEF PrepareSinks, p
<1> HIDE DEF e
<1>6. QED
  BY <1>4, <1>5, SourcesSound

\* n_core_sink_synchronize_done_cb, when every sink plays and when one fails.
LEMMA StartSound ==
  ASSUME NEW q \in Request, Sound(q), q.play, NEW P \in SUBSET q.prepared
  PROVE  LET q0 == SetupMaxTimeout([q EXCEPT !.play = FALSE])
         IN  /\ q0 \in Request /\ q0.prepared = q.prepared
             /\ Sound([StartSinks(q0, q0.prepared) EXCEPT !.prepared = {}])
             /\ Sound(FailSink(StartSinks(q0, P)))
<1> DEFINE q1 == [q EXCEPT !.play = FALSE]
           q0 == SetupMaxTimeout(q1)
<1>1. q1 \in Request /\ ~q1.stop
  BY DEF Request, Sound, DoneFirst
<1>2. q0 \in Request
  BY <1>1, SourceTypes
<1>3. /\ ~q0.stop /\ ~q0.play
      /\ q0.all = q.all /\ q0.prepared = q.prepared /\ q0.playing = q.playing
      /\ q0.preparing = q.preparing /\ q0.resync = q.resync
      /\ q0.stops = q.stops /\ q0.data = q.data
  BY <1>1 DEF SetupMaxTimeout, Request
<1> HIDE DEF q0
<1>4. /\ q.preparing = {} /\ q.prepared \in SUBSET Sinks
      /\ q.playing \in [Sinks -> Nat]
      /\ \A m \in Sinks : IsMaster(q, m) =>
           m \notin q.resync /\ q.playing[m] <= 1
           /\ (q.playing[m] > 0 => m \notin q.prepared)
  BY DEF Request, Sound, DoneFirst, PlaysSynchronized, MasterWaits
<1>5. ASSUME NEW Q \in SUBSET q.prepared
      PROVE  /\ \A m \in Sinks : IsMaster(q, m) =>
                  StartSinks(q0, Q).playing[m] <= 1
             /\ KeepersStop(StartSinks(q0, Q))
             /\ StartSinks(q0, Q).all = q.all
             /\ StartSinks(q0, Q).preparing = {}
             /\ StartSinks(q0, Q).resync = q.resync
             /\ ~StartSinks(q0, Q).stop /\ ~StartSinks(q0, Q).play
             /\ StartSinks(q0, Q) \in Request
  <2>1. Q \in SUBSET Sinks
    BY <1>4
  <2>2. StartSinks(q0, Q) \in Request
    BY <1>2, <2>1, SinkTypes
  <2>3. \A m \in Sinks : StartSinks(q0, Q).playing[m] =
          IF m \in Q THEN q.playing[m] + 1 ELSE q.playing[m]
    BY <1>2, <1>3 DEF StartSinks, Request
  <2>4. \A m \in Sinks : IsMaster(q, m) => StartSinks(q0, Q).playing[m] <= 1
    BY <1>4, <1>5, <2>3
  <2>5. KeepersStop(StartSinks(q0, Q))
    BY <1>2, <1>3 DEF StartSinks, Request, Sound, KeepersStop, Keepers
  <2>6. /\ StartSinks(q0, Q).all = q.all
        /\ StartSinks(q0, Q).preparing = {}
        /\ StartSinks(q0, Q).resync = q.resync
        /\ ~StartSinks(q0, Q).stop /\ ~StartSinks(q0, Q).play
    BY <1>2, <1>3, <1>4 DEF StartSinks, Request
  <2>7. QED
    BY <2>2, <2>4, <2>5, <2>6
<1>6. Sound([StartSinks(q0, q0.prepared) EXCEPT !.prepared = {}])
  <2> DEFINE z == StartSinks(q0, q.prepared)
  <2>1. /\ \A m \in Sinks : IsMaster(q, m) => z.playing[m] <= 1
        /\ KeepersStop(z) /\ z.all = q.all /\ z.preparing = {}
        /\ z.resync = q.resync /\ ~z.stop /\ ~z.play /\ z \in Request
    BY <1>5
  <2> HIDE DEF z
  <2>2. Sound([z EXCEPT !.prepared = {}])
    BY <1>4, <2>1 DEF Request, Sound, DoneFirst, PlaysSynchronized,
                      MasterWaits, KeepersStop, IsMaster
  <2>3. QED
    BY <1>3, <2>2 DEF z
<1>7. Sound(FailSink(StartSinks(q0, P)))
  <2> DEFINE z == StartSinks(q0, P)
  <2>1. /\ \A m \in Sinks : IsMaster(q, m) => z.playing[m] <= 1
        /\ KeepersStop(z) /\ z.all = q.all /\ z.preparing = {}
        /\ z.resync = q.resync /\ ~z.stop /\ ~z.play /\ z \in Request
    BY <1>5
  <2> HIDE DEF z
  <2>2. Sound(FailSink(z))
    BY <1>4, <2>1 DEF FailSink, SetupDone, Request, Sound, DoneFirst,
                      PlaysSynchronized, MasterWaits, KeepersStop, IsMaster
  <2>3. QED
    BY <2>2 DEF z
<1>8. QED
  BY <1>2, <1>3, <1>6, <1>7 DEF q0

\* A request that is ending stays so, whatever is done to it.
LEMMA StopStays ==
  ASSUME NEW q \in Request, q.stop
  PROVE  /\ SetupDone(q).stop /\ StopRequest(q).stop /\ FailSink(q).stop
         /\ \A S : SynchronizeSinks(q, S).stop
         /\ \A s : CompleteSink(q, s).stop
BY DEF SetupDone, StopRequest, FailSink, SynchronizeSinks, CompleteSink,
       RemovePlaying, Request

-----------------------------------------------------------------------------
(* The inductive invariant.                                                *)

\* At the start there is no request, no source and no entry.
LEMMA InitInv == Init => PlayerInv
BY BlankType, BlankSound
   DEF Init, PlayerInv, TypeOK, Statuses, Aborts

\* A callback that rewrites one request that stays allocated.
LEMMA RewriteOne ==
  ASSUME PlayerInv, NEW r \in live, NEW p \in Request, Sound(p),
         r \notin requests => p.stop,
         req' = [req EXCEPT ![r] = p],
         UNCHANGED <<live, requests, closed>>,
         reply' \in [Requests -> Statuses],
         stopAsked' \in SUBSET Requests,
         aborted' \in Aborts \ {"resync"}
  PROVE  PlayerInv'
<1>1. TypeOK'
  BY DEF PlayerInv, TypeOK
<1>2. r \in Requests /\ req \in [Requests -> Request]
  BY DEF PlayerInv, TypeOK
<1>3. \A i \in Requests : req'[i] = IF i = r THEN p ELSE req[i]
  BY <1>2
<1>4. \A i \in Requests : Sound(req'[i])
  BY <1>3 DEF PlayerInv
<1>5. \A i \in Requests \ live' : Idle(req'[i])
  BY <1>3 DEF PlayerInv
<1>6. \A i \in live' : closed'[i] = 0 /\ (i \notin requests' => req'[i].stop)
  BY <1>3 DEF PlayerInv, TypeOK
<1>7. QED
  BY <1>1, <1>4, <1>5, <1>6 DEF PlayerInv

\* n_core_play_request on a request without sinks, sources or data, new or the
\* fallback copy that takes the place of a freed one.
LEMMA PlayInv ==
  ASSUME PlayerInv, NEW r \in Requests, NEW q \in Request,
         Sound(q), Idle(q), q.playing = NobodyPlays, q.resync = {},
         PlayRequest(r, q),
         closed[r] = 0, live' = live \cup {r},
         UNCHANGED <<closed, aborted, stopAsked>>
  PROVE  PlayerInv'
<1>1. ASSUME NEW p \in Request, Sound(p),
             req' = [req EXCEPT ![r] = p],
             \/ requests' = requests \cup {r}
             \/ requests' = requests \ {r} /\ p.stop,
             reply' \in [Requests -> Statuses]
      PROVE  PlayerInv'
  <2>1. TypeOK'
    BY <1>1 DEF PlayerInv, TypeOK
  <2>2. \A i \in Requests : req'[i] = IF i = r THEN p ELSE req[i]
    BY <1>1 DEF PlayerInv, TypeOK
  <2>3. \A i \in Requests : Sound(req'[i])
    BY <1>1, <2>2 DEF PlayerInv
  <2>4. \A i \in Requests \ live' : Idle(req'[i])
    BY <2>2 DEF PlayerInv
  <2>5. requests' \subseteq live'
    BY <1>1 DEF PlayerInv
  <2>6. \A i \in live' : closed'[i] = 0 /\ (i \notin requests' => req'[i].stop)
    BY <1>1, <2>2 DEF PlayerInv, TypeOK
  <2>7. QED
    BY <2>1, <2>3, <2>4, <2>5, <2>6 DEF PlayerInv
<1>2. reply \in [Requests -> Statuses]
  BY DEF PlayerInv, TypeOK
<1>3. CASE PlayUnresolved(r, q)
  <2> DEFINE e == [q EXCEPT !.noEvent = TRUE, !.failed = TRUE]
  <2>1. e \in Request
    BY DEF Request
  <2>2. Sound(e)
    BY DEF Request, Sound, DoneFirst, PlaysSynchronized, MasterWaits,
           KeepersStop, IsMaster
  <2> HIDE DEF e
  <2>3. SetupDone(e) \in Request /\ Sound(SetupDone(e))
    BY <2>1, <2>2, SourceTypes, SourcesSound
  <2>4. SetupDone(e).stop
    BY <2>1 DEF SetupDone, Request
  <2>5. QED
    BY <1>1, <1>2, <1>3, <2>3, <2>4 DEF PlayUnresolved, e
<1>4. CASE PlayNoSinks(r, q)
  <2> DEFINE e == [q EXCEPT !.failed = TRUE]
  <2>1. e \in Request
    BY DEF Request
  <2>2. Sound(e)
    BY DEF Request, Sound, DoneFirst, PlaysSynchronized, MasterWaits,
           KeepersStop, IsMaster
  <2> HIDE DEF e
  <2>3. SetupDone(e) \in Request /\ Sound(SetupDone(e))
    BY <2>1, <2>2, SourceTypes, SourcesSound
  <2>4. SetupDone(e).stop
    BY <2>1 DEF SetupDone, Request
  <2>5. QED
    BY <1>1, <1>2, <1>4, <2>3, <2>4 DEF PlayNoSinks, e
<1>5. CASE PlaySinks(r, q)
  <2>1. PICK S \in (SUBSET Sinks) \ {{}}, timed \in BOOLEAN :
          \E reached \in SortedReach(S) : \E prompt \in SUBSET reached :
            /\ req' = [req EXCEPT ![r] =
                         PrepareSinks([q EXCEPT !.all = S, !.preparing = S,
                                                !.timed = timed],
                                      S, reached, prompt)]
            /\ requests' = requests \cup {r}
            /\ reply' = [reply EXCEPT ![r] = "playing"]
    BY <1>5 DEF PlaySinks
  <2> DEFINE e == [q EXCEPT !.all = S, !.preparing = S, !.timed = timed]
  <2>2. e \in Request
    BY <2>1 DEF Request
  <2>3. Sound(e)
    BY DEF Request, Sound, DoneFirst, PlaysSynchronized, MasterWaits,
           KeepersStop, IsMaster, Idle, NobodyPlays
  <2> HIDE DEF e
  <2>4. PICK reached \in SortedReach(S) : \E prompt \in SUBSET reached :
          /\ req' = [req EXCEPT ![r] = PrepareSinks(e, S, reached, prompt)]
          /\ requests' = requests \cup {r}
          /\ reply' = [reply EXCEPT ![r] = "playing"]
    BY <2>1 DEF e
  <2>5. reached \in SUBSET Sinks
    BY DEF SortedReach
  <2> PICK prompt \in SUBSET reached :
          /\ req' = [req EXCEPT ![r] = PrepareSinks(e, S, reached, prompt)]
          /\ requests' = requests \cup {r}
          /\ reply' = [reply EXCEPT ![r] = "playing"]
    BY <2>4
  <2>6. /\ PrepareSinks(e, S, reached, prompt) \in Request
        /\ Sound(PrepareSinks(e, S, reached, prompt))
    BY <2>2, <2>3, <2>5, PrepareType, PrepareSound
  <2>7. reply' \in [Requests -> Statuses]
    BY <1>2, <2>4 DEF Statuses
  <2>8. QED
    BY <1>1, <2>4, <2>6, <2>7
<1>6. QED
  BY <1>3, <1>4, <1>5 DEF PlayRequest

\* What n_request_free leaves can be played as a new request: every sink that
\* kept data was on the stop_list.
LEMMA FreedSound ==
  ASSUME NEW q \in Request, Sound(q)
  PROVE  /\ Freed(q) \in Request /\ Sound(Freed(q)) /\ Idle(Freed(q))
         /\ Freed(q).playing = NobodyPlays /\ Freed(q).resync = {}
<1> DEFINE data == StopSinks(q, q.stops).data
<1>1. StopSinks(q, q.stops) \in Request
  BY SinkTypes DEF Request
<1>2. data \in [Sinks -> SinkData]
  BY <1>1 DEF Request
<1>3. \A s \in Keepers : data[s] = "none"
  BY DEF StopSinks, Request, Sound, KeepersStop, Keepers
<1> HIDE DEF data
<1>4. [Blank EXCEPT !.data = data] \in Request
  BY <1>2, BlankType DEF Request
<1>5. /\ Sound([Blank EXCEPT !.data = data])
      /\ Idle([Blank EXCEPT !.data = data])
      /\ [Blank EXCEPT !.data = data].playing = NobodyPlays
      /\ [Blank EXCEPT !.data = data].resync = {}
  BY <1>3 DEF Blank, Sound, DoneFirst, PlaysSynchronized, MasterWaits,
              KeepersStop, IsMaster, Idle, NobodyPlays
<1>6. QED
  BY <1>4, <1>5 DEF Freed, data

\* n_input_interface_play_request with a new request.
LEMMA SubmitInv ==
  ASSUME PlayerInv, NEW r \in Requests, Submit(r)
  PROVE  PlayerInv'
BY PlayInv, BlankType, BlankSound DEF Submit, Blank

\* n_core_request_done_cb: the request is freed, or its fallback is played in
\* its place.
LEMMA RequestDoneInv ==
  ASSUME PlayerInv, NEW r \in Requests, RequestDone(r)
  PROVE  PlayerInv'
<1> DEFINE q == req[r]
<1>1. q \in Request /\ Sound(q) /\ r \in live
  BY DEF PlayerInv, TypeOK, RequestDone
<1>2. Freed(q) \in Request /\ Sound(Freed(q)) /\ Idle(Freed(q))
  BY <1>1, FreedSound
<1>3. ASSUME NEW status \in Statuses, Finish(r, status)
      PROVE  PlayerInv'
  <2>1. TypeOK'
    BY <1>2, <1>3 DEF Finish, RequestDone, PlayerInv, TypeOK
  <2>2. \A i \in Requests : req'[i] = IF i = r THEN Freed(q) ELSE req[i]
    BY <1>3 DEF Finish, PlayerInv, TypeOK
  <2>3. \A i \in Requests : Sound(req'[i])
    BY <1>2, <2>2 DEF PlayerInv
  <2>4. \A i \in Requests \ live' : Idle(req'[i])
    BY <1>2, <1>3, <2>2 DEF Finish, PlayerInv
  <2>5. \A i \in live' : closed'[i] = 0 /\ (i \notin requests' => req'[i].stop)
    BY <1>3, <2>2 DEF Finish, PlayerInv, TypeOK
  <2>6. requests' \subseteq live' /\ aborted' # "resync"
    BY <1>3 DEF Finish, RequestDone, PlayerInv
  <2>7. QED
    BY <2>1, <2>3, <2>4, <2>5, <2>6 DEF PlayerInv
<1>4. ASSUME Retry(r) PROVE PlayerInv'
  <2> DEFINE e == [Freed(q) EXCEPT !.fallback = TRUE]
  <2>1. /\ e \in Request /\ Sound(e) /\ Idle(e)
        /\ e.playing = NobodyPlays /\ e.resync = {}
    BY <1>1, <1>2, FreedSound
       DEF Request, Sound, DoneFirst, PlaysSynchronized, MasterWaits,
           KeepersStop, IsMaster, Idle
  <2> HIDE DEF e
  <2>2. /\ PlayRequest(r, e) /\ closed[r] = 0 /\ live' = live \cup {r}
        /\ UNCHANGED <<closed, aborted, stopAsked>>
    BY <1>1, <1>4 DEF Retry, RequestDone, PlayerInv, e
  <2>3. QED
    BY <2>1, <2>2, PlayInv
<1>5. QED
  BY <1>3, <1>4 DEF RequestDone, Statuses

-----------------------------------------------------------------------------
(* The calls of the input interface keep the invariant.                    *)

\* A pause only sets is_paused, which no part of the invariant reads.
LEMMA PauseInv ==
  ASSUME PlayerInv, NEW r \in Requests, Pause(r)
  PROVE  PlayerInv'
<1> DEFINE p == [req[r] EXCEPT !.paused = TRUE]
<1>1. /\ r \in live /\ req \in [Requests -> Request] /\ req[r] \in Request
      /\ Sound(req[r]) /\ aborted \in Aborts \ {"resync"}
      /\ reply \in [Requests -> Statuses] /\ stopAsked \in SUBSET Requests
  BY DEF Pause, PlayerInv, TypeOK
<1>2. p \in Request /\ Sound(p)
  BY <1>1 DEF Request, Sound, DoneFirst, PlaysSynchronized, MasterWaits,
              KeepersStop, IsMaster
<1>3. CASE req' = [req EXCEPT ![r].paused = TRUE] /\ UNCHANGED aborted
  <2>1. req' = [req EXCEPT ![r] = p]
    BY <1>3
  <2>2. reply' \in [Requests -> Statuses]
    BY <1>1 DEF Pause, Statuses
  <2> HIDE DEF p
  <2>3. /\ UNCHANGED <<live, requests, closed>> /\ r \in requests
        /\ stopAsked' \in SUBSET Requests
        /\ aborted' \in Aborts \ {"resync"}
    BY <1>1, <1>3 DEF Pause
  <2>4. QED
    BY <1>1, <1>2, <2>1, <2>2, <2>3, RewriteOne
<1>4. CASE aborted' = "nodata" /\ UNCHANGED <<req, reply>>
  BY <1>1, <1>4 DEF Pause, PlayerInv, TypeOK, Aborts
<1>5. QED
  BY <1>3, <1>4 DEF Pause

\* A resume plays sinks that hold data already, hence are on the stop_list.
LEMMA ResumeInv ==
  ASSUME PlayerInv, NEW r \in Requests, Resume(r)
  PROVE  PlayerInv'
<1>1. /\ r \in live /\ req \in [Requests -> Request] /\ req[r] \in Request
      /\ Sound(req[r]) /\ aborted \in Aborts \ {"resync"}
      /\ reply \in [Requests -> Statuses] /\ stopAsked \in SUBSET Requests
  BY DEF Resume, PlayerInv, TypeOK
<1>2. CASE UNCHANGED <<req, reply>> /\ aborted' = "nodata"
  BY <1>1, <1>2 DEF Resume, PlayerInv, TypeOK, Aborts
<1>3. ASSUME NEW F \in SUBSET req[r].all,
             req' = [req EXCEPT
               ![r].paused = FALSE,
               ![r].data = [s \in Sinks |->
                  IF s \in req[r].all \ (F \cup Unready(req[r]))
                  THEN "active" ELSE req[r].data[s]]],
             reply' = IF F = {} THEN [reply EXCEPT ![r] = "playing"]
                                ELSE reply,
             UNCHANGED aborted
      PROVE  PlayerInv'
  <2> DEFINE data == [s \in Sinks |->
                        IF s \in req[r].all \ (F \cup Unready(req[r]))
                        THEN "active" ELSE req[r].data[s]]
             p    == [req[r] EXCEPT !.paused = FALSE, !.data = data]
  <2>2. data \in [Sinks -> SinkData]
    BY <1>1 DEF Request, SinkData
  <2>3. \A s \in Keepers :
          data[s] # "none" => req[r].data[s] # "none"
    BY <1>3 DEF Unready, Keepers
  <2>4. req' = [req EXCEPT ![r] = p]
    BY <1>1, <1>3 DEF Request
  <2> HIDE DEF data
  <2>5. p \in Request
    BY <1>1, <2>2 DEF Request
  <2>6. Sound(p)
    BY <1>1, <2>3 DEF Request, Sound, DoneFirst, PlaysSynchronized,
                      MasterWaits, KeepersStop, IsMaster
  <2>7. /\ UNCHANGED <<live, requests, closed>> /\ r \in requests
        /\ stopAsked' \in SUBSET Requests
        /\ aborted' \in Aborts \ {"resync"}
        /\ reply' \in [Requests -> Statuses]
    BY <1>1, <1>3 DEF Resume, Statuses
  <2> HIDE DEF p
  <2>8. QED
    BY <1>1, <2>4, <2>5, <2>6, <2>7, RewriteOne
<1>4. QED
  BY <1>2, <1>3 DEF Resume

\* A resume of what is not paused ends the daemon, whose state is then as it was.
LEMMA ReplayInv ==
  ASSUME PlayerInv, NEW r \in Requests, Replay(r)
  PROVE  PlayerInv'
BY DEF Replay, PlayerInv, TypeOK, Aborts

\* n_core_stop_request.
LEMMA StopInv ==
  ASSUME PlayerInv, NEW r \in Requests, Stop(r)
  PROVE  PlayerInv'
<1> DEFINE p == StopRequest(req[r])
<1>1. r \in live /\ r \in requests /\ req[r] \in Request /\ Sound(req[r])
  BY DEF Stop, PlayerInv, TypeOK
<1>2. p \in Request /\ Sound(p)
  BY <1>1, SourceTypes, SourcesSound
<1>3. /\ req' = [req EXCEPT ![r] = p] /\ UNCHANGED <<live, requests, closed>>
      /\ reply' \in [Requests -> Statuses] /\ stopAsked' \in SUBSET Requests
      /\ aborted' \in Aborts \ {"resync"}
  BY DEF Stop, PlayerInv, TypeOK
<1> HIDE DEF p
<1>4. QED
  BY <1>1, <1>2, <1>3, RewriteOne

\* n_core_stop_requests, which walks every listed request.
LEMMA StopAllInv ==
  ASSUME PlayerInv, StopAll
  PROVE  PlayerInv'
<1>1. \A r \in Requests :
        req'[r] = IF r \in requests THEN StopRequest(req[r]) ELSE req[r]
  BY DEF StopAll
<1>2. \A r \in Requests : req'[r] \in Request /\ Sound(req'[r])
  BY <1>1, SourceTypes, SourcesSound DEF PlayerInv, TypeOK
<1>3. TypeOK'
  BY <1>2 DEF StopAll, PlayerInv, TypeOK
<1>4. \A r \in Requests : r \notin requests => req'[r] = req[r]
  BY <1>1
<1>5. QED
  BY <1>2, <1>3, <1>4 DEF StopAll, PlayerInv, TypeOK

-----------------------------------------------------------------------------
(* The calls of the sinks and the sources of the main loop keep it.        *)

\* A sink reports to a request that is allocated; if no lookup finds that
\* request it is ending, and it goes on ending.
LEMMA ReportInv ==
  ASSUME PlayerInv, NEW r \in live, NEW p \in Request, Sound(p),
         req[r].stop => p.stop,
         req' = [req EXCEPT ![r] = p],
         UNCHANGED <<live, requests, reply, closed, aborted, stopAsked>>
  PROVE  PlayerInv'
<1>1. /\ r \notin requests => p.stop
      /\ UNCHANGED <<live, requests, closed>>
      /\ reply' \in [Requests -> Statuses] /\ stopAsked' \in SUBSET Requests
      /\ aborted' \in Aborts \ {"resync"}
  BY DEF PlayerInv, TypeOK
<1>2. QED
  BY <1>1, RewriteOne

\* What the invariant says of one allocated request.
LEMMA LiveSound ==
  ASSUME PlayerInv, NEW r \in live
  PROVE  r \in Requests /\ req[r] \in Request /\ Sound(req[r])
BY DEF PlayerInv, TypeOK

\* n_sink_interface_synchronize.
LEMMA SinkSynchronizesInv ==
  ASSUME PlayerInv, NEW r \in Requests, NEW s \in Sinks, SinkSynchronizes(r, s)
  PROVE  PlayerInv'
<1> DEFINE p == SynchronizeSinks(req[r], {s})
<1>1. r \in live /\ req[r] \in Request /\ Sound(req[r])
  BY LiveSound DEF SinkSynchronizes
<1>2. p \in Request /\ Sound(p) /\ (req[r].stop => p.stop)
  BY <1>1, SynchronizeType, SynchronizeSound, StopStays
<1>3. /\ req' = [req EXCEPT ![r] = p]
      /\ UNCHANGED <<live, requests, reply, closed, aborted, stopAsked>>
  BY DEF SinkSynchronizes
<1> HIDE DEF p
<1>4. QED
  BY <1>1, <1>2, <1>3, ReportInv

\* n_sink_interface_complete.
LEMMA SinkCompletesInv ==
  ASSUME PlayerInv, NEW r \in Requests, NEW s \in Sinks, SinkCompletes(r, s)
  PROVE  PlayerInv'
<1> DEFINE e == [req[r] EXCEPT !.data = [req[r].data EXCEPT ![s] = "ended"]]
           p == CompleteSink(e, s)
<1>1. r \in live /\ req[r] \in Request /\ Sound(req[r])
      /\ req[r].data[s] = "active"
  BY LiveSound DEF SinkCompletes
<1>2. [req[r].data EXCEPT ![s] = "ended"] \in [Sinks -> SinkData]
  BY <1>1 DEF Request, SinkData
<1>3. e \in Request
  BY <1>1, <1>2 DEF Request
<1>4. Sound(e)
  BY <1>1 DEF Request, Sound, DoneFirst, PlaysSynchronized, MasterWaits,
              KeepersStop, IsMaster, Keepers
<1>5. e.stop = req[r].stop
  BY <1>1 DEF Request
<1>6. req' = [req EXCEPT ![r] = p]
  BY DEF SinkCompletes
<1> HIDE DEF e
<1>7. p \in Request /\ Sound(p) /\ (req[r].stop => p.stop)
  BY <1>3, <1>4, <1>5, CompleteType, CompleteSound, StopStays
<1> HIDE DEF p
<1>8. QED
  BY <1>1, <1>6, <1>7, ReportInv DEF SinkCompletes

\* n_sink_interface_fail.
LEMMA SinkFailsInv ==
  ASSUME PlayerInv, NEW r \in Requests, NEW s \in Sinks, SinkFails(r, s)
  PROVE  PlayerInv'
<1> DEFINE p == FailSink(req[r])
<1>1. r \in live /\ req[r] \in Request /\ Sound(req[r])
  BY LiveSound DEF SinkFails
<1>2. p \in Request /\ Sound(p) /\ (req[r].stop => p.stop)
  BY <1>1, SourceTypes, SourcesSound, StopStays
<1>3. /\ req' = [req EXCEPT ![r] = p]
      /\ UNCHANGED <<live, requests, reply, closed, aborted, stopAsked>>
  BY DEF SinkFails
<1> HIDE DEF p
<1>4. QED
  BY <1>1, <1>2, <1>3, ReportInv

\* n_sink_interface_set_resync_on_master.
LEMMA SetResyncInv ==
  ASSUME PlayerInv, NEW r \in Requests, NEW s \in Sinks, SetResync(r, s)
  PROVE  PlayerInv'
<1> DEFINE p == [req[r] EXCEPT !.resync = @ \cup {s}]
<1>1. /\ r \in live /\ req[r] \in Request /\ Sound(req[r])
      /\ ~IsMaster(req[r], s)
  BY LiveSound DEF SetResync
<1>2. p \in Request /\ (req[r].stop => p.stop)
  BY <1>1 DEF Request
<1>3. Sound(p)
  BY <1>1 DEF Request, Sound, DoneFirst, PlaysSynchronized, MasterWaits,
              KeepersStop, IsMaster
<1>4. /\ req' = [req EXCEPT ![r] = p]
      /\ UNCHANGED <<live, requests, reply, closed, aborted, stopAsked>>
  BY DEF SetResync
<1> HIDE DEF p
<1>5. QED
  BY <1>1, <1>2, <1>3, <1>4, ReportInv

\* n_core_max_timeout_reached_cb.
LEMMA MaxTimeoutInv ==
  ASSUME PlayerInv, NEW r \in Requests, MaxTimeout(r)
  PROVE  PlayerInv'
<1> DEFINE e == [req[r] EXCEPT !.max = FALSE]
           p == StopRequest(e)
<1>1. r \in live /\ req[r] \in Request /\ Sound(req[r])
  BY LiveSound DEF MaxTimeout
<1>2. e \in Request /\ e.stop = req[r].stop
  BY <1>1 DEF Request
<1>3. Sound(e)
  BY <1>1 DEF Request, Sound, DoneFirst, PlaysSynchronized, MasterWaits,
              KeepersStop, IsMaster
<1>4. /\ req' = [req EXCEPT ![r] = p]
      /\ UNCHANGED <<live, requests, reply, closed, aborted, stopAsked>>
  BY DEF MaxTimeout
<1> HIDE DEF e
<1>5. p \in Request /\ Sound(p) /\ (req[r].stop => p.stop)
  BY <1>2, <1>3, SourceTypes, SourcesSound, StopStays
<1> HIDE DEF p
<1>6. QED
  BY <1>1, <1>4, <1>5, ReportInv

\* n_core_sink_synchronize_done_cb: no sink is preparing when it plays.
LEMMA SynchronizeDoneInv ==
  ASSUME PlayerInv, NEW r \in Requests, SynchronizeDone(r)
  PROVE  PlayerInv'
<1> DEFINE q == SetupMaxTimeout([req[r] EXCEPT !.play = FALSE])
           all == [StartSinks(q, q.prepared) EXCEPT !.prepared = {}]
<1>1. r \in live /\ req[r] \in Request /\ Sound(req[r]) /\ req[r].play
  BY LiveSound DEF SynchronizeDone
<1>2. ~req[r].stop
  BY <1>1 DEF Sound, DoneFirst
<1>3. q \in Request /\ q.prepared = req[r].prepared /\ Sound(all)
  BY <1>1, StartSound
<1>4. q.prepared \in SUBSET Sinks
  BY <1>3 DEF Request
<1>5. /\ \/ req' = [req EXCEPT ![r] = all]
         \/ \E f \in q.prepared : \E P \in SUBSET (q.prepared \ {f}) :
              req' = [req EXCEPT ![r] = FailSink(StartSinks(q, P))]
         \/ UNCHANGED req /\ aborted' = "nodata"
      /\ UNCHANGED aborted \/ (UNCHANGED req /\ aborted' = "nodata")
      /\ UNCHANGED <<live, requests, reply, closed, stopAsked>>
  BY DEF SynchronizeDone
<1>6. ASSUME NEW P \in SUBSET req[r].prepared
      PROVE  Sound(FailSink(StartSinks(q, P)))
  BY <1>1, StartSound
<1> HIDE DEF q
<1>7. all \in Request
  <2>1. StartSinks(q, q.prepared) \in Request
    BY <1>3, <1>4, SinkTypes
  <2>2. QED
    BY <2>1 DEF Request
<1> HIDE DEF all
<1>8. CASE UNCHANGED req /\ aborted' = "nodata"
  BY <1>5, <1>8 DEF PlayerInv, TypeOK, Aborts
<1>9. CASE UNCHANGED aborted /\ req' = [req EXCEPT ![r] = all]
  BY <1>1, <1>2, <1>3, <1>5, <1>7, <1>9, ReportInv
<1>10. ASSUME NEW P \in SUBSET q.prepared, UNCHANGED aborted,
              req' = [req EXCEPT ![r] = FailSink(StartSinks(q, P))]
       PROVE  PlayerInv'
  <2> DEFINE z == FailSink(StartSinks(q, P))
  <2>1. Sound(z)
    BY <1>3, <1>6
  <2>2. z \in Request
    BY <1>3, <1>4, SinkTypes, SourceTypes
  <2>3. req' = [req EXCEPT ![r] = z]
    BY <1>10
  <2> HIDE DEF z
  <2>4. QED
    BY <1>1, <1>2, <1>5, <1>10, <2>1, <2>2, <2>3, ReportInv
<1>11. QED
  BY <1>5, <1>8, <1>9, <1>10

\* A call that takes effects away changes nothing the player looks at.
SameBut(q, p) ==
  /\ p.fallback = q.fallback /\ p.failed = q.failed /\ p.noEvent = q.noEvent
  /\ p.paused = q.paused /\ p.play = q.play /\ p.stop = q.stop /\ p.max = q.max
  /\ p.timed = q.timed /\ p.all = q.all /\ p.preparing = q.preparing
  /\ p.prepared = q.prepared /\ p.playing = q.playing /\ p.resync = q.resync
  /\ p.stops = q.stops /\ p.data = q.data

LEMMA CallChangesLittle ==
  ASSUME PlayerInv, CallActive
  PROVE  /\ UNCHANGED <<live, requests, reply, closed, aborted, stopAsked>>
         /\ req' \in [Requests -> Request]
         /\ \A i \in Requests : SameBut(req[i], req'[i])
         /\ \A i \in Requests \ live : req'[i] = req[i]
<1>1. PICK R \in (SUBSET live) \ {{}} :
        req' = [i \in Requests |-> IF i \in R THEN LoseEffects(req[i]) ELSE req[i]]
  BY DEF CallActive
<1>2. ASSUME NEW q \in Request
      PROVE  LoseEffects(q) \in Request /\ SameBut(q, LoseEffects(q))
  BY SinkAssumption DEF LoseEffects, Request, SameBut
<1>3. \A i \in Requests : req[i] \in Request /\ SameBut(req[i], req[i])
  BY DEF PlayerInv, TypeOK, SameBut
<1>4. QED
  BY <1>1, <1>2, <1>3 DEF CallActive

LEMMA CallActiveInv ==
  ASSUME PlayerInv, CallActive
  PROVE  PlayerInv'
<1>1. /\ UNCHANGED <<live, requests, reply, closed, aborted, stopAsked>>
      /\ req' \in [Requests -> Request]
      /\ \A i \in Requests : SameBut(req[i], req'[i])
      /\ \A i \in Requests \ live : req'[i] = req[i]
  BY CallChangesLittle
<1>2. \A i \in Requests : Sound(req[i]) => Sound(req'[i])
  BY <1>1 DEF SameBut, Sound, DoneFirst, PlaysSynchronized, MasterWaits,
              KeepersStop, IsMaster
<1>3. \A i \in Requests : req[i].stop => req'[i].stop
  BY <1>1 DEF SameBut
<1>4. QED
  BY <1>1, <1>2, <1>3 DEF PlayerInv, TypeOK

\* Two masters would be two sinks of the same rank.
LEMMA MasterUnique ==
  ASSUME NEW q \in Request, NEW s \in Sinks, IsMaster(q, s),
         NEW m \in Sinks, IsMaster(q, m)
  PROVE  m = s
BY RankAssumption DEF IsMaster, Request

\* The preparation of sinks never takes an ending request back.
LEMMA PrepareStays ==
  ASSUME NEW q \in Request, q.stop, NEW S, NEW reached \in SUBSET Sinks,
         NEW prompt \in SUBSET reached
  PROVE  PrepareSinks(q, S, reached, prompt).stop
BY DEF PrepareSinks, SynchronizeSinks, FailSink, Request

\* A master that plays finds no sink preparing: the assertion holds.
LEMMA ResynchronizeInv ==
  ASSUME PlayerInv, NEW r \in Requests, NEW s \in Sinks, Resynchronize(r, s)
  PROVE  PlayerInv'
<1> DEFINE q == req[r]
           o == RemovePlaying(q, s)
           p == [o EXCEPT !.prepared = @ \cup {s}]
<1>1. /\ r \in live /\ q \in Request /\ Sound(q)
      /\ IsMaster(q, s) /\ q.playing[s] > 0 /\ ~q.play
  BY LiveSound DEF Resynchronize
<1>2. q.preparing = {}
  BY <1>1 DEF Sound, MasterWaits
<1>3. /\ o \in Request /\ o.playing[s] = 0
      /\ o.stop = q.stop /\ o.play = q.play /\ o.all = q.all
      /\ o.preparing = q.preparing /\ o.resync = q.resync
  <2>1. o \in Request
    BY <1>1, CompleteType
  <2>2. q.playing \in [Sinks -> Nat] /\ q.playing[s] <= 1
    BY <1>1 DEF Request, Sound, MasterWaits
  <2>3. o.playing[s] = 0
    BY <1>1, <2>2 DEF RemovePlaying, Request
  <2>4. QED
    BY <1>1, <2>1, <2>3 DEF RemovePlaying, Request
<1>4. Sound(o)
  BY <1>1, CompleteSound
<1>5. \A m \in Sinks : IsMaster(q, m) => m = s
  BY <1>1, MasterUnique
<1> HIDE DEF o
<1>6. /\ p \in Request /\ p.playing[s] = 0 /\ p.stop = q.stop /\ ~p.play
      /\ p.all = q.all /\ p.preparing = {} /\ p.resync = q.resync
      /\ s \in p.prepared
  BY <1>1, <1>2, <1>3 DEF Request
<1>7. Sound(p)
  BY <1>1, <1>3, <1>4, <1>5 DEF Request, Sound, DoneFirst,
     PlaysSynchronized, MasterWaits, KeepersStop, IsMaster
<1>8. /\ \/ /\ req' = [req EXCEPT ![r] = SetupSynchronizeDone(p)]
            /\ UNCHANGED aborted
         \/ \E reached \in AnyReach(q.resync) :
              \E prompt \in SUBSET reached :
                /\ req' = [req EXCEPT ![r] =
                     PrepareSinks([StopSinks(p, q.resync) EXCEPT
                                     !.resync = {}, !.preparing = q.resync],
                                  q.resync, reached, prompt)]
                /\ UNCHANGED aborted
      /\ UNCHANGED <<live, requests, reply, closed, stopAsked>>
  BY <1>2 DEF Resynchronize, o
<1> HIDE DEF p
<1>9. CASE req' = [req EXCEPT ![r] = SetupSynchronizeDone(p)] /\ UNCHANGED aborted
  <2> DEFINE z == SetupSynchronizeDone(p)
  <2>1. z \in Request
    BY <1>6, SourceTypes
  <2>2. Sound(z)
    BY <1>1, <1>5, <1>6, <1>7 DEF SetupSynchronizeDone, Request, Sound,
       DoneFirst, PlaysSynchronized, MasterWaits, KeepersStop, IsMaster
  <2>3. q.stop => z.stop
    BY <1>6 DEF SetupSynchronizeDone
  <2>4. req' = [req EXCEPT ![r] = z]
    BY <1>9
  <2> HIDE DEF z
  <2>5. QED
    BY <1>1, <1>8, <1>9, <2>1, <2>2, <2>3, <2>4, ReportInv
<1>10. ASSUME NEW reached \in AnyReach(q.resync), NEW prompt \in SUBSET reached,
              req' = [req EXCEPT ![r] =
                       PrepareSinks([StopSinks(p, q.resync) EXCEPT
                                       !.resync = {}, !.preparing = q.resync],
                                    q.resync, reached, prompt)],
              UNCHANGED aborted
       PROVE  PlayerInv'
  <2> DEFINE t == StopSinks(p, q.resync)
             e == [t EXCEPT !.resync = {}, !.preparing = q.resync]
             z == PrepareSinks(e, q.resync, reached, prompt)
  <2>1. q.resync \in SUBSET Sinks
    BY <1>1 DEF Request
  <2>2. t \in Request /\ Sound(t)
    BY <1>6, <1>7, <2>1, SinkTypes, StopSinksSound
  <2>3. /\ t.stop = q.stop /\ ~t.play /\ t.all = q.all
        /\ t.playing[s] = 0
    BY <1>6 DEF StopSinks, Request
  <2>4. reached \in SUBSET Sinks
    BY <2>1 DEF AnyReach
  <2> HIDE DEF t
  <2>5. e \in Request /\ e.stop = q.stop
    BY <2>1, <2>2, <2>3 DEF Request
  <2>6. Sound(e)
    BY <1>1, <1>5, <2>1, <2>2, <2>3 DEF Request, Sound, DoneFirst,
       PlaysSynchronized, MasterWaits, KeepersStop, IsMaster
  <2>7. req' = [req EXCEPT ![r] = z]
    BY <1>10 DEF t
  <2> HIDE DEF e
  <2>8. z \in Request /\ Sound(z) /\ (q.stop => z.stop)
    BY <2>4, <2>5, <2>6, PrepareType, PrepareSound, PrepareStays
  <2> HIDE DEF z
  <2>9. QED
    BY <1>1, <1>8, <1>10, <2>7, <2>8, ReportInv
<1>11. QED
  BY <1>8, <1>9, <1>10

-----------------------------------------------------------------------------
(* Together.                                                               *)

\* Every callback of the main loop keeps the invariant.
LEMMA NextInv == PlayerInv /\ [Next]_vars => PlayerInv'
<1> SUFFICES ASSUME PlayerInv, [Next]_vars PROVE PlayerInv'
  OBVIOUS
<1>1. CASE UNCHANGED vars
  BY <1>1 DEF vars, PlayerInv, TypeOK
<1>2. CASE StopAll \/ CallActive
  BY <1>2, StopAllInv, CallActiveInv
<1>3. ASSUME NEW r \in Requests, Step(r)
      PROVE  PlayerInv'
  <2>1. CASE \/ Submit(r) \/ Pause(r) \/ Resume(r) \/ Replay(r) \/ Stop(r)
    BY <2>1, SubmitInv, PauseInv, ResumeInv, ReplayInv, StopInv
  <2>2. CASE SynchronizeDone(r) \/ MaxTimeout(r) \/ RequestDone(r)
    BY <2>2, SynchronizeDoneInv, MaxTimeoutInv, RequestDoneInv
  <2>3. ASSUME NEW s \in Sinks,
               \/ SinkSynchronizes(r, s) \/ SinkCompletes(r, s)
               \/ SinkFails(r, s) \/ SetResync(r, s) \/ Resynchronize(r, s)
        PROVE  PlayerInv'
    BY <2>3, SinkSynchronizesInv, SinkCompletesInv, SinkFailsInv,
       SetResyncInv, ResynchronizeInv
  <2>4. QED
    BY <1>3, <2>1, <2>2, <2>3 DEF Step
<1>4. QED
  BY <1>1, <1>2, <1>3 DEF Next

\* The inductive invariant holds of every behaviour.
THEOREM Invariance == Spec => []PlayerInv
<1>1. Init => PlayerInv
  BY InitInv
<1>2. PlayerInv /\ [Next]_vars => PlayerInv'
  BY NextInv
<1>3. QED
  BY <1>1, <1>2, PTL DEF Spec

\* Every variable keeps its type; no sink is counted a negative number of times
\* in sinks_playing.
THEOREM TypeCorrect == Spec => []TypeOK
<1>1. PlayerInv => TypeOK
  BY DEF PlayerInv
<1>2. QED
  BY <1>1, Invariance, PTL

\* The done source excludes the play source and the maximum timeout, whatever
\* the order in which sinks report, clients stop and timers fire.
THEOREM DoneTakesPrecedence == Spec => []DonePrecedence
<1>1. PlayerInv => DonePrecedence
  BY DEF PlayerInv, Sound, DoneFirst, DonePrecedence
<1>2. QED
  BY <1>1, Invariance, PTL

\* No source and no entry of core->requests outlives its request.
THEOREM SourcesDie == Spec => []NoDanglingSource
<1>1. PlayerInv => NoDanglingSource
  BY DEF PlayerInv, Idle, NoDanglingSource
<1>2. QED
  BY <1>1, Invariance, PTL

\* A request that its client cannot find is on its way out.
THEOREM UnlistedEnds == Spec => []UnlistedIsEnding
<1>1. PlayerInv => UnlistedIsEnding
  BY DEF PlayerInv, UnlistedIsEnding
<1>2. QED
  BY <1>1, Invariance, PTL

\* Playback is scheduled only once every sink has synchronized, also after a
\* resynchronization.
THEOREM PlaysAfterSynchronization == Spec => []SynchronizedBeforePlay
<1>1. PlayerInv => SynchronizedBeforePlay
  BY DEF PlayerInv, TypeOK, Sound, PlaysSynchronized, SynchronizedBeforePlay
<1>2. QED
  BY <1>1, Invariance, PTL

\* A sink with data for a request will be stopped before the request is freed.
THEOREM KeepersAreStopped == Spec => []SinksWillStop
<1>1. PlayerInv => SinksWillStop
  BY DEF PlayerInv, TypeOK, Sound, KeepersStop, SinksWillStop
<1>2. QED
  BY <1>1, Invariance, PTL

\* No sink keeps data for a request that was freed.
THEOREM NothingIsLeft == Spec => []SinksReleased
<1>1. PlayerInv => SinksReleased
  BY DEF PlayerInv, Idle, SinksReleased
<1>2. QED
  BY <1>1, Invariance, PTL

\* The assertion of n_core_resynchronize_sinks never fails.
THEOREM ResyncAssertionHolds == Spec => []NeverResyncedWhilePreparing
<1>1. PlayerInv => NeverResyncedWhilePreparing
  BY DEF PlayerInv, NeverResyncedWhilePreparing
<1>2. QED
  BY <1>1, Invariance, PTL

-----------------------------------------------------------------------------
(* What no step does to a request: theorems about pairs of states.          *)

\* What becomes of a request that is not freed: a timeout stays armed until the
\* request ends, and an end without a failure stays one.
Continues(q, p) ==
  /\ q.max => p.max \/ p.stop
  /\ q.stop /\ ~q.failed => p.stop /\ ~p.failed

\* The functions of core-player.c that work on the sources and on one sink.
LEMMA SourcesContinue ==
  ASSUME NEW q \in Request
  PROVE  /\ Continues(q, SetupSynchronizeDone(q))
         /\ Continues(q, SetupDone(q))
         /\ Continues(q, StopRequest(q))
         /\ Continues(q, FailSink(q))
         /\ Continues(q, StopRequest([q EXCEPT !.max = FALSE]))
         /\ \A s \in Sinks : Continues(q, RemovePlaying(q, s))
         /\ \A s \in Sinks : Continues(q, CompleteSink(q, s))
BY DEF SetupSynchronizeDone, SetupDone, StopRequest, FailSink, RemovePlaying,
       CompleteSink, Continues, Request

LEMMA SynchronizeContinues ==
  ASSUME NEW q \in Request, NEW S \in SUBSET Sinks
  PROVE  Continues(q, SynchronizeSinks(q, S))
BY DEF SynchronizeSinks, SetupSynchronizeDone, Continues, Request

LEMMA PrepareContinues ==
  ASSUME NEW q \in Request, NEW S, NEW reached \in SUBSET Sinks,
         NEW prompt \in SUBSET reached
  PROVE  Continues(q, PrepareSinks(q, S, reached, prompt))
<1> DEFINE ready == reached \ NoPrepare
           p == [q EXCEPT !.stops = @ \cup ready,
                          !.data  = [s \in Sinks |-> IF s \in ready THEN "ready"
                                                     ELSE q.data[s]]]
           T == prompt \cup (reached \cap NoPrepare)
           e == SynchronizeSinks(p, T)
<1>1. p \in Request
  <2>1. [s \in Sinks |-> IF s \in ready THEN "ready" ELSE q.data[s]]
           \in [Sinks -> SinkData]
    BY DEF Request, SinkData
  <2>2. QED
    BY <2>1 DEF Request
<1>2. p.max = q.max /\ p.stop = q.stop /\ p.failed = q.failed
  BY DEF Request
<1>3. PrepareSinks(q, S, reached, prompt) = IF reached = S THEN e ELSE FailSink(e)
  BY DEF PrepareSinks
<1> HIDE DEF p
<1>4. e \in Request /\ Continues(p, e)
  BY <1>1, SynchronizeType, SynchronizeContinues
<1> HIDE DEF e
<1>5. Continues(e, FailSink(e))
  BY <1>4, SourcesContinue
<1>6. FailSink(e).stop
  BY <1>4 DEF FailSink, SetupDone, Request
<1>7. QED
  BY <1>2, <1>3, <1>4, <1>5, <1>6 DEF Continues

\* The start of the sinks, of a request that is not ending.
LEMMA StartContinues ==
  ASSUME NEW q \in Request, ~q.stop, NEW P \in SUBSET Sinks
  PROVE  LET q0 == SetupMaxTimeout([q EXCEPT !.play = FALSE])
         IN  /\ Continues(q, [StartSinks(q0, P) EXCEPT !.prepared = {}])
             /\ Continues(q, FailSink(StartSinks(q0, P)))
BY DEF SetupMaxTimeout, StartSinks, FailSink, SetupDone, Continues, Request

-----------------------------------------------------------------------------
(* One step.                                                                *)

\* Every step on r leaves the other requests as they are.
LEMMA OthersSame ==
  ASSUME PlayerInv, NEW r \in Requests, Step(r)
  PROVE  \A i \in Requests \ {r} : req'[i] = req[i] /\ reply'[i] = reply[i]
<1>1. req \in [Requests -> Request] /\ reply \in [Requests -> Statuses]
  BY DEF PlayerInv, TypeOK
<1>2. CASE Submit(r)
  BY <1>1, <1>2 DEF Submit, PlayRequest, PlayUnresolved, PlayNoSinks, PlaySinks
<1>3. CASE Pause(r) \/ Resume(r) \/ Replay(r) \/ Stop(r) \/ MaxTimeout(r)
  BY <1>1, <1>3 DEF Pause, Resume, Replay, Stop, MaxTimeout
<1>4. CASE SynchronizeDone(r)
  BY <1>1, <1>4 DEF SynchronizeDone
<1>5. CASE RequestDone(r)
  BY <1>1, <1>5 DEF RequestDone, Finish, Retry, PlayRequest, PlayUnresolved,
                    PlayNoSinks, PlaySinks
<1>6. CASE \E s \in Sinks : \/ SinkSynchronizes(r, s) \/ SinkCompletes(r, s)
                            \/ SinkFails(r, s) \/ SetResync(r, s)
                            \/ Resynchronize(r, s)
  BY <1>1, <1>6 DEF SinkSynchronizes, SinkCompletes, SinkFails, SetResync,
                    Resynchronize
<1>7. QED
  BY <1>2, <1>3, <1>4, <1>5, <1>6 DEF Step

\* The calls of a client.
LEMMA ClientContinues ==
  ASSUME PlayerInv, NEW r \in live,
         Pause(r) \/ Resume(r) \/ Replay(r) \/ Stop(r)
  PROVE  Continues(req[r], req'[r])
<1>1. req \in [Requests -> Request] /\ req[r] \in Request /\ r \in Requests
  BY DEF PlayerInv, TypeOK
<1>2. CASE Pause(r) \/ Replay(r)
  BY <1>1, <1>2 DEF Pause, Replay, Continues, Request
<1>3. CASE Resume(r)
  BY <1>1, <1>3 DEF Resume, Continues, Request
<1>4. CASE Stop(r)
  BY <1>1, <1>4, SourcesContinue DEF Stop
<1>5. QED
  BY <1>2, <1>3, <1>4

\* The calls of a sink.
LEMMA SinkContinues ==
  ASSUME PlayerInv, NEW r \in live, NEW s \in Sinks,
         \/ SinkSynchronizes(r, s) \/ SinkCompletes(r, s) \/ SinkFails(r, s)
         \/ SetResync(r, s) \/ Resynchronize(r, s)
  PROVE  Continues(req[r], req'[r])
<1>1. req \in [Requests -> Request] /\ req[r] \in Request /\ r \in Requests
  BY DEF PlayerInv, TypeOK
<1>2. CASE SinkSynchronizes(r, s) \/ SinkFails(r, s)
  BY <1>1, <1>2, SourcesContinue, SynchronizeContinues
     DEF SinkSynchronizes, SinkFails
<1>3. CASE SinkCompletes(r, s)
  <2> DEFINE e == [req[r] EXCEPT !.data = [req[r].data EXCEPT ![s] = "ended"]]
  <2>1. e \in Request
    <3>1. [req[r].data EXCEPT ![s] = "ended"] \in [Sinks -> SinkData]
      BY <1>1 DEF Request, SinkData
    <3>2. QED
      BY <1>1, <3>1 DEF Request
  <2>2. e.max = req[r].max /\ e.stop = req[r].stop /\ e.failed = req[r].failed
    BY <1>1 DEF Request
  <2>3. req'[r] = CompleteSink(e, s)
    BY <1>1, <1>3 DEF SinkCompletes
  <2> HIDE DEF e
  <2>4. QED
    BY <2>1, <2>2, <2>3, SourcesContinue DEF Continues
<1>4. CASE SetResync(r, s)
  BY <1>1, <1>4 DEF SetResync, Continues, Request
<1>5. CASE Resynchronize(r, s)
  <2> DEFINE q == req[r]
             p == [RemovePlaying(q, s) EXCEPT !.prepared = @ \cup {s}]
             e == [StopSinks(p, q.resync) EXCEPT !.resync = {}, !.preparing = q.resync]
  <2>1. p \in Request /\ q.resync \in SUBSET Sinks
    <3>1. RemovePlaying(q, s) \in Request
      BY <1>1, CompleteType
    <3>2. QED
      BY <1>1, <3>1 DEF Request
  <2>2. p.max = q.max /\ p.stop = q.stop /\ p.failed = q.failed
    BY <1>1 DEF RemovePlaying, Request
  <2>3. \/ UNCHANGED req
        \/ req' = [req EXCEPT ![r] = SetupSynchronizeDone(p)]
        \/ \E reached \in AnyReach(q.resync) : \E prompt \in SUBSET reached :
             req' = [req EXCEPT ![r] = PrepareSinks(e, q.resync, reached, prompt)]
    BY <1>5 DEF Resynchronize
  <2> HIDE DEF p
  <2>4. e \in Request
    <3>1. StopSinks(p, q.resync) \in Request
      BY <2>1, SinkTypes
    <3>2. QED
      BY <2>1, <3>1 DEF Request
  <2>5. e.max = q.max /\ e.stop = q.stop /\ e.failed = q.failed
    BY <2>1, <2>2 DEF StopSinks, Request
  <2> HIDE DEF e
  <2>6. CASE UNCHANGED req
    BY <2>6 DEF Continues
  <2>7. CASE req' = [req EXCEPT ![r] = SetupSynchronizeDone(p)]
    BY <1>1, <2>1, <2>2, <2>7, SourcesContinue DEF Continues
  <2>8. ASSUME NEW reached \in AnyReach(q.resync), NEW prompt \in SUBSET reached,
               req' = [req EXCEPT ![r] = PrepareSinks(e, q.resync, reached, prompt)]
        PROVE  Continues(q, req'[r])
    <3>1. reached \in SUBSET Sinks
      BY <2>1 DEF AnyReach
    <3>2. Continues(e, PrepareSinks(e, q.resync, reached, prompt))
      BY <2>4, <3>1, PrepareContinues
    <3>3. QED
      BY <1>1, <2>5, <2>8, <3>2 DEF Continues
  <2>9. QED
    BY <2>3, <2>6, <2>7, <2>8
<1>6. QED
  BY <1>2, <1>3, <1>4, <1>5

\* The sources of the main loop but the one that frees the request.
LEMMA SourceContinues ==
  ASSUME PlayerInv, NEW r \in live, SynchronizeDone(r) \/ MaxTimeout(r)
  PROVE  Continues(req[r], req'[r])
<1>1. /\ req \in [Requests -> Request] /\ req[r] \in Request /\ r \in Requests
      /\ Sound(req[r])
  BY DEF PlayerInv, TypeOK
<1>2. CASE MaxTimeout(r)
  BY <1>1, <1>2, SourcesContinue DEF MaxTimeout
<1>3. CASE SynchronizeDone(r)
  <2> DEFINE q0 == SetupMaxTimeout([req[r] EXCEPT !.play = FALSE])
  <2>1. ~req[r].stop /\ q0.prepared \in SUBSET Sinks
    BY <1>1, <1>3 DEF SynchronizeDone, Sound, DoneFirst, SetupMaxTimeout, Request
  <2>2. PICK P \in SUBSET q0.prepared :
          \/ req' = [req EXCEPT ![r] = [StartSinks(q0, P) EXCEPT !.prepared = {}]]
          \/ req' = [req EXCEPT ![r] = FailSink(StartSinks(q0, P))]
          \/ UNCHANGED req
    BY <1>3 DEF SynchronizeDone
  <2>3. P \in SUBSET Sinks
    BY <2>1
  <2>4. /\ Continues(req[r], [StartSinks(q0, P) EXCEPT !.prepared = {}])
        /\ Continues(req[r], FailSink(StartSinks(q0, P)))
        /\ Continues(req[r], req[r])
    BY <1>1, <2>1, <2>3, StartContinues DEF Continues
  <2> HIDE DEF q0
  <2>5. QED
    BY <1>1, <2>2, <2>4
<1>4. QED
  BY <1>2, <1>3

\* A step continues a request, or is the one that frees or retries it.
LEMMA StepContinues ==
  ASSUME PlayerInv, [Next]_vars, NEW r \in live
  PROVE  Continues(req[r], req'[r]) \/ RequestDone(r)
<1>1. /\ req \in [Requests -> Request] /\ req[r] \in Request /\ r \in Requests
      /\ requests \subseteq live
  BY DEF PlayerInv, TypeOK
<1>2. CASE UNCHANGED vars
  BY <1>2 DEF vars, Continues
<1>3. CASE StopAll
  BY <1>1, <1>3, SourcesContinue DEF StopAll, Continues
<1>4. CASE CallActive
  BY <1>1, <1>4, CallChangesLittle DEF SameBut, Continues
<1>5. ASSUME NEW i \in Requests, Step(i)
      PROVE  Continues(req[r], req'[r]) \/ RequestDone(r)
  <2>1. CASE i # r
    BY <1>1, <1>5, <2>1, OthersSame DEF Continues
  <2>2. CASE i = r
    BY <1>5, <2>2, ClientContinues, SinkContinues, SourceContinues
       DEF Step, Submit
  <2>3. QED
    BY <2>1, <2>2
<1>6. QED
  BY <1>2, <1>3, <1>4, <1>5 DEF Next

\* What the step that frees a request does to one that did not fail.
LEMMA DoneUnfailed ==
  ASSUME PlayerInv, NEW r \in live, RequestDone(r), ~req[r].failed
  PROVE  ~req'[r].failed /\ reply'[r] = "completed"
<1>1. /\ req \in [Requests -> Request] /\ r \in Requests
      /\ reply \in [Requests -> Statuses]
  BY DEF PlayerInv, TypeOK
<1>2. Finish(r, "completed")
  BY DEF RequestDone
<1>3. QED
  BY <1>1, <1>2 DEF Finish, Freed, Blank

-----------------------------------------------------------------------------
(* The statuses.                                                            *)

\* Only the last status says that a request has failed.
FailedIsLast == \A r \in Requests : closed[r] = 0 => reply[r] # "failed"

LEMMA ReplyStep ==
  ASSUME PlayerInv, FailedIsLast, NEW r \in Requests, Step(r), closed'[r] = 0
  PROVE  reply'[r] # "failed"
<1>1. /\ reply \in [Requests -> Statuses] /\ closed \in [Requests -> Nat]
      /\ closed[r] = 0 => reply[r] # "failed"
  BY DEF PlayerInv, TypeOK, FailedIsLast
<1>2. CASE Submit(r)
  BY <1>1, <1>2 DEF Submit, PlayRequest, PlayUnresolved, PlayNoSinks, PlaySinks
<1>3. CASE Pause(r) \/ Resume(r) \/ Replay(r) \/ Stop(r) \/ MaxTimeout(r)
           \/ SynchronizeDone(r)
  BY <1>1, <1>3 DEF Pause, Resume, Replay, Stop, MaxTimeout, SynchronizeDone
<1>4. CASE RequestDone(r)
  <2>1. closed[r] = 0
    BY <1>4 DEF RequestDone, PlayerInv
  <2>2. CASE \E status \in {"completed", "failed"} : Finish(r, status)
    BY <1>1, <2>1, <2>2 DEF Finish
  <2>3. CASE Retry(r)
    BY <1>1, <2>1, <2>3 DEF Retry, PlayRequest, PlayUnresolved, PlayNoSinks, PlaySinks
  <2>4. QED
    BY <1>4, <2>2, <2>3 DEF RequestDone
<1>5. CASE \E s \in Sinks : \/ SinkSynchronizes(r, s) \/ SinkCompletes(r, s)
                            \/ SinkFails(r, s) \/ SetResync(r, s)
                            \/ Resynchronize(r, s)
  BY <1>1, <1>5 DEF SinkSynchronizes, SinkCompletes, SinkFails, SetResync,
                    Resynchronize
<1>6. QED
  BY <1>2, <1>3, <1>4, <1>5 DEF Step

\* closed counts up.
LEMMA ClosedGrows ==
  ASSUME PlayerInv, NEW r \in Requests, Step(r)
  PROVE  \A i \in Requests : closed'[i] = 0 => closed[i] = 0
<1>1. closed \in [Requests -> Nat]
  BY DEF PlayerInv, TypeOK
<1>2. UNCHANGED closed \/ closed' = [closed EXCEPT ![r] = closed[r] + 1]
  BY DEF Step, Submit, Pause, Resume, Replay, Stop, MaxTimeout, SynchronizeDone,
         RequestDone, Finish, Retry, SinkSynchronizes, SinkCompletes, SinkFails,
         SetResync, Resynchronize
<1>3. QED
  BY <1>1, <1>2

LEMMA FailedIsLastStep ==
  ASSUME PlayerInv, FailedIsLast, [Next]_vars
  PROVE  FailedIsLast'
<1>1. CASE UNCHANGED vars
  BY <1>1 DEF vars, FailedIsLast
<1>2. CASE StopAll \/ CallActive
  BY <1>2 DEF StopAll, CallActive, FailedIsLast
<1>3. ASSUME NEW r \in Requests, Step(r)
      PROVE  FailedIsLast'
  <2>1. ASSUME NEW i \in Requests, closed'[i] = 0
        PROVE  reply'[i] # "failed"
    <3>1. CASE i = r
      BY <1>3, <2>1, <3>1, ReplyStep
    <3>2. CASE i # r
      BY <1>3, <2>1, <3>2, OthersSame, ClosedGrows DEF FailedIsLast
    <3>3. QED
      BY <3>1, <3>2
  <2>2. QED
    BY <2>1 DEF FailedIsLast
<1>4. QED
  BY <1>1, <1>2, <1>3 DEF Next

LEMMA FailedIsLastHolds == Spec => [](PlayerInv /\ FailedIsLast)
<1>1. Init => FailedIsLast
  BY DEF Init, FailedIsLast
<1>2. PlayerInv /\ FailedIsLast /\ [Next]_vars => FailedIsLast'
  BY FailedIsLastStep
<1>3. QED
  BY <1>1, <1>2, Invariance, PTL DEF Spec

-----------------------------------------------------------------------------
(* The theorems.                                                            *)

\* n_core_fail_sink for a request that ends without a failure changes nothing,
\* and nothing else makes a failure, a fallback or a failed status of it.
THEOREM LateFailuresAreIgnored == Spec => LateFailureIgnored
<1> DEFINE Kept == \A r \in live : req[r].stop /\ ~req[r].failed =>
                     ~req'[r].failed /\ reply'[r] # "failed"
<1>1. ASSUME PlayerInv, FailedIsLast, FailedIsLast', PlayerInv', [Next]_vars
      PROVE  Kept
  <2> SUFFICES ASSUME NEW r \in live, req[r].stop, ~req[r].failed
               PROVE  ~req'[r].failed /\ reply'[r] # "failed"
    OBVIOUS
  <2>1. CASE RequestDone(r)
    BY <1>1, <2>1, DoneUnfailed
  <2>2. CASE ~RequestDone(r)
    <3>1. Continues(req[r], req'[r])
      BY <1>1, <2>2, StepContinues
    <3>2. r \in Requests /\ closed[r] = 0 /\ reply[r] # "failed"
      BY <1>1 DEF PlayerInv, TypeOK, FailedIsLast
    <3>3. CASE UNCHANGED vars \/ StopAll \/ CallActive
      BY <3>1, <3>2, <3>3 DEF vars, StopAll, CallActive, Continues
    <3>4. ASSUME NEW i \in Requests, Step(i)
          PROVE  reply'[r] # "failed"
      <4>1. CASE i # r
        BY <1>1, <3>2, <3>4, <4>1, OthersSame
      <4>2. CASE i = r
        <5>1. UNCHANGED closed
          BY <2>2, <3>4, <4>2
             DEF Step, Submit, Pause, Resume, Replay, Stop, MaxTimeout,
                 SynchronizeDone, SinkSynchronizes, SinkCompletes, SinkFails,
                 SetResync, Resynchronize
        <5>2. QED
          BY <1>1, <3>2, <3>4, <4>2, <5>1, ReplyStep
      <4>3. QED
        BY <4>1, <4>2
    <3>5. QED
      BY <1>1, <3>1, <3>3, <3>4 DEF Next, Continues
  <2>3. QED
    BY <2>1, <2>2
<1>2. PlayerInv /\ FailedIsLast /\ [Next]_vars => [Kept]_vars
  <2>1. PlayerInv /\ FailedIsLast /\ [Next]_vars => PlayerInv' /\ FailedIsLast'
    BY NextInv, FailedIsLastStep
  <2>2. QED
    BY <1>1, <2>1
<1>3. QED
  BY <1>2, FailedIsLastHolds, PTL DEF Spec, LateFailureIgnored

\* max_timeout_id is cleared only by what begins to end the request.
THEOREM TimeoutsStayArmed == Spec => TimeoutStaysArmed
<1> DEFINE Kept == \A r \in live : req[r].max => req'[r].max \/ req'[r].stop
<1>1. ASSUME PlayerInv, [Next]_vars
      PROVE  Kept
  <2> SUFFICES ASSUME NEW r \in live, req[r].max
               PROVE  req'[r].max \/ req'[r].stop
    OBVIOUS
  <2>1. ~req[r].stop
    BY <1>1 DEF PlayerInv, TypeOK, Sound, DoneFirst
  <2>2. ~RequestDone(r)
    BY <2>1 DEF RequestDone
  <2>3. QED
    BY <1>1, <2>2, StepContinues DEF Continues
<1>2. PlayerInv /\ [Next]_vars => [Kept]_vars
  BY <1>1
<1>3. QED
  BY <1>2, Invariance, PTL DEF Spec, TimeoutStaysArmed

-----------------------------------------------------------------------------
(* Player implements RequestLifecycle: its initial states are initial there *)
(* and every step is one of the lifecycle or changes nothing of it.         *)

\* The refinement mapping of PlayerProperties, part by part.
Stage ==
  [r \in Requests |->
     IF closed[r] > 0 THEN "closed"
     ELSE IF r \notin live THEN "new"
     ELSE IF req[r].fallback THEN "fallback" ELSE "first"]
Ending == {r \in live : req[r].stop}
Failed == {r \in live : req[r].failed}
Up     == aborted = "no"

LEMMA UnchangedLifecycle ==
  ASSUME Stage' = Stage, requests' = requests, Ending' = Ending,
         Failed' = Failed, reply' = reply, Up' = Up
  PROVE  UNCHANGED Lifecycle!lifecycleVars
BY DEF Lifecycle!lifecycleVars, Stage, Ending, Failed, Up

LEMMA InitRefines == Init => Lifecycle!LifecycleInit
BY DEF Init, Lifecycle!LifecycleInit

\* What a step may do to one attempt: nothing that the lifecycle shows, begin
\* to end it, or fail it.
Moves(q, p) ==
  /\ p.fallback = q.fallback
  /\ \/ p.stop = q.stop /\ p.failed = q.failed
     \/ ~q.stop /\ p.stop /\ p.failed = q.failed
     \/ ~q.stop /\ p.stop /\ p.failed

\* Such a step is a step of the lifecycle.
LEMMA MovesRefine ==
  ASSUME PlayerInv, aborted = "no", NEW r \in live, NEW p \in Request,
         Moves(req[r], p), req' = [req EXCEPT ![r] = p],
         UNCHANGED <<live, requests, reply, closed, aborted>>
  PROVE  [Lifecycle!LifecycleNext]_(Lifecycle!lifecycleVars)
<1>1. /\ req \in [Requests -> Request] /\ r \in Requests /\ live \subseteq Requests
      /\ requests \subseteq live /\ (r \notin requests => req[r].stop)
  BY DEF PlayerInv, TypeOK
<1>2. \A i \in Requests : req'[i] = IF i = r THEN p ELSE req[i]
  BY <1>1
<1>3. Stage' = Stage /\ Up' = Up /\ Up
  BY <1>1, <1>2 DEF Stage, Up, Moves
<1>4. CASE p.stop = req[r].stop /\ p.failed = req[r].failed
  <2>1. Ending' = Ending /\ Failed' = Failed
    BY <1>1, <1>2, <1>4 DEF Ending, Failed
  <2>2. QED
    BY <1>3, <2>1, UnchangedLifecycle
<1>5. CASE ~req[r].stop /\ p.stop /\ p.failed = req[r].failed
  <2>1. Ending' = Ending \cup {r} /\ Failed' = Failed /\ {r} \subseteq requests
    BY <1>1, <1>2, <1>5 DEF Ending, Failed
  <2>2. Lifecycle!End({r})
    BY <1>3, <2>1 DEF Lifecycle!End, Stage, Ending, Failed, Up
  <2>3. QED
    BY <1>3, <2>1, <2>2 DEF Lifecycle!LifecycleNext, Up
<1>6. CASE ~req[r].stop /\ p.stop /\ p.failed
  <2>1. /\ Ending' = Ending \cup {r} /\ Failed' = Failed \cup {r}
        /\ r \in requests \ Ending
    BY <1>1, <1>2, <1>6 DEF Ending, Failed
  <2>2. Lifecycle!Fail(r)
    BY <1>3, <2>1 DEF Lifecycle!Fail, Stage, Ending, Failed, Up
  <2>3. QED
    BY <1>1, <1>3, <2>2 DEF Lifecycle!LifecycleNext, Up
<1>7. QED
  BY <1>4, <1>5, <1>6 DEF Moves

-----------------------------------------------------------------------------
(* The functions of core-player.c only move an attempt.                    *)

LEMMA SourcesMove ==
  ASSUME NEW q \in Request
  PROVE  /\ Moves(q, q)
         /\ Moves(q, SetupSynchronizeDone(q))
         /\ Moves(q, StopRequest(q))
         /\ Moves(q, FailSink(q))
         /\ Moves(q, StopRequest([q EXCEPT !.max = FALSE]))
         /\ \A s \in Sinks : Moves(q, CompleteSink(q, s))
BY DEF SetupSynchronizeDone, SetupDone, StopRequest, FailSink, RemovePlaying,
       CompleteSink, Moves, Request

LEMMA SynchronizeMoves ==
  ASSUME NEW q \in Request, NEW S \in SUBSET Sinks
  PROVE  /\ SynchronizeSinks(q, S).fallback = q.fallback
         /\ SynchronizeSinks(q, S).stop = q.stop
         /\ SynchronizeSinks(q, S).failed = q.failed
BY DEF SynchronizeSinks, SetupSynchronizeDone, Request

\* n_core_prepare_sinks leaves an attempt as it is or fails it.
Prepared(q, p) ==
  /\ p.fallback = q.fallback
  /\ \/ p.stop = q.stop /\ p.failed = q.failed
     \/ ~q.stop /\ p.stop /\ p.failed

LEMMA PrepareMoves ==
  ASSUME NEW q \in Request, NEW S, NEW reached \in SUBSET Sinks,
         NEW prompt \in SUBSET reached
  PROVE  Prepared(q, PrepareSinks(q, S, reached, prompt))
<1> DEFINE ready == reached \ NoPrepare
           p == [q EXCEPT !.stops = @ \cup ready,
                          !.data  = [s \in Sinks |-> IF s \in ready THEN "ready"
                                                     ELSE q.data[s]]]
           T == prompt \cup (reached \cap NoPrepare)
           e == SynchronizeSinks(p, T)
<1>1. p \in Request
  <2>1. [s \in Sinks |-> IF s \in ready THEN "ready" ELSE q.data[s]]
           \in [Sinks -> SinkData]
    BY DEF Request, SinkData
  <2>2. QED
    BY <2>1 DEF Request
<1>2. p.fallback = q.fallback /\ p.stop = q.stop /\ p.failed = q.failed
  BY DEF Request
<1>3. PrepareSinks(q, S, reached, prompt) = IF reached = S THEN e ELSE FailSink(e)
  BY DEF PrepareSinks
<1> HIDE DEF p
<1>4. /\ e \in Request /\ e.fallback = p.fallback
      /\ e.stop = p.stop /\ e.failed = p.failed
  BY <1>1, SynchronizeType, SynchronizeMoves
<1> HIDE DEF e
<1>5. QED
  BY <1>2, <1>3, <1>4 DEF FailSink, SetupDone, Prepared, Request

LEMMA StartMoves ==
  ASSUME NEW q \in Request, NEW P \in SUBSET Sinks
  PROVE  LET q0 == SetupMaxTimeout([q EXCEPT !.play = FALSE])
         IN  /\ Moves(q, [StartSinks(q0, P) EXCEPT !.prepared = {}])
             /\ Moves(q, FailSink(StartSinks(q0, P)))
BY DEF SetupMaxTimeout, StartSinks, FailSink, SetupDone, Moves, Request

-----------------------------------------------------------------------------
(* The calls of the sinks, and the sources that only move an attempt.      *)

LEMMA SinkRefines ==
  ASSUME PlayerInv, aborted = "no", NEW r \in Requests, NEW s \in Sinks,
         \/ SinkSynchronizes(r, s) \/ SinkCompletes(r, s) \/ SinkFails(r, s)
         \/ SetResync(r, s) \/ Resynchronize(r, s)
  PROVE  [Lifecycle!LifecycleNext]_(Lifecycle!lifecycleVars)
<1>1. /\ req \in [Requests -> Request] /\ req[r] \in Request /\ PlayerInv'
  BY NextInv DEF Next, Step, PlayerInv, TypeOK
<1>2. /\ r \in live /\ UNCHANGED <<live, requests, reply, closed>>
      /\ req' \in [Requests -> Request]
  BY <1>1 DEF SinkSynchronizes, SinkCompletes, SinkFails, SetResync,
              Resynchronize, PlayerInv, TypeOK
<1>3. ASSUME NEW p, req' = [req EXCEPT ![r] = p], Moves(req[r], p),
             UNCHANGED aborted
      PROVE  [Lifecycle!LifecycleNext]_(Lifecycle!lifecycleVars)
  <2>1. p \in Request
    BY <1>1, <1>2, <1>3
  <2>2. QED
    BY <1>2, <1>3, <2>1, MovesRefine
<1>4. CASE SinkSynchronizes(r, s)
  BY <1>1, <1>3, <1>4, SynchronizeMoves DEF SinkSynchronizes, Moves
<1>5. CASE SinkFails(r, s)
  BY <1>1, <1>3, <1>5, SourcesMove DEF SinkFails
<1>6. CASE SinkCompletes(r, s)
  <2> DEFINE e == [req[r] EXCEPT !.data = [req[r].data EXCEPT ![s] = "ended"]]
  <2>1. e \in Request
    <3>1. [req[r].data EXCEPT ![s] = "ended"] \in [Sinks -> SinkData]
      BY <1>1 DEF Request, SinkData
    <3>2. QED
      BY <1>1, <3>1 DEF Request
  <2>2. /\ e.fallback = req[r].fallback /\ e.stop = req[r].stop
        /\ e.failed = req[r].failed
    BY <1>1 DEF Request
  <2>3. req' = [req EXCEPT ![r] = CompleteSink(e, s)] /\ UNCHANGED aborted
    BY <1>1, <1>6 DEF SinkCompletes
  <2> HIDE DEF e
  <2>4. Moves(e, CompleteSink(e, s))
    BY <2>1, SourcesMove
  <2>5. QED
    BY <1>3, <2>2, <2>3, <2>4 DEF Moves
<1>7. CASE SetResync(r, s)
  <2> DEFINE p == [req[r] EXCEPT !.resync = @ \cup {s}]
  <2>1. Moves(req[r], p)
    BY <1>1 DEF Moves, Request
  <2>2. QED
    BY <1>3, <1>7, <2>1 DEF SetResync
<1>8. CASE Resynchronize(r, s)
  <2> DEFINE q == req[r]
             p == [RemovePlaying(q, s) EXCEPT !.prepared = @ \cup {s}]
             e == [StopSinks(p, q.resync) EXCEPT !.resync = {}, !.preparing = q.resync]
  <2>1. p \in Request /\ q.resync \in SUBSET Sinks
    <3>1. RemovePlaying(q, s) \in Request
      BY <1>1, CompleteType
    <3>2. QED
      BY <1>1, <3>1 DEF Request
  <2>2. p.fallback = q.fallback /\ p.stop = q.stop /\ p.failed = q.failed
    BY <1>1 DEF RemovePlaying, Request
  <2>3. \/ UNCHANGED req /\ aborted' = "resync"
        \/ req' = [req EXCEPT ![r] = SetupSynchronizeDone(p)] /\ UNCHANGED aborted
        \/ /\ \E reached \in AnyReach(q.resync) : \E prompt \in SUBSET reached :
                req' = [req EXCEPT ![r] = PrepareSinks(e, q.resync, reached, prompt)]
           /\ UNCHANGED aborted
    BY <1>8 DEF Resynchronize
  <2> HIDE DEF p
  <2>4. e \in Request
    <3>1. StopSinks(p, q.resync) \in Request
      BY <2>1, SinkTypes
    <3>2. QED
      BY <2>1, <3>1 DEF Request
  <2>5. e.fallback = q.fallback /\ e.stop = q.stop /\ e.failed = q.failed
    BY <2>1, <2>2 DEF StopSinks, Request
  <2> HIDE DEF e
  <2>6. ~(UNCHANGED req /\ aborted' = "resync")
    BY <1>1 DEF PlayerInv
  <2>7. CASE req' = [req EXCEPT ![r] = SetupSynchronizeDone(p)] /\ UNCHANGED aborted
    <3>1. Moves(p, SetupSynchronizeDone(p))
      BY <2>1, SourcesMove
    <3>2. Moves(q, SetupSynchronizeDone(p))
      BY <2>2, <3>1 DEF Moves
    <3>3. QED
      BY <1>3, <2>7, <3>2
  <2>8. ASSUME NEW reached \in AnyReach(q.resync), NEW prompt \in SUBSET reached,
               req' = [req EXCEPT ![r] = PrepareSinks(e, q.resync, reached, prompt)],
               UNCHANGED aborted
        PROVE  [Lifecycle!LifecycleNext]_(Lifecycle!lifecycleVars)
    <3>1. reached \in SUBSET Sinks
      BY <2>1 DEF AnyReach
    <3>2. Prepared(e, PrepareSinks(e, q.resync, reached, prompt))
      BY <2>4, <3>1, PrepareMoves
    <3>3. Moves(q, PrepareSinks(e, q.resync, reached, prompt))
      BY <2>5, <3>2 DEF Moves, Prepared
    <3>4. QED
      BY <1>3, <2>8, <3>3
  <2>9. QED
    BY <2>3, <2>6, <2>7, <2>8
<1>9. QED
  BY <1>4, <1>5, <1>6, <1>7, <1>8

\* A step that touches neither the course of a request nor a list: it may
\* report a status of a listed request, or kill the daemon.
LEMMA QuietRefines ==
  ASSUME PlayerInv, aborted = "no", NEW r \in requests,
         UNCHANGED <<live, requests, closed>>,
         req' \in [Requests -> Request],
         \A i \in Requests : /\ req'[i].fallback = req[i].fallback
                             /\ req'[i].stop = req[i].stop
                             /\ req'[i].failed = req[i].failed,
         \/ UNCHANGED <<reply, aborted>>
         \/ UNCHANGED reply /\ aborted' # "no"
         \/ UNCHANGED aborted /\ \E status \in {"playing", "paused"} :
                                   reply' = [reply EXCEPT ![r] = status]
  PROVE  [Lifecycle!LifecycleNext]_(Lifecycle!lifecycleVars)
<1>1. r \in Requests /\ live \subseteq Requests /\ Up
  BY DEF PlayerInv, TypeOK, Up
<1>2. Stage' = Stage /\ Ending' = Ending /\ Failed' = Failed
  BY <1>1 DEF Stage, Ending, Failed
<1>3. CASE UNCHANGED <<reply, aborted>>
  BY <1>2, <1>3, UnchangedLifecycle DEF Up
<1>4. CASE UNCHANGED reply /\ aborted' # "no"
  <2>1. Lifecycle!Crash
    BY <1>2, <1>4 DEF Lifecycle!Crash, Stage, Ending, Failed
  <2>2. QED
    BY <1>1, <2>1 DEF Lifecycle!LifecycleNext, Up
<1>5. ASSUME NEW status \in {"playing", "paused"}, UNCHANGED aborted,
             reply' = [reply EXCEPT ![r] = status]
      PROVE  [Lifecycle!LifecycleNext]_(Lifecycle!lifecycleVars)
  <2>1. Lifecycle!Report(r, status)
    BY <1>2, <1>5 DEF Lifecycle!Report, Stage, Ending, Failed
  <2>2. QED
    BY <1>1, <1>5, <2>1 DEF Lifecycle!LifecycleNext, Up
<1>6. QED
  BY <1>3, <1>4, <1>5

\* n_core_sink_synchronize_done_cb and n_core_max_timeout_reached_cb.
LEMMA SourceRefines ==
  ASSUME PlayerInv, aborted = "no", NEW r \in Requests,
         SynchronizeDone(r) \/ MaxTimeout(r)
  PROVE  [Lifecycle!LifecycleNext]_(Lifecycle!lifecycleVars)
<1>1. /\ req \in [Requests -> Request] /\ req[r] \in Request /\ PlayerInv'
  BY NextInv DEF Next, Step, PlayerInv, TypeOK
<1>2. /\ r \in live /\ UNCHANGED <<live, requests, reply, closed>>
      /\ req' \in [Requests -> Request]
  BY <1>1 DEF SynchronizeDone, MaxTimeout, PlayerInv, TypeOK
<1>3. ASSUME NEW p, req' = [req EXCEPT ![r] = p], Moves(req[r], p), UNCHANGED aborted
      PROVE  [Lifecycle!LifecycleNext]_(Lifecycle!lifecycleVars)
  <2>1. p \in Request
    BY <1>1, <1>2, <1>3
  <2>2. QED
    BY <1>2, <1>3, <2>1, MovesRefine
<1>4. CASE MaxTimeout(r)
  BY <1>1, <1>3, <1>4, SourcesMove DEF MaxTimeout
<1>5. CASE SynchronizeDone(r)
  <2> DEFINE q0 == SetupMaxTimeout([req[r] EXCEPT !.play = FALSE])
  <2>1. q0.prepared \in SUBSET Sinks
    BY <1>1 DEF SetupMaxTimeout, Request
  <2>2. PICK P \in SUBSET q0.prepared :
          \/ /\ \/ req' = [req EXCEPT ![r] = [StartSinks(q0, P) EXCEPT !.prepared = {}]]
                \/ req' = [req EXCEPT ![r] = FailSink(StartSinks(q0, P))]
             /\ UNCHANGED aborted
          \/ UNCHANGED req /\ aborted' = "nodata"
    BY <1>5 DEF SynchronizeDone
  <2>3. P \in SUBSET Sinks
    BY <2>1
  <2>4. /\ Moves(req[r], [StartSinks(q0, P) EXCEPT !.prepared = {}])
        /\ Moves(req[r], FailSink(StartSinks(q0, P)))
    BY <1>1, <2>3, StartMoves
  <2>5. r \in requests
    BY <1>1, <1>2, <1>5 DEF SynchronizeDone, PlayerInv, Sound, DoneFirst
  <2> HIDE DEF q0
  <2>6. CASE UNCHANGED req /\ aborted' = "nodata"
    BY <1>1, <1>2, <2>5, <2>6, QuietRefines
  <2>7. QED
    BY <1>3, <2>2, <2>4, <2>6
<1>6. QED
  BY <1>4, <1>5

-----------------------------------------------------------------------------
(* The calls of a client.                                                  *)

LEMMA ClientRefines ==
  ASSUME PlayerInv, aborted = "no", NEW r \in Requests,
         Pause(r) \/ Resume(r) \/ Replay(r)
  PROVE  [Lifecycle!LifecycleNext]_(Lifecycle!lifecycleVars)
<1>1. req \in [Requests -> Request] /\ req' \in [Requests -> Request]
  BY NextInv DEF Next, Step, PlayerInv, TypeOK
<1>2. UNCHANGED <<live, requests, closed>> /\ r \in requests
  BY DEF Pause, Resume, Replay
<1>3. \A i \in Requests : /\ req'[i].fallback = req[i].fallback
                          /\ req'[i].stop = req[i].stop
                          /\ req'[i].failed = req[i].failed
  BY <1>1 DEF Pause, Resume, Replay, Request
<1>4. \/ UNCHANGED <<reply, aborted>>
      \/ UNCHANGED reply /\ aborted' # "no"
      \/ UNCHANGED aborted /\ \E status \in {"playing", "paused"} :
                                reply' = [reply EXCEPT ![r] = status]
  BY DEF Pause, Resume, Replay
<1>5. QED
  BY <1>1, <1>2, <1>3, <1>4, QuietRefines

LEMMA StopRefines ==
  ASSUME PlayerInv, aborted = "no", NEW r \in Requests, Stop(r)
  PROVE  [Lifecycle!LifecycleNext]_(Lifecycle!lifecycleVars)
<1>1. req \in [Requests -> Request] /\ req[r] \in Request /\ r \in live
  BY DEF Stop, PlayerInv, TypeOK
<1>2. /\ StopRequest(req[r]) \in Request /\ Moves(req[r], StopRequest(req[r]))
  BY <1>1, SourceTypes, SourcesMove
<1>3. QED
  BY <1>1, <1>2, MovesRefine DEF Stop

\* Every listed request begins to end at once.
LEMMA StopAllRefines ==
  ASSUME PlayerInv, aborted = "no", StopAll
  PROVE  [Lifecycle!LifecycleNext]_(Lifecycle!lifecycleVars)
<1>1. /\ req \in [Requests -> Request] /\ live \subseteq Requests
      /\ requests \subseteq live
  BY DEF PlayerInv, TypeOK
<1>2. \A i \in Requests : req'[i] = IF i \in requests THEN StopRequest(req[i])
                                                      ELSE req[i]
  BY DEF StopAll
<1>3. \A q \in Request : /\ StopRequest(q).fallback = q.fallback
                         /\ StopRequest(q).failed = q.failed
                         /\ StopRequest(q).stop
  BY DEF StopRequest, SetupDone, Request
<1>4. Stage' = Stage /\ Failed' = Failed /\ Ending' = Ending \cup requests
  BY <1>1, <1>2, <1>3 DEF StopAll, Stage, Failed, Ending
<1>5. Lifecycle!End(requests)
  BY <1>4 DEF StopAll, Lifecycle!End, Stage, Ending, Failed, Up
<1>6. requests \in SUBSET requests
  OBVIOUS
<1>7. \E R \in SUBSET requests : Lifecycle!End(R)
  BY <1>5, <1>6 DEF Lifecycle!End
<1>8. QED
  BY <1>7 DEF Lifecycle!LifecycleNext

-----------------------------------------------------------------------------
(* An attempt begins, and ends.                                            *)

\* n_core_play_request begins an attempt of the lifecycle.
LEMMA PlayRefines ==
  ASSUME PlayerInv, NEW r \in Requests, NEW q \in Request,
         ~q.stop, ~q.failed, PlayRequest(r, q),
         live' = live \cup {r}
  PROVE  /\ Lifecycle!Attempt(r)
         /\ req'[r].fallback = q.fallback
         /\ \A i \in Requests \ {r} : req'[i] = req[i]
<1>1. /\ req \in [Requests -> Request] /\ live \subseteq Requests
      /\ requests \subseteq live
  BY DEF PlayerInv, TypeOK
<1>2. ASSUME NEW p, req' = [req EXCEPT ![r] = p], Prepared(q, p)
      PROVE  /\ req'[r].fallback = q.fallback
             /\ \A i \in Requests \ {r} : req'[i] = req[i]
             /\ \/ /\ Ending' = Ending \cup {r} /\ Failed' = Failed \cup {r}
                   /\ p.stop
                \/ Ending' = Ending \ {r} /\ Failed' = Failed \ {r} /\ ~p.stop
  <2>1. \A i \in Requests : req'[i] = IF i = r THEN p ELSE req[i]
    BY <1>1, <1>2
  <2>2. (p.stop /\ p.failed) \/ (~p.stop /\ ~p.failed)
    BY <1>2 DEF Prepared
  <2>3. CASE p.stop /\ p.failed
    BY <1>1, <1>2, <2>1, <2>3 DEF Ending, Failed, Prepared
  <2>4. CASE ~p.stop /\ ~p.failed
    BY <1>1, <1>2, <2>1, <2>4 DEF Ending, Failed, Prepared
  <2>5. QED
    BY <2>2, <2>3, <2>4
<1>3. CASE PlayUnresolved(r, q) \/ PlayNoSinks(r, q)
  <2>1. PICK p \in {SetupDone([q EXCEPT !.noEvent = TRUE, !.failed = TRUE]),
                    SetupDone([q EXCEPT !.failed = TRUE])} :
          req' = [req EXCEPT ![r] = p]
    BY <1>3 DEF PlayUnresolved, PlayNoSinks
  <2>2. Prepared(q, p) /\ p.stop
    BY <2>1 DEF SetupDone, Prepared, Request
  <2>3. requests' = requests \ {r} /\ UNCHANGED reply
    BY <1>3 DEF PlayUnresolved, PlayNoSinks
  <2>4. Lifecycle!Attempt(r)
    BY <1>2, <2>1, <2>2, <2>3 DEF Lifecycle!Attempt, Ending, Failed
  <2>5. QED
    BY <1>2, <2>1, <2>2, <2>4
<1>4. CASE PlaySinks(r, q)
  <2>1. PICK S \in (SUBSET Sinks) \ {{}}, timed \in BOOLEAN :
          \E reached \in SortedReach(S) : \E prompt \in SUBSET reached :
            /\ req' = [req EXCEPT ![r] =
                         PrepareSinks([q EXCEPT !.all = S, !.preparing = S,
                                                !.timed = timed],
                                      S, reached, prompt)]
            /\ requests' = requests \cup {r}
            /\ reply' = [reply EXCEPT ![r] = "playing"]
    BY <1>4 DEF PlaySinks
  <2> DEFINE e == [q EXCEPT !.all = S, !.preparing = S, !.timed = timed]
  <2>2. /\ e \in Request /\ e.fallback = q.fallback
        /\ e.stop = q.stop /\ e.failed = q.failed
    BY <2>1 DEF Request
  <2> HIDE DEF e
  <2>3. PICK reached \in SortedReach(S) : \E prompt \in SUBSET reached :
          req' = [req EXCEPT ![r] = PrepareSinks(e, S, reached, prompt)]
    BY <2>1 DEF e
  <2> PICK prompt \in SUBSET reached :
          req' = [req EXCEPT ![r] = PrepareSinks(e, S, reached, prompt)]
    BY <2>3
  <2>4. reached \in SUBSET Sinks
    BY DEF SortedReach
  <2> DEFINE p == PrepareSinks(e, S, reached, prompt)
  <2>5. Prepared(e, p)
    BY <2>2, <2>4, PrepareMoves
  <2> HIDE DEF p
  <2>6. Prepared(q, p) /\ req' = [req EXCEPT ![r] = p]
    BY <2>2, <2>3, <2>5 DEF Prepared, p
  <2>7. /\ requests' = requests \cup {r}
        /\ reply' = [reply EXCEPT ![r] = "playing"]
    BY <2>1
  <2>8. Lifecycle!Attempt(r)
    BY <1>2, <2>6, <2>7 DEF Lifecycle!Attempt, Ending, Failed
  <2>9. QED
    BY <1>2, <2>6, <2>8
<1>5. QED
  BY <1>3, <1>4 DEF PlayRequest

LEMMA SubmitRefines ==
  ASSUME PlayerInv, aborted = "no", NEW r \in Requests, Submit(r)
  PROVE  [Lifecycle!LifecycleNext]_(Lifecycle!lifecycleVars)
<1>1. /\ r \notin live /\ closed[r] = 0 /\ live' = live \cup {r}
      /\ PlayRequest(r, Blank) /\ UNCHANGED <<closed, aborted>>
  BY DEF Submit
<1>2. Blank \in Request /\ ~Blank.stop /\ ~Blank.failed /\ ~Blank.fallback
  BY BlankType DEF Blank
<1>3. /\ Lifecycle!Attempt(r) /\ ~req'[r].fallback
      /\ \A i \in Requests \ {r} : req'[i] = req[i]
  BY <1>1, <1>2, PlayRefines
<1>4. Stage[r] = "new" /\ Stage' = [Stage EXCEPT ![r] = "first"]
  <2>1. Stage[r] = "new" /\ Stage'[r] = "first"
    BY <1>1, <1>3 DEF Stage
  <2>2. \A i \in Requests \ {r} : Stage'[i] = Stage[i]
    BY <1>1, <1>3 DEF Stage
  <2>3. QED
    BY <2>1, <2>2 DEF Stage
<1>5. Lifecycle!Accept(r)
  BY <1>1, <1>3, <1>4 DEF Lifecycle!Accept, Stage, Up
<1>6. \E i \in Requests : Lifecycle!Accept(i)
  BY <1>5 DEF Lifecycle!Accept, Lifecycle!Attempt
<1>7. QED
  BY <1>6 DEF Lifecycle!LifecycleNext

\* n_core_request_done_cb closes a request, or retries it once, after a failure.
LEMMA DoneRefines ==
  ASSUME PlayerInv, aborted = "no", NEW r \in Requests, RequestDone(r)
  PROVE  [Lifecycle!LifecycleNext]_(Lifecycle!lifecycleVars)
<1>1. /\ req \in [Requests -> Request] /\ req[r] \in Request /\ Sound(req[r])
      /\ closed \in [Requests -> Nat] /\ reply \in [Requests -> Statuses]
      /\ r \in live /\ closed[r] = 0 /\ req[r].stop /\ UNCHANGED aborted
      /\ requests \subseteq live /\ live \subseteq Requests
  BY DEF RequestDone, PlayerInv, TypeOK
<1>2. Up /\ Up' /\ r \in Ending /\ (r \in Failed <=> req[r].failed)
  BY <1>1 DEF Up, Ending, Failed
<1>3. Stage[r] = IF req[r].fallback THEN "fallback" ELSE "first"
  BY <1>1 DEF Stage
<1>4. ASSUME NEW status,
             status = IF req[r].failed THEN "failed" ELSE "completed",
             Finish(r, status)
      PROVE  [Lifecycle!LifecycleNext]_(Lifecycle!lifecycleVars)
  <2>1. \A i \in Requests \ {r} : req'[i] = req[i] /\ closed'[i] = closed[i]
    BY <1>1, <1>4 DEF Finish
  <2>2. closed'[r] > 0 /\ live' = live \ {r}
    BY <1>1, <1>4 DEF Finish
  <2>3. Stage' = [Stage EXCEPT ![r] = "closed"]
    BY <1>1, <2>1, <2>2 DEF Stage
  <2>4. Ending' = Ending \ {r} /\ Failed' = Failed \ {r}
    BY <1>1, <2>1, <2>2 DEF Ending, Failed
  <2>5. /\ requests' = requests \ {r}
        /\ reply' = [reply EXCEPT ![r] = IF r \in Failed THEN "failed"
                                                         ELSE "completed"]
    BY <1>2, <1>4 DEF Finish
  <2>6. Lifecycle!Open(r)
    BY <1>3 DEF Lifecycle!Open, Stage
  <2>7. Lifecycle!Close(r)
    BY <1>2, <2>3, <2>4, <2>5, <2>6
       DEF Lifecycle!Close, Stage, Ending, Failed, Up
  <2>8. \E i \in Requests : Lifecycle!Close(i)
    BY <2>7 DEF Lifecycle!Close
  <2>9. QED
    BY <2>8 DEF Lifecycle!LifecycleNext
<1>5. ASSUME req[r].failed, ~req[r].fallback, Retry(r)
      PROVE  [Lifecycle!LifecycleNext]_(Lifecycle!lifecycleVars)
  <2> DEFINE e == [Freed(req[r]) EXCEPT !.fallback = TRUE]
  <2>1. Freed(req[r]) \in Request /\ ~Freed(req[r]).stop /\ ~Freed(req[r]).failed
    BY <1>1, FreedSound DEF Freed, Blank, Idle
  <2>2. e \in Request /\ ~e.stop /\ ~e.failed /\ e.fallback
    BY <2>1 DEF Request
  <2>3. PlayRequest(r, e) /\ UNCHANGED <<live, closed>>
    BY <1>5 DEF Retry
  <2> HIDE DEF e
  <2>4. live' = live \cup {r}
    BY <1>1, <2>3
  <2>5. /\ Lifecycle!Attempt(r) /\ req'[r].fallback
        /\ \A i \in Requests \ {r} : req'[i] = req[i]
    BY <2>2, <2>3, <2>4, PlayRefines
  <2>6. Stage' = [Stage EXCEPT ![r] = "fallback"]
    <3>1. Stage'[r] = "fallback"
      BY <1>1, <2>3, <2>5 DEF Stage
    <3>2. \A i \in Requests \ {r} : Stage'[i] = Stage[i]
      BY <1>1, <2>3, <2>5 DEF Stage
    <3>3. QED
      BY <3>1, <3>2 DEF Stage
  <2>7. Lifecycle!Retry(r)
    BY <1>2, <1>3, <1>5, <2>5, <2>6
       DEF Lifecycle!Retry, Stage, Ending, Failed, Up
  <2>8. \E i \in Requests : Lifecycle!Retry(i)
    BY <2>7 DEF Lifecycle!Retry, Lifecycle!Attempt
  <2>9. QED
    BY <2>8 DEF Lifecycle!LifecycleNext
<1>6. QED
  BY <1>4, <1>5 DEF RequestDone

-----------------------------------------------------------------------------
\* Every step of the player is a step of the lifecycle or none of it.
LEMMA StepRefines ==
  PlayerInv /\ [Next]_vars =>
    [Lifecycle!LifecycleNext]_(Lifecycle!lifecycleVars)
<1> SUFFICES ASSUME PlayerInv, [Next]_vars
             PROVE  [Lifecycle!LifecycleNext]_(Lifecycle!lifecycleVars)
  OBVIOUS
<1>1. CASE UNCHANGED vars
  <2>1. /\ Stage' = Stage /\ requests' = requests /\ Ending' = Ending
        /\ Failed' = Failed /\ reply' = reply /\ Up' = Up
    BY <1>1 DEF vars, Stage, Ending, Failed, Up
  <2>2. QED
    BY <2>1, UnchangedLifecycle
<1>2. CASE CallActive
  <2>1. /\ Stage' = Stage /\ requests' = requests /\ Ending' = Ending
        /\ Failed' = Failed /\ reply' = reply /\ Up' = Up
    BY <1>2, CallChangesLittle DEF SameBut, Stage, Ending, Failed, Up, PlayerInv, TypeOK
  <2>2. QED
    BY <2>1, UnchangedLifecycle
<1>3. CASE Next
  BY <1>2, <1>3, StopAllRefines, SubmitRefines, ClientRefines, StopRefines,
     SinkRefines, SourceRefines, DoneRefines DEF Next, Step
<1>4. QED
  BY <1>1, <1>3

\* The safety part of ImplementsLifecycle: whatever its sinks do, the player
\* tells a client of a request that it plays, that it is paused, and once how
\* it ended, fails over once at most and never takes an ending back.
THEOREM ImplementsLifecycleSteps ==
  Spec => /\ Lifecycle!LifecycleInit
          /\ [][Lifecycle!LifecycleNext]_(Lifecycle!lifecycleVars)
BY InitRefines, StepRefines, Invariance, PTL DEF Spec

-----------------------------------------------------------------------------
(* Without resynchronization no request is forgotten.                       *)

\* A request that is not ending waits for its play source, for a sink that
\* prepares, or for sinks that play, and not for two of these; what it waits for
\* is on the stop list, and the sinks that are noted as playing do play.
Attended(q) ==
  ~q.stop =>
    /\ (q.preparing \cup q.prepared) \cap Keepers \subseteq q.stops
    /\ \A s \in Sinks : q.playing[s] <= 1 /\ (q.playing[s] > 0 => q.data[s] = "active")
    /\ q.play \/ q.preparing # {} \/ q.prepared # {} => q.playing = NobodyPlays
    /\ q.play \/ q.preparing # {} \/ q.playing # NobodyPlays

LEMMA SynchronizeAttended ==
  ASSUME NEW q \in Request, Attended(q), NEW S \in SUBSET Sinks
  PROVE  Attended(SynchronizeSinks(q, S))
<1> DEFINE p == [q EXCEPT !.preparing = @ \ S,
                          !.prepared  = @ \cup (S \cap q.preparing)]
<1>1. CASE q.stop \/ q.play \/ S \cap q.preparing = {}
  BY <1>1 DEF SynchronizeSinks
<1>2. CASE ~q.stop /\ ~q.play /\ S \cap q.preparing # {}
  <2>1. /\ p \in Request /\ ~p.stop /\ ~p.play /\ p.playing = q.playing /\ p.data = q.data
        /\ p.stops = q.stops /\ p.preparing \cup p.prepared \subseteq q.preparing \cup q.prepared
    BY <1>2 DEF Request
  <2>2. q.playing = NobodyPlays
    BY <1>2 DEF Attended
  <2>3. SynchronizeSinks(q, S) = IF p.preparing = {} THEN [p EXCEPT !.play = TRUE] ELSE p
    BY <1>2, <2>1 DEF SynchronizeSinks, SetupSynchronizeDone
  <2> HIDE DEF p
  <2>4. CASE p.preparing = {}
    <3>1. /\ [p EXCEPT !.play = TRUE].play /\ [p EXCEPT !.play = TRUE].playing = p.playing
          /\ [p EXCEPT !.play = TRUE].preparing = p.preparing
          /\ [p EXCEPT !.play = TRUE].prepared = p.prepared
          /\ [p EXCEPT !.play = TRUE].data = p.data /\ [p EXCEPT !.play = TRUE].stops = p.stops
      BY <2>1 DEF Request
    <3>2. QED
      BY <1>2, <2>1, <2>2, <2>3, <2>4, <3>1 DEF Attended
  <2>5. CASE p.preparing # {}
    BY <1>2, <2>1, <2>2, <2>3, <2>5 DEF Attended
  <2>6. QED
    BY <2>4, <2>5
<1>3. QED
  BY <1>1, <1>2

LEMMA CompleteAttended ==
  ASSUME NEW q \in Request, Attended(q), NEW s \in Sinks
  PROVE  Attended(CompleteSink([q EXCEPT !.data[s] = "ended"], s))
<1> DEFINE e == [q EXCEPT !.data[s] = "ended"]
           p == RemovePlaying(e, s)
<1>1. e \in Request /\ \A t \in Sinks \ {s} : e.data[t] = q.data[t]
  <2>1. [q.data EXCEPT ![s] = "ended"] \in [Sinks -> SinkData]
    BY DEF Request, SinkData
  <2>2. QED
    BY <2>1 DEF Request
<1>2. /\ e.stop = q.stop /\ e.play = q.play /\ e.playing = q.playing
      /\ e.stops = q.stops /\ e.preparing = q.preparing /\ e.prepared = q.prepared
  BY DEF Request
<1> SUFFICES Attended(CompleteSink(e, s))
  OBVIOUS
<1> HIDE DEF e
<1>3. /\ p \in Request /\ p.stop = e.stop /\ p.play = e.play /\ p.stops = e.stops
      /\ p.preparing = e.preparing /\ p.prepared = e.prepared /\ p.data = e.data
      /\ p.playing = [e.playing EXCEPT ![s] = IF e.playing[s] = 0 THEN 0 ELSE e.playing[s] - 1]
  BY <1>1, CompleteType DEF RemovePlaying, Request
<1>4. CompleteSink(e, s) = IF e.playing = NobodyPlays THEN e
                           ELSE IF p.playing = NobodyPlays THEN SetupDone(p) ELSE p
  BY DEF CompleteSink
<1> HIDE DEF p
<1>5. CASE q.stop
  <2>1. e.stop /\ p.stop /\ SetupDone(p).stop
    BY <1>2, <1>3, <1>5 DEF SetupDone, Request
  <2>2. CompleteSink(e, s).stop
    BY <1>4, <2>1
  <2>3. QED
    BY <2>2 DEF Attended
<1>6. CASE ~q.stop /\ e.playing = NobodyPlays
  <2>1. \A t \in Sinks : e.playing[t] = 0
    BY <1>6 DEF NobodyPlays
  <2>2. QED
    BY <1>2, <1>4, <1>6, <2>1 DEF Attended
<1>7. CASE ~q.stop /\ e.playing # NobodyPlays
  <2>1. CASE p.playing = NobodyPlays
    <3>1. SetupDone(p).stop
      BY <1>3 DEF SetupDone, Request
    <3>2. QED
      BY <1>4, <1>7, <2>1, <3>1 DEF Attended
  <2>2. CASE p.playing # NobodyPlays
    <3>1. \A t \in Sinks : q.playing[t] \in Nat /\ q.playing[t] <= 1
      BY <1>7 DEF Attended, Request
    <3>2. \A t \in Sinks : p.playing[t] = IF t = s THEN 0 ELSE q.playing[t]
      <4>1. e.playing \in [Sinks -> Nat]
        BY <1>1 DEF Request
      <4>2. q.playing[s] = 0 \/ q.playing[s] - 1 = 0
        BY <3>1
      <4>3. QED
        BY <1>2, <1>3, <4>1, <4>2
    <3>3. ~p.stop /\ ~p.play /\ p.preparing = {} /\ p.prepared = {}
      BY <1>2, <1>3, <1>7 DEF Attended
    <3>4. \A t \in Sinks : p.playing[t] <= 1 /\ (p.playing[t] > 0 => p.data[t] = "active")
      BY <1>1, <1>3, <1>7, <3>1, <3>2 DEF Attended
    <3>5. QED
      BY <1>4, <1>7, <2>2, <3>3, <3>4 DEF Attended
  <2>3. QED
    BY <2>1, <2>2
<1>8. QED
  BY <1>5, <1>6, <1>7

LEMMA PrepareAttended ==
  ASSUME NEW q \in Request, NEW S, q.preparing = S, S # {}, q.prepared = {}, ~q.play,
         q.playing = NobodyPlays, NEW reached \in SUBSET S, NEW prompt \in SUBSET reached
  PROVE  Attended(PrepareSinks(q, S, reached, prompt))
<1> DEFINE ready == reached \ NoPrepare
           data  == [s \in Sinks |-> IF s \in ready THEN "ready" ELSE q.data[s]]
           p     == [q EXCEPT !.stops = @ \cup ready, !.data = data]
           e     == SynchronizeSinks(p, prompt \cup (reached \cap NoPrepare))
<1>1. data \in [Sinks -> SinkData] /\ S \subseteq Sinks
  BY DEF Request, SinkData
<1>2. /\ p \in Request /\ p.preparing = S /\ p.prepared = {} /\ ~p.play
      /\ p.playing = NobodyPlays /\ p.stops = q.stops \cup ready
  <2> HIDE DEF data
  <2> QED BY <1>1 DEF Request
<1>3. PrepareSinks(q, S, reached, prompt) = IF reached = S THEN e ELSE FailSink(e)
  BY DEF PrepareSinks
<1> HIDE DEF p
<1>4. e \in Request
  BY <1>1, <1>2, SynchronizeType
<1>5. CASE reached = S
  <2>1. Attended(p)
    <3>1. \A s \in Sinks : p.playing[s] = 0
      BY <1>2 DEF NobodyPlays
    <3>2. QED
      BY <1>2, <1>5, <3>1 DEF Attended, Keepers
  <2>2. QED
    BY <1>1, <1>2, <1>3, <1>5, <2>1, SynchronizeAttended
<1>6. CASE reached # S
  <2> HIDE DEF e
  <2>1. FailSink(e).stop
    BY <1>4 DEF FailSink, SetupDone, Request
  <2>2. QED
    BY <1>3, <1>6, <2>1 DEF Attended
<1>7. QED
  BY <1>5, <1>6

LEMMA StartAttended ==
  ASSUME NEW q \in Request, Sound(q), Attended(q), q.play, NEW P \in SUBSET q.prepared
  PROVE  LET q0 == SetupMaxTimeout([q EXCEPT !.play = FALSE])
         IN  /\ Attended([StartSinks(q0, q0.prepared) EXCEPT !.prepared = {}])
             /\ Attended(FailSink(StartSinks(q0, P)))
<1> DEFINE q0 == SetupMaxTimeout([q EXCEPT !.play = FALSE])
           z  == StartSinks(q0, q.prepared)
           y  == StartSinks(q0, P)
<1>1. /\ q0 \in Request /\ q0.prepared = q.prepared
  BY StartSound
<1>2. /\ ~q0.stop /\ ~q0.play /\ q0.playing = q.playing
      /\ q0.preparing = q.preparing /\ q0.data = q.data
  BY DEF SetupMaxTimeout, Request, Sound, DoneFirst
<1>3. q.prepared \in SUBSET Sinks /\ q.preparing = {} /\ q.prepared # {}
  BY DEF Sound, PlaysSynchronized, Request
<1>4. \A s \in Sinks : q.playing[s] = 0
  BY DEF Attended, Sound, DoneFirst, NobodyPlays
<1> HIDE DEF q0
<1>5. z \in Request /\ y \in Request
  BY <1>1, <1>3, SinkTypes
<1>6. /\ \A s \in Sinks : z.playing[s] = IF s \in q.prepared THEN 1 ELSE 0
      /\ \A s \in Sinks : s \in q.prepared => z.data[s] = "active"
      /\ z.preparing = {} /\ ~z.play
  BY <1>1, <1>2, <1>3, <1>4 DEF StartSinks, Request
<1> HIDE DEF z, y
<1>7. /\ [z EXCEPT !.prepared = {}].playing = z.playing
      /\ [z EXCEPT !.prepared = {}].data = z.data /\ [z EXCEPT !.prepared = {}].prepared = {}
      /\ [z EXCEPT !.prepared = {}].preparing = {} /\ ~[z EXCEPT !.prepared = {}].play
  BY <1>5, <1>6 DEF Request
<1>8. z.playing # NobodyPlays
  BY <1>3, <1>6 DEF NobodyPlays
<1>9. Attended([z EXCEPT !.prepared = {}])
  BY <1>6, <1>7, <1>8 DEF Attended
<1>10. FailSink(y).stop
  BY <1>5 DEF FailSink, SetupDone, Request
<1>11. Attended(FailSink(y))
  BY <1>10 DEF Attended
<1>12. QED
  BY <1>1, <1>9, <1>11 DEF q0, z, y

\* One step on request r, while nobody resynchronizes.
LEMMA RequestAttended ==
  ASSUME PlayerInv, \A i \in live : Attended(req[i]), ~MasterResyncs,
         NEW r \in Requests, Step(r), r \in live'
  PROVE  Attended(req'[r])
<1>1. /\ req \in [Requests -> Request] /\ req[r] \in Request /\ Sound(req[r])
      /\ r \in live => Attended(req[r])
      /\ requests \subseteq live
  BY DEF PlayerInv, TypeOK
<1>2. ASSUME NEW q \in Request, q.preparing = {}, q.prepared = {}, ~q.play,
             q.playing = NobodyPlays, PlayRequest(r, q)
      PROVE  Attended(req'[r])
  <2>1. CASE PlayUnresolved(r, q)
    <3>1. req'[r].stop
      BY <1>1, <1>2, <2>1 DEF PlayUnresolved, SetupDone, Request
    <3>2. QED
      BY <3>1 DEF Attended
  <2>2. CASE PlayNoSinks(r, q)
    <3>1. req'[r].stop
      BY <1>1, <1>2, <2>2 DEF PlayNoSinks, SetupDone, Request
    <3>2. QED
      BY <3>1 DEF Attended
  <2>3. CASE PlaySinks(r, q)
    <3>1. PICK S \in (SUBSET Sinks) \ {{}}, timed \in BOOLEAN : \E reached \in SortedReach(S) :
            \E prompt \in SUBSET reached :
              req' = [req EXCEPT ![r] =
                 PrepareSinks([q EXCEPT !.all = S, !.preparing = S, !.timed = timed],
                              S, reached, prompt)]
      BY <2>3 DEF PlaySinks
    <3> DEFINE z == [q EXCEPT !.all = S, !.preparing = S, !.timed = timed]
    <3>2. PICK reached \in SortedReach(S) : \E prompt \in SUBSET reached :
             req' = [req EXCEPT ![r] = PrepareSinks(z, S, reached, prompt)]
      BY <3>1
    <3>3. PICK prompt \in SUBSET reached :
             req' = [req EXCEPT ![r] = PrepareSinks(z, S, reached, prompt)]
      BY <3>2
    <3>4. z \in Request /\ z.preparing = S /\ S # {} /\ z.prepared = {} /\ ~z.play /\ z.playing = NobodyPlays
      BY <1>2 DEF Request
    <3>5. reached \in SUBSET S
      BY DEF SortedReach
    <3> HIDE DEF z
    <3>6. Attended(PrepareSinks(z, S, reached, prompt))
      BY <3>4, <3>5, PrepareAttended
    <3>7. QED
      BY <1>1, <3>3, <3>6
  <2>4. QED
    BY <1>2, <2>1, <2>2, <2>3 DEF PlayRequest
<1>3. CASE Submit(r)
  <2>1. /\ Blank \in Request /\ Blank.preparing = {} /\ Blank.prepared = {} /\ ~Blank.play
        /\ Blank.playing = NobodyPlays /\ PlayRequest(r, Blank)
    BY <1>3, BlankType DEF Submit, Blank
  <2>2. QED
    BY <1>2, <2>1
<1>4. CASE RequestDone(r)
  <2>1. CASE \E status \in {"completed", "failed"} : Finish(r, status)
    BY <1>4, <2>1 DEF Finish
  <2>2. CASE Retry(r)
    <3> DEFINE z == [Freed(req[r]) EXCEPT !.fallback = TRUE]
    <3>1. Freed(req[r]) \in Request
      BY <1>1, FreedSound
    <3>2. /\ Freed(req[r]).preparing = {} /\ Freed(req[r]).prepared = {} /\ ~Freed(req[r]).play
          /\ Freed(req[r]).playing = NobodyPlays
      BY DEF Freed, Blank
    <3>3. z \in Request /\ z.preparing = {} /\ z.prepared = {} /\ ~z.play /\ z.playing = NobodyPlays
      <4> DEFINE f == Freed(req[r])
      <4> HIDE DEF f
      <4>1. f \in Request /\ f.preparing = {} /\ f.prepared = {} /\ ~f.play /\ f.playing = NobodyPlays
        BY <3>1, <3>2 DEF f
      <4>2. /\ [f EXCEPT !.fallback = TRUE] \in Request /\ [f EXCEPT !.fallback = TRUE].preparing = {}
            /\ [f EXCEPT !.fallback = TRUE].prepared = {} /\ ~[f EXCEPT !.fallback = TRUE].play
            /\ [f EXCEPT !.fallback = TRUE].playing = NobodyPlays
        BY <4>1 DEF Request
      <4>3. QED
        BY <4>2 DEF f
    <3>4. PlayRequest(r, z)
      BY <2>2 DEF Retry
    <3> HIDE DEF z
    <3>5. QED
      BY <1>2, <3>3, <3>4
  <2>3. QED
    BY <1>4, <2>1, <2>2 DEF RequestDone
<1>5. CASE Pause(r) \/ Replay(r)
  <2>1. r \in live /\ (req'[r] = req[r] \/ req'[r] = [req[r] EXCEPT !.paused = TRUE])
    BY <1>1, <1>5 DEF Pause, Replay
  <2> DEFINE p == [req[r] EXCEPT !.paused = TRUE]
  <2>2. /\ p.stop = req[r].stop /\ p.play = req[r].play
        /\ p.playing = req[r].playing /\ p.stops = req[r].stops
        /\ p.preparing = req[r].preparing /\ p.prepared = req[r].prepared
        /\ p.data = req[r].data
    BY <1>1 DEF Request
  <2> HIDE DEF p
  <2>3. Attended(req[r]) => Attended(p)
    BY <2>2 DEF Attended
  <2>4. QED
    BY <1>1, <2>1, <2>3 DEF p
<1>6. CASE Resume(r)
  <2>1. r \in live /\ (req'[r] = req[r] \/ \E F \in SUBSET req[r].all :
           req'[r] = [req[r] EXCEPT !.paused = FALSE,
              !.data = [s \in Sinks |-> IF s \in req[r].all \ (F \cup Unready(req[r]))
                                        THEN "active" ELSE req[r].data[s]]])
    BY <1>1, <1>6 DEF Resume
  <2>2. CASE req'[r] = req[r]
    BY <1>1, <2>1, <2>2
  <2>3. ASSUME NEW data, \A s \in Sinks : data[s] \in {"active", req[r].data[s]},
               req'[r] = [req[r] EXCEPT !.paused = FALSE, !.data = data]
        PROVE  Attended(req'[r])
    <3>1. /\ req'[r].stop = req[r].stop /\ req'[r].play = req[r].play
          /\ req'[r].playing = req[r].playing /\ req'[r].stops = req[r].stops
          /\ req'[r].preparing = req[r].preparing /\ req'[r].prepared = req[r].prepared
          /\ req'[r].data = data
      BY <1>1, <2>3 DEF Request
    <3>2. QED
      BY <1>1, <2>1, <2>3, <3>1 DEF Attended
  <2>4. QED
    <3>1. CASE req'[r] # req[r]
      <4>1. PICK F \in SUBSET req[r].all :
           req'[r] = [req[r] EXCEPT !.paused = FALSE,
              !.data = [s \in Sinks |-> IF s \in req[r].all \ (F \cup Unready(req[r]))
                                        THEN "active" ELSE req[r].data[s]]]
        BY <2>1, <3>1
      <4> DEFINE data == [s \in Sinks |-> IF s \in req[r].all \ (F \cup Unready(req[r]))
                                        THEN "active" ELSE req[r].data[s]]
      <4>2. \A s \in Sinks : data[s] \in {"active", req[r].data[s]}
        OBVIOUS
      <4>3. req'[r] = [req[r] EXCEPT !.paused = FALSE, !.data = data]
        BY <4>1
      <4> HIDE DEF data
      <4>4. QED
        BY <2>3, <4>2, <4>3
    <3>2. QED
      BY <2>2, <3>1
<1>7. CASE Stop(r) \/ MaxTimeout(r)
  <2>1. req'[r].stop
    BY <1>1, <1>7 DEF Stop, MaxTimeout, StopRequest, SetupDone, Request
  <2>2. QED
    BY <2>1 DEF Attended
<1>8. CASE SynchronizeDone(r)
  <2> DEFINE q0 == SetupMaxTimeout([req[r] EXCEPT !.play = FALSE])
  <2>1. r \in live /\ req[r].play /\ q0.prepared = req[r].prepared
    BY <1>1, <1>8, StartSound DEF SynchronizeDone
  <2>2. \/ req' = [req EXCEPT ![r] = [StartSinks(q0, q0.prepared) EXCEPT !.prepared = {}]]
        \/ \E P \in SUBSET q0.prepared : req' = [req EXCEPT ![r] = FailSink(StartSinks(q0, P))]
        \/ UNCHANGED req
    BY <1>8 DEF SynchronizeDone
  <2>3. /\ Attended([StartSinks(q0, q0.prepared) EXCEPT !.prepared = {}])
        /\ \A P \in SUBSET req[r].prepared : Attended(FailSink(StartSinks(q0, P)))
    BY <1>1, <2>1, StartAttended
  <2> HIDE DEF q0
  <2>4. QED
    BY <1>1, <2>1, <2>2, <2>3
<1>9. ASSUME NEW s \in Sinks, SinkSynchronizes(r, s) \/ SinkCompletes(r, s) \/ SinkFails(r, s)
      PROVE  Attended(req'[r])
  <2>1. r \in live
    BY <1>9 DEF SinkSynchronizes, SinkCompletes, SinkFails
  <2>2. CASE SinkSynchronizes(r, s)
    BY <1>1, <2>1, <2>2, SynchronizeAttended DEF SinkSynchronizes
  <2>3. CASE SinkCompletes(r, s)
    BY <1>1, <2>1, <2>3, CompleteAttended DEF SinkCompletes
  <2>4. CASE SinkFails(r, s)
    <3>1. req'[r].stop
      BY <1>1, <2>4 DEF SinkFails, FailSink, SetupDone, Request
    <3>2. QED
      BY <3>1 DEF Attended
  <2>5. QED
    BY <1>9, <2>2, <2>3, <2>4
<1>10. ASSUME NEW s \in Sinks, SetResync(r, s) \/ Resynchronize(r, s)
       PROVE  Attended(req'[r])
  <2>1. r \in live /\ req'[r] = [req[r] EXCEPT !.resync = @ \cup {s}]
    BY <1>1, <1>10 DEF SetResync, Resynchronize
  <2>2. QED
    BY <1>1, <2>1 DEF Attended, Request
<1>11. QED
  BY <1>3, <1>4, <1>5, <1>6, <1>7, <1>8, <1>9, <1>10 DEF Step

LEMMA AttendedStep ==
  ASSUME PlayerInv, \A i \in live : Attended(req[i]), ~MasterResyncs, [Next]_vars
  PROVE  \A i \in live' : Attended(req'[i])
<1>1. req \in [Requests -> Request] /\ live \subseteq Requests /\ requests \subseteq live
  BY DEF PlayerInv, TypeOK
<1>2. CASE UNCHANGED vars
  BY <1>2 DEF vars
<1>3. CASE StopAll
  <2>1. ASSUME NEW i \in live
        PROVE  Attended(req'[i])
    <3>1. req'[i] = req[i] \/ req'[i] = StopRequest(req[i])
      BY <1>1, <1>3 DEF StopAll
    <3>2. StopRequest(req[i]).stop
      BY <1>1 DEF StopRequest, SetupDone, Request
    <3>3. QED
      BY <3>1, <3>2 DEF Attended
  <2>2. QED
    BY <1>3, <2>1 DEF StopAll
<1>4. CASE CallActive
  BY <1>1, <1>4, CallChangesLittle DEF SameBut, Attended
<1>5. ASSUME NEW r \in Requests, Step(r)
      PROVE  \A i \in live' : Attended(req'[i])
  <2>1. live' \subseteq live \cup {r}
    BY <1>5 DEF Step, Submit, Pause, Resume, Replay, Stop, MaxTimeout, SynchronizeDone,
         RequestDone, Finish, Retry, SinkSynchronizes, SinkCompletes, SinkFails,
         SetResync, Resynchronize
  <2>2. QED
    BY <1>1, <1>5, <2>1, OthersSame, RequestAttended
<1>6. QED
  BY <1>2, <1>3, <1>4, <1>5 DEF Next

\* What the invariant says of requests that are waited for.
LEMMA AttendedHolds ==
  ASSUME ~MasterResyncs
  PROVE  Spec => [](PlayerInv /\ \A i \in live : Attended(req[i]))
<1> DEFINE I == \A i \in live : Attended(req[i])
<1>1. Init => I
  BY DEF Init
<1>2. PlayerInv /\ I /\ [Next]_vars => I'
  BY AttendedStep
<1> HIDE DEF I
<1>3. Spec => [](PlayerInv /\ I)
  BY <1>1, <1>2, Invariance, PTL DEF Spec
<1>4. QED
  BY <1>3 DEF I

\* No request is left with nothing that could end it, though completions that
\* come before the sink is noted as playing are dropped: where no sink
\* resynchronizes, as none of the repository does.
THEOREM NobodyIsForgotten ==
  ASSUME ~MasterResyncs
  PROVE  Spec => []NeverForgotten
<1>1. PlayerInv /\ (\A i \in live : Attended(req[i])) => NeverForgotten
  <2>1. SUFFICES ASSUME PlayerInv, NEW r \in live, Attended(req[r]), ~req[r].stop, ~req[r].play,
                        req[r].preparing = {}
                 PROVE  \E s \in Sinks : req[r].playing[s] > 0 /\ req[r].data[s] = "active"
    BY DEF NeverForgotten
  <2>2. req[r].playing \in [Sinks -> Nat] /\ req[r].playing # NobodyPlays
    BY <2>1 DEF PlayerInv, TypeOK, Request, Attended
  <2>3. PICK s \in Sinks : req[r].playing[s] # 0
    BY <2>2 DEF NobodyPlays
  <2>4. QED
    BY <2>1, <2>2, <2>3 DEF Attended
<1>2. QED
  BY <1>1, AttendedHolds, PTL

-----------------------------------------------------------------------------
(* What a sink sees: Player implements SinkContract for each of them.       *)

\* What sink s sees of an attempt: is it paused, and was its play called?
Paused(r, s, f) == r \in live /\ req[r].fallback = f /\ req[r].paused /\ s \in req[r].stops
Played(r, s, f) == r \in live /\ req[r].fallback = f /\ req[r].data[s] \in {"active", "ended"}

Still(r, s, f) ==
  /\ Paused(r, s, f)' <=> Paused(r, s, f)
  /\ Played(r, s, f)' <=> Played(r, s, f)

\* The steps of one attempt that the contract has.
SeenMoves(r, s, f) ==
  LET b == SinkPhase(r, s, f)
      a == SinkPhase(r, s, f)'
      held == {"preparing", "prepared", "playing", "ending"}
  IN  \/ a = b /\ Still(r, s, f)
      \/ b = "none" /\ a \in {"preparing", "prepared", "ending", "gone"} /\ Still(r, s, f)
      \/ b = "preparing" /\ a = "prepared" /\ Still(r, s, f)
      \/ b \in held /\ a = "ending" /\ Still(r, s, f)
      \/ /\ b = "prepared" /\ a \in {"playing", "ending"} /\ Played(r, s, f)'
         /\ Paused(r, s, f)' <=> Paused(r, s, f)
      \/ /\ a = b /\ b \in held /\ ~Paused(r, s, f) /\ Paused(r, s, f)'
         /\ Played(r, s, f)' <=> Played(r, s, f)
      \/ /\ a = b /\ b \in held /\ Paused(r, s, f) /\ ~Paused(r, s, f)'
         /\ Played(r, s, f) => Played(r, s, f)'
      \/ b = "ending" /\ a = "gone" /\ ~Paused(r, s, f)' /\ ~Played(r, s, f)'

\* Such a step is one of the contract, when nothing else is seen.
LEMMA MovesAreSeen ==
  ASSUME live \subseteq Requests, live' \subseteq Requests,
         NEW s, NEW f, NEW r \in Requests, SeenMoves(r, s, f),
         \A i \in Requests \ {r} : SinkPhase(i, s, f)' = SinkPhase(i, s, f) /\ Still(i, s, f)
  PROVE  [SeenBy(s, f)!ContractNext]_<<SeenBy(s, f)!contractVars>>
<1> DEFINE phase  == [i \in Requests |-> SinkPhase(i, s, f)]
           paused == {i \in live : /\ req[i].fallback = f /\ req[i].paused /\ s \in req[i].stops}
           played == {i \in live : /\ req[i].fallback = f /\ req[i].data[s] \in {"active", "ended"}}
           next   == SinkPhase(r, s, f)'
<1>1. paused = {i \in Requests : Paused(i, s, f)} /\ played = {i \in Requests : Played(i, s, f)}
  BY DEF Paused, Played
<1>2. paused' = {i \in Requests : Paused(i, s, f)'} /\ played' = {i \in Requests : Played(i, s, f)'}
  BY DEF Paused, Played
<1>3. phase' = [phase EXCEPT ![r] = next] /\ phase[r] = SinkPhase(r, s, f)
  OBVIOUS
<1>4. /\ paused' \ {r} = paused \ {r} /\ played' \ {r} = played \ {r}
      /\ (r \in paused' <=> Paused(r, s, f)') /\ (r \in played' <=> Played(r, s, f)')
      /\ (r \in paused <=> Paused(r, s, f)) /\ (r \in played <=> Played(r, s, f))
  BY <1>1, <1>2 DEF Still
<1>5. Still(r, s, f) => paused' = paused /\ played' = played
  BY <1>4 DEF Still
<1> DEFINE b == SinkPhase(r, s, f)
           held == {"preparing", "prepared", "playing", "ending"}
<1>6. CASE next = b /\ Still(r, s, f)
  <2>1. phase' = phase
    BY <1>6
  <2>2. QED
    BY <1>5, <1>6, <2>1 DEF SeenBy!contractVars
<1>7. CASE b = "none" /\ next \in {"preparing", "prepared", "ending", "gone"} /\ Still(r, s, f)
  <2>1. SeenBy(s, f)!Prepares(r) \/ SeenBy(s, f)!PreparesPrompt(r) \/ SeenBy(s, f)!Refused(r)
    BY <1>3, <1>5, <1>7 DEF SeenBy!Prepares, SeenBy!PreparesPrompt, SeenBy!Refused
  <2>2. QED
    BY <2>1 DEF SeenBy!ContractNext
<1>8. CASE b = "preparing" /\ next = "prepared" /\ Still(r, s, f)
  <2>1. SeenBy(s, f)!Synchronizes(r)
    BY <1>3, <1>5, <1>8 DEF SeenBy!Synchronizes
  <2>2. QED
    BY <2>1 DEF SeenBy!ContractNext
<1>9. CASE b \in held /\ next = "ending" /\ Still(r, s, f)
  <2>1. SeenBy(s, f)!Ends({r})
    BY <1>3, <1>5, <1>9 DEF SeenBy!Ends, SeenBy!Held
  <2>2. QED
    BY <2>1 DEF SeenBy!ContractNext
<1>10. CASE /\ b = "prepared" /\ next \in {"playing", "ending"} /\ Played(r, s, f)'
            /\ Paused(r, s, f)' <=> Paused(r, s, f)
  <2>1. paused' = paused /\ played' = played \cup {r}
    BY <1>4, <1>10
  <2>2. SeenBy(s, f)!Plays(r)
    BY <1>3, <1>10, <2>1 DEF SeenBy!Plays
  <2>3. QED
    BY <2>2 DEF SeenBy!ContractNext
<1>11. CASE /\ next = b /\ b \in held /\ ~Paused(r, s, f) /\ Paused(r, s, f)'
            /\ Played(r, s, f)' <=> Played(r, s, f)
  <2>1. paused' = paused \cup {r} /\ played' = played /\ r \notin paused
    BY <1>4, <1>11
  <2>2. SeenBy(s, f)!Pauses(r)
    BY <1>3, <1>11, <2>1 DEF SeenBy!Pauses, SeenBy!Held
  <2>3. QED
    BY <2>2 DEF SeenBy!ContractNext
<1>12. CASE /\ next = b /\ b \in held /\ Paused(r, s, f) /\ ~Paused(r, s, f)'
            /\ Played(r, s, f) => Played(r, s, f)'
  <2>1. paused' = paused \ {r} /\ played' \in {played, played \cup {r}} /\ r \in paused
    BY <1>4, <1>12
  <2>2. SeenBy(s, f)!Resumes(r)
    BY <1>3, <1>12, <2>1 DEF SeenBy!Resumes, SeenBy!Held
  <2>3. QED
    BY <2>2 DEF SeenBy!ContractNext
<1>13. CASE b = "ending" /\ next = "gone" /\ ~Paused(r, s, f)' /\ ~Played(r, s, f)'
  <2>1. paused' = paused \ {r} /\ played' = played \ {r}
    BY <1>4, <1>13
  <2>2. SeenBy(s, f)!Stops(r)
    BY <1>3, <1>13, <2>1 DEF SeenBy!Stops
  <2>3. QED
    BY <2>2 DEF SeenBy!ContractNext
<1>14. QED
  BY <1>6, <1>7, <1>8, <1>9, <1>10, <1>11, <1>12, <1>13 DEF SeenMoves

\* The stage of the attempt that request q is at.
StageOf(q, s) ==
  IF s \notin q.stops THEN "gone"
  ELSE IF q.stop THEN "ending"
  ELSE IF s \in q.preparing THEN "preparing"
  ELSE IF s \in q.prepared THEN "prepared" ELSE "playing"
Plays(q, s) == q.data[s] \in {"active", "ended"}

\* What a step does to the request of an attempt that goes on.
Serves(q, p, s) ==
  /\ p.fallback = q.fallback /\ (s \in p.stops <=> s \in q.stops)
  /\ \/ /\ p.paused = q.paused /\ (Plays(p, s) <=> Plays(q, s))
        /\ \/ StageOf(p, s) = StageOf(q, s)
           \/ p.stop
           \/ StageOf(q, s) = "preparing" /\ StageOf(p, s) = "prepared"
     \/ /\ StageOf(q, s) = "prepared" /\ StageOf(p, s) \in {"playing", "ending"}
        /\ p.paused = q.paused /\ Plays(p, s)
     \/ StageOf(p, s) = StageOf(q, s) /\ p.paused /\ (Plays(p, s) <=> Plays(q, s))
     \/ /\ StageOf(p, s) = StageOf(q, s) /\ q.paused /\ ~p.paused
        /\ Plays(q, s) => Plays(p, s)
        /\ Plays(p, s) => Plays(q, s) \/ s \in q.stops

LEMMA ServedIsSeen ==
  ASSUME NEW r \in live, r \in live', NEW s, NEW f \in BOOLEAN, closed'[r] = closed[r],
         req[r].paused \in BOOLEAN, req'[r].paused \in BOOLEAN,
         Serves(req[r], req'[r], s)
  PROVE  SeenMoves(r, s, f)
<1>1. CASE req[r].fallback # f
  <2>1. SinkPhase(r, s, f)' = SinkPhase(r, s, f)
    BY <1>1 DEF SinkPhase, Serves
  <2>2. Still(r, s, f)
    BY <1>1 DEF Still, Paused, Played, Serves
  <2>3. QED
    BY <2>1, <2>2 DEF SeenMoves
<1>2. CASE req[r].fallback = f
  <2>1. SinkPhase(r, s, f) = StageOf(req[r], s)
    BY <1>2 DEF SinkPhase, StageOf
  <2>2. req'[r].fallback = f
    BY <1>2 DEF Serves
  <2>3. SinkPhase(r, s, f)' = StageOf(req'[r], s)
    BY <2>2 DEF SinkPhase, StageOf
  <2>4. /\ Paused(r, s, f) <=> req[r].paused /\ s \in req[r].stops
        /\ Played(r, s, f) <=> Plays(req[r], s)
    BY <1>2 DEF Paused, Played, Plays
  <2>5. /\ Paused(r, s, f)' <=> req'[r].paused /\ s \in req'[r].stops
        /\ Played(r, s, f)' <=> Plays(req'[r], s)
    BY <2>2 DEF Paused, Played, Plays
  <2>6. /\ s \notin req[r].stops => StageOf(req[r], s) = "gone" /\ StageOf(req'[r], s) = "gone"
        /\ s \in req[r].stops => StageOf(req[r], s) \in {"preparing", "prepared", "playing", "ending"}
        /\ req'[r].stop /\ s \in req[r].stops => StageOf(req'[r], s) = "ending"
    BY DEF StageOf, Serves
  <2>7. CASE s \notin req[r].stops
    <3>1. Plays(req'[r], s) <=> Plays(req[r], s)
      BY <2>6, <2>7 DEF Serves
    <3>2. QED
      BY <2>1, <2>3, <2>4, <2>5, <2>6, <2>7, <3>1 DEF SeenMoves, Still, Serves
  <2>8. CASE s \in req[r].stops
    BY <2>1, <2>3, <2>4, <2>5, <2>6, <2>8 DEF SeenMoves, Still, Serves
  <2>9. QED
    BY <2>7, <2>8
<1>3. QED
  BY <1>1, <1>2

\* Steps that leave alone what is paused and what is played.
LEMMA ServesWhen ==
  ASSUME NEW q, NEW p, NEW s, p.fallback = q.fallback, p.paused = q.paused,
         s \in p.stops <=> s \in q.stops, Plays(p, s) <=> Plays(q, s),
         \/ StageOf(p, s) = StageOf(q, s)
         \/ p.stop
         \/ StageOf(q, s) = "preparing" /\ StageOf(p, s) = "prepared"
  PROVE  Serves(q, p, s)
BY DEF Serves

\* The functions of core-player.c, seen by a sink: the end of an attempt,
LEMMA EndServes ==
  ASSUME NEW q \in Request, NEW s
  PROVE  /\ Serves(q, StopRequest(q), s) /\ Serves(q, FailSink(q), s)
         /\ Serves(q, StopRequest([q EXCEPT !.max = FALSE]), s)
<1>1. ASSUME NEW p \in {StopRequest(q), FailSink(q), StopRequest([q EXCEPT !.max = FALSE])}
      PROVE  /\ p.fallback = q.fallback /\ p.paused = q.paused /\ p.stops = q.stops
             /\ p.data = q.data /\ p.stop
  BY DEF StopRequest, FailSink, SetupDone, Request
<1>2. ASSUME NEW p \in {StopRequest(q), FailSink(q), StopRequest([q EXCEPT !.max = FALSE])}
      PROVE  Serves(q, p, s)
  BY <1>1, ServesWhen DEF Plays
<1>3. QED
  BY <1>2

\* the readiness of a sink,
LEMMA SynchronizeServes ==
  ASSUME NEW q \in Request, NEW t \in Sinks, NEW s
  PROVE  Serves(q, SynchronizeSinks(q, {t}), s)
<1> DEFINE p == [q EXCEPT !.preparing = @ \ {t}, !.prepared = @ \cup ({t} \cap q.preparing)]
<1>1. CASE q.stop \/ q.play \/ {t} \cap q.preparing = {}
  <2>1. SynchronizeSinks(q, {t}) = q
    BY <1>1 DEF SynchronizeSinks
  <2>2. QED
    BY <2>1, ServesWhen
<1>2. CASE ~q.stop /\ ~q.play /\ {t} \cap q.preparing # {}
  <2>1. /\ p.stop = q.stop /\ p.fallback = q.fallback /\ p.paused = q.paused /\ p.stops = q.stops
        /\ p.data = q.data /\ p.preparing = q.preparing \ {t} /\ p.prepared = q.prepared \cup {t}
        /\ p \in Request
    BY <1>2 DEF Request
  <2>2. SynchronizeSinks(q, {t}) = IF p.preparing = {} THEN SetupSynchronizeDone(p) ELSE p
    BY <1>2 DEF SynchronizeSinks
  <2> SUFFICES Serves(q, SynchronizeSinks(q, {t}), s)
    OBVIOUS
  <2> HIDE DEF p
  <2>3. /\ SetupSynchronizeDone(p).stop = q.stop /\ SetupSynchronizeDone(p).fallback = q.fallback
        /\ SetupSynchronizeDone(p).paused = q.paused /\ SetupSynchronizeDone(p).stops = q.stops
        /\ SetupSynchronizeDone(p).data = q.data
        /\ SetupSynchronizeDone(p).preparing = p.preparing
        /\ SetupSynchronizeDone(p).prepared = p.prepared
    BY <2>1 DEF SetupSynchronizeDone, Request
  <2>4. t \in q.preparing
    BY <1>2
  <2>5. StageOf(SynchronizeSinks(q, {t}), s) = StageOf(p, s)
    BY <2>1, <2>2, <2>3 DEF StageOf
  <2>6. StageOf(p, s) = StageOf(q, s) \/ (StageOf(q, s) = "preparing" /\ StageOf(p, s) = "prepared")
    BY <1>2, <2>1, <2>4 DEF StageOf
  <2> DEFINE n == SynchronizeSinks(q, {t})
  <2>7. /\ n.fallback = q.fallback /\ n.paused = q.paused /\ n.stops = q.stops /\ n.data = q.data
    BY <2>1, <2>2, <2>3
  <2> HIDE DEF n
  <2>8. Serves(q, n, s)
    BY <2>5, <2>6, <2>7, ServesWhen DEF n, Plays
  <2>9. QED
    BY <2>8 DEF n
<1>3. QED
  BY <1>1, <1>2

\* the end of an effect,
LEMMA CompleteServes ==
  ASSUME NEW q \in Request, NEW t \in Sinks, q.data[t] = "active", NEW s \in Sinks
  PROVE  Serves(q, CompleteSink([q EXCEPT !.data[t] = "ended"], t), s)
<1> DEFINE e == [q EXCEPT !.data[t] = "ended"]
           p == RemovePlaying(e, t)
<1>1. e \in Request /\ (Plays(e, s) <=> Plays(q, s))
  <2>1. [q.data EXCEPT ![t] = "ended"] \in [Sinks -> SinkData]
    BY DEF Request, SinkData
  <2>2. e.data[s] = IF s = t THEN "ended" ELSE q.data[s]
    BY DEF Request
  <2>3. QED
    BY <2>1, <2>2 DEF Request, Plays
<1>2. /\ e.stop = q.stop /\ e.paused = q.paused /\ e.fallback = q.fallback
      /\ e.stops = q.stops /\ e.preparing = q.preparing /\ e.prepared = q.prepared
  BY DEF Request
<1> SUFFICES Serves(q, CompleteSink(e, t), s)
  OBVIOUS
<1> HIDE DEF e
<1>3. /\ p \in Request /\ p.stop = e.stop /\ p.stops = e.stops
      /\ p.preparing = e.preparing /\ p.prepared = e.prepared /\ p.data = e.data
      /\ p.paused = e.paused /\ p.fallback = e.fallback
  BY <1>1, CompleteType DEF RemovePlaying, Request
<1>4. CompleteSink(e, t) \in {e, SetupDone(p), p}
  BY DEF CompleteSink
<1> HIDE DEF p
<1>5. /\ SetupDone(p).stop /\ SetupDone(p).stops = p.stops /\ SetupDone(p).data = p.data
      /\ SetupDone(p).paused = p.paused /\ SetupDone(p).fallback = p.fallback
  BY <1>3 DEF SetupDone, Request
<1>6. Serves(q, e, s)
  <2>1. StageOf(e, s) = StageOf(q, s)
    BY <1>2 DEF StageOf
  <2>2. QED
    BY <1>1, <1>2, <2>1, ServesWhen
<1>7. Serves(q, p, s)
  <2>1. StageOf(p, s) = StageOf(q, s)
    BY <1>2, <1>3 DEF StageOf
  <2>2. Plays(p, s) <=> Plays(q, s)
    BY <1>1, <1>3 DEF Plays
  <2>3. QED
    BY <1>2, <1>3, <2>1, <2>2, ServesWhen
<1>8. Serves(q, SetupDone(p), s)
  <2>1. Plays(SetupDone(p), s) <=> Plays(q, s)
    BY <1>1, <1>3, <1>5 DEF Plays
  <2>2. QED
    BY <1>2, <1>3, <1>5, <2>1, ServesWhen
<1>9. QED
  BY <1>4, <1>6, <1>7, <1>8

\* and the start, which no sink that was not prepared sees.
LEMMA StartServes ==
  ASSUME NEW q \in Request, Sound(q), Attended(q), q.play, NEW s \in Keepers,
         NEW P \in SUBSET q.prepared
  PROVE  LET q0 == SetupMaxTimeout([q EXCEPT !.play = FALSE])
         IN  /\ Serves(q, [StartSinks(q0, q0.prepared) EXCEPT !.prepared = {}], s)
             /\ Serves(q, FailSink(StartSinks(q0, P)), s)
<1> DEFINE q0 == SetupMaxTimeout([q EXCEPT !.play = FALSE])
           z  == StartSinks(q0, q.prepared)
           y  == StartSinks(q0, P)
<1>1. /\ q0 \in Request /\ q0.prepared = q.prepared
  BY StartSound
<1>2. /\ ~q0.stop /\ q0.fallback = q.fallback /\ q0.paused = q.paused
      /\ q0.preparing = q.preparing /\ q0.data = q.data /\ q0.stops = q.stops
  BY DEF SetupMaxTimeout, Request, Sound, DoneFirst
<1>3. /\ q.prepared \in SUBSET Sinks /\ q.preparing = {} /\ ~q.stop
      /\ s \in q.prepared => s \in q.stops
  BY DEF Sound, DoneFirst, PlaysSynchronized, Request, Attended
<1>4. s \in Sinks
  BY DEF Keepers
<1> HIDE DEF q0
<1>5. ASSUME NEW Q \in SUBSET q.prepared
      PROVE  /\ StartSinks(q0, Q) \in Request /\ ~StartSinks(q0, Q).stop
             /\ StartSinks(q0, Q).fallback = q.fallback /\ StartSinks(q0, Q).paused = q.paused
             /\ s \in StartSinks(q0, Q).stops <=> s \in q.stops
             /\ StartSinks(q0, Q).preparing = {}
             /\ StartSinks(q0, Q).data[s] = IF s \in Q THEN "active" ELSE q.data[s]
  <2>1. StartSinks(q0, Q) \in Request
    BY <1>1, <1>3, SinkTypes
  <2>2. QED
    BY <1>1, <1>2, <1>3, <1>4, <2>1 DEF StartSinks, Request
<1>6. StageOf(q, s) = IF s \notin q.stops THEN "gone" ELSE IF s \in q.prepared THEN "prepared" ELSE "playing"
  BY <1>3 DEF StageOf
<1>7. Serves(q, [z EXCEPT !.prepared = {}], s)
  <2>1. /\ z \in Request /\ ~z.stop /\ z.fallback = q.fallback /\ z.paused = q.paused
        /\ s \in z.stops <=> s \in q.stops
        /\ z.preparing = {} /\ z.data[s] = IF s \in q.prepared THEN "active" ELSE q.data[s]
    BY <1>5
  <2> HIDE DEF z
  <2>2. /\ ~[z EXCEPT !.prepared = {}].stop /\ [z EXCEPT !.prepared = {}].fallback = q.fallback
        /\ [z EXCEPT !.prepared = {}].paused = q.paused
        /\ s \in [z EXCEPT !.prepared = {}].stops <=> s \in q.stops
        /\ [z EXCEPT !.prepared = {}].preparing = {} /\ [z EXCEPT !.prepared = {}].prepared = {}
        /\ [z EXCEPT !.prepared = {}].data[s] = IF s \in q.prepared THEN "active" ELSE q.data[s]
    BY <2>1 DEF Request
  <2>3. StageOf([z EXCEPT !.prepared = {}], s) = IF s \in q.stops THEN "playing" ELSE "gone"
    BY <2>2 DEF StageOf
  <2> DEFINE p == [z EXCEPT !.prepared = {}]
  <2>4. /\ p.fallback = q.fallback /\ p.paused = q.paused /\ (s \in p.stops <=> s \in q.stops)
        /\ StageOf(p, s) = IF s \in q.stops THEN "playing" ELSE "gone"
        /\ p.data[s] = IF s \in q.prepared THEN "active" ELSE q.data[s]
    BY <2>2, <2>3
  <2> SUFFICES Serves(q, p, s)
    OBVIOUS
  <2> HIDE DEF p
  <2>5. CASE s \in q.prepared
    <3>1. StageOf(q, s) = "prepared" /\ StageOf(p, s) = "playing" /\ Plays(p, s)
      BY <1>3, <1>6, <2>4, <2>5 DEF Plays
    <3>2. QED
      BY <2>4, <3>1 DEF Serves
  <2>6. CASE s \notin q.prepared
    <3>1. StageOf(q, s) = StageOf(p, s) /\ (Plays(p, s) <=> Plays(q, s))
      BY <1>6, <2>4, <2>6 DEF Plays
    <3>2. QED
      BY <2>4, <3>1, ServesWhen
  <2>7. QED
    BY <2>5, <2>6
<1>8. Serves(q, FailSink(y), s)
  <2>1. /\ y \in Request /\ ~y.stop /\ y.fallback = q.fallback /\ y.paused = q.paused
        /\ s \in y.stops <=> s \in q.stops
        /\ y.data[s] = IF s \in P THEN "active" ELSE q.data[s]
    BY <1>5
  <2> HIDE DEF y
  <2>2. /\ FailSink(y).stop /\ FailSink(y).fallback = q.fallback
        /\ FailSink(y).paused = q.paused /\ FailSink(y).stops = y.stops
        /\ FailSink(y).data = y.data
    BY <2>1 DEF FailSink, SetupDone, Request
  <2> DEFINE p == FailSink(y)
  <2>6. /\ p.stop /\ p.fallback = q.fallback /\ p.paused = q.paused
        /\ s \in p.stops <=> s \in q.stops
        /\ p.data[s] = IF s \in P THEN "active" ELSE q.data[s]
    BY <2>1, <2>2
  <2> SUFFICES Serves(q, p, s)
    OBVIOUS
  <2> HIDE DEF p
  <2>3. CASE s \in P
    <3>1. StageOf(q, s) = "prepared" /\ StageOf(p, s) = "ending" /\ Plays(p, s)
      BY <1>3, <1>6, <2>6, <2>3 DEF StageOf, Plays
    <3>2. QED
      BY <2>6, <3>1 DEF Serves
  <2>4. CASE s \notin P
    <3>1. Plays(p, s) <=> Plays(q, s)
      BY <2>6, <2>4 DEF Plays
    <3>2. QED
      BY <2>6, <3>1, ServesWhen
  <2>5. QED
    BY <2>3, <2>4
<1>9. QED
  BY <1>1, <1>7, <1>8 DEF q0, z, y

LEMMA SynchronizeKeeps ==
  ASSUME NEW q \in Request, NEW S \in SUBSET Sinks, NEW e, e = SynchronizeSinks(q, S)
  PROVE  /\ e \in Request
         /\ e.preparing \cup e.prepared = q.preparing \cup q.prepared
         /\ e.stops = q.stops /\ e.data = q.data /\ e.paused = q.paused
         /\ e.fallback = q.fallback /\ e.stop = q.stop
<1> DEFINE p == [q EXCEPT !.preparing = @ \ S,
                          !.prepared  = @ \cup (S \cap q.preparing)]
<1>0. e \in Request
  BY SynchronizeType
<1>1. /\ p \in Request /\ p.preparing \cup p.prepared = q.preparing \cup q.prepared
      /\ p.stops = q.stops /\ p.data = q.data /\ p.paused = q.paused
      /\ p.fallback = q.fallback /\ p.stop = q.stop
  BY DEF Request
<1>2. e = q \/ e = p \/ e = SetupSynchronizeDone(p)
  BY DEF SynchronizeSinks
<1> HIDE DEF p
<1>3. CASE e = SetupSynchronizeDone(p)
  <2>1. /\ e.preparing = p.preparing /\ e.prepared = p.prepared
        /\ e.stops = p.stops /\ e.data = p.data /\ e.paused = p.paused
        /\ e.fallback = p.fallback /\ e.stop = p.stop
    BY <1>1, <1>3 DEF SetupSynchronizeDone, Request
  <2>2. QED
    BY <1>0, <1>1, <2>1
<1>4. QED
  BY <1>0, <1>1, <1>2, <1>3

\* A new attempt: nothing of it is paused or played, and a sink that was
\* prepared is waited for.
Begins(q, s) ==
  ~q.paused /\ ~Plays(q, s) /\ StageOf(q, s) \in {"preparing", "prepared", "ending", "gone"}

LEMMA PlayBegins ==
  ASSUME req \in [Requests -> Request], NEW r \in Requests, NEW q \in Request, NEW s \in Sinks,
         q.stops = {}, ~q.paused, q.data[s] = "none", PlayRequest(r, q)
  PROVE  req'[r].fallback = q.fallback /\ Begins(req'[r], s)
<1>1. CASE PlayUnresolved(r, q) \/ PlayNoSinks(r, q)
  <2>1. PICK u \in {[q EXCEPT !.noEvent = TRUE, !.failed = TRUE], [q EXCEPT !.failed = TRUE]} :
          req'[r] = SetupDone(u)
    BY <1>1 DEF PlayUnresolved, PlayNoSinks
  <2>3. /\ u \in Request /\ u.fallback = q.fallback /\ u.paused = q.paused
        /\ u.stops = {} /\ u.data = q.data
    BY DEF Request
  <2>4. /\ SetupDone(u).fallback = u.fallback /\ SetupDone(u).paused = u.paused
        /\ SetupDone(u).stops = u.stops /\ SetupDone(u).data = u.data
    BY <2>3 DEF SetupDone, Request
  <2>2. QED
    BY <2>1, <2>3, <2>4 DEF Begins, Plays, StageOf
<1>2. CASE PlaySinks(r, q)
  <2>1. PICK S \in (SUBSET Sinks) \ {{}}, timed \in BOOLEAN : \E reached \in SortedReach(S) :
          \E prompt \in SUBSET reached :
            req' = [req EXCEPT ![r] =
               PrepareSinks([q EXCEPT !.all = S, !.preparing = S, !.timed = timed],
                            S, reached, prompt)]
    BY <1>2 DEF PlaySinks
  <2> DEFINE z == [q EXCEPT !.all = S, !.preparing = S, !.timed = timed]
  <2>2. PICK reached \in SortedReach(S) : \E prompt \in SUBSET reached :
           req' = [req EXCEPT ![r] = PrepareSinks(z, S, reached, prompt)]
    BY <2>1
  <2>3. PICK prompt \in SUBSET reached :
           req' = [req EXCEPT ![r] = PrepareSinks(z, S, reached, prompt)]
    BY <2>2
  <2>4. /\ z \in Request /\ z.preparing = S /\ z.stops = {} /\ ~z.paused /\ z.data = q.data
        /\ z.fallback = q.fallback
    BY DEF Request
  <2>5. reached \in SUBSET S /\ S \subseteq Sinks
    BY DEF SortedReach
  <2> DEFINE ready == reached \ NoPrepare
             data  == [t \in Sinks |-> IF t \in ready THEN "ready" ELSE z.data[t]]
             p     == [z EXCEPT !.stops = @ \cup ready, !.data = data]
             T     == prompt \cup (reached \cap NoPrepare)
             e     == SynchronizeSinks(p, T)
  <2>6. data \in [Sinks -> SinkData] /\ data[s] \in {"ready", "none"}
    <3> HIDE DEF z
    <3> QED BY <2>4 DEF Request, SinkData
  <2>7. req'[r] = IF reached = S THEN e ELSE FailSink(e)
    BY <2>3 DEF PrepareSinks
  <2> HIDE DEF z
  <2>8. /\ p \in Request /\ p.preparing = S /\ p.stops \subseteq S /\ ~p.paused /\ p.data = data
        /\ p.fallback = q.fallback
    <3> HIDE DEF data
    <3> QED BY <2>4, <2>5, <2>6 DEF Request
  <2> HIDE DEF data, p
  <2>9. T \in SUBSET Sinks
    BY <2>5
  <2> HIDE DEF T
  <2>10. /\ e \in Request /\ e.preparing \cup e.prepared = p.preparing \cup p.prepared
         /\ e.stops = p.stops /\ e.data = p.data /\ e.paused = p.paused
         /\ e.fallback = p.fallback /\ e.stop = p.stop
    BY <2>8, <2>9, SynchronizeKeeps
  <2> HIDE DEF e
  <2>11. CASE reached = S
    <3>1. StageOf(e, s) # "playing"
      BY <2>8, <2>10 DEF StageOf
    <3>2. QED
      BY <2>6, <2>7, <2>8, <2>10, <2>11, <3>1 DEF Begins, Plays, StageOf
  <2>12. CASE reached # S
    <3>1. /\ FailSink(e).stop /\ FailSink(e).data = e.data /\ ~FailSink(e).paused
          /\ FailSink(e).fallback = e.fallback
      BY <2>8, <2>10 DEF FailSink, SetupDone, Request
    <3>2. QED
      BY <2>6, <2>7, <2>8, <2>10, <2>12, <3>1 DEF Begins, Plays, StageOf
  <2>13. QED
    BY <2>11, <2>12
<1>3. QED
  BY <1>1, <1>2 DEF PlayRequest

\* The first and the last steps of an attempt.
LEMMA SubmitSeen ==
  ASSUME PlayerInv, NEW r \in Requests, Submit(r), NEW s \in Keepers, NEW f \in BOOLEAN
  PROVE  SeenMoves(r, s, f)
<1>1. /\ req \in [Requests -> Request] /\ s \in Sinks /\ r \notin live /\ r \in live'
      /\ closed[r] = 0 /\ closed' = closed /\ PlayRequest(r, Blank)
  BY DEF PlayerInv, TypeOK, Keepers, Submit
<1>2. /\ Blank \in Request /\ Blank.stops = {} /\ ~Blank.paused /\ Blank.data[s] = "none"
      /\ ~Blank.fallback
  BY <1>1, BlankType DEF Blank
<1>3. req'[r].fallback = FALSE /\ Begins(req'[r], s)
  BY <1>1, <1>2, PlayBegins
<1>4. SinkPhase(r, s, f) = "none" /\ ~Paused(r, s, f) /\ ~Played(r, s, f)
  BY <1>1 DEF SinkPhase, Paused, Played
<1>5. ~Paused(r, s, f)' /\ ~Played(r, s, f)'
  BY <1>3 DEF Paused, Played, Begins, Plays
<1>6. CASE f = TRUE
  <2>0. closed'[r] = 0 /\ req'[r].fallback = FALSE
    BY <1>1, <1>3
  <2>1. ~(closed'[r] > 0)
    BY ONLY <2>0
  <2>2. ~(req'[r].fallback = f)
    BY ONLY <2>0, <1>6, Zenon
  <2>3. SinkPhase(r, s, f)' = "none"
    BY <1>1, <1>6, <2>1, <2>2 DEF SinkPhase
  <2>4. QED
    BY <1>4, <1>5, <2>3 DEF SeenMoves, Still
<1>7. CASE f = FALSE
  <2>1. SinkPhase(r, s, f)' = StageOf(req'[r], s)
    BY <1>1, <1>3, <1>7 DEF SinkPhase, StageOf
  <2>2. QED
    BY <1>3, <1>4, <1>5, <2>1 DEF SeenMoves, Still, Begins
<1>8. QED
  BY <1>6, <1>7

LEMMA DoneSeen ==
  ASSUME PlayerInv, NEW r \in Requests, RequestDone(r), NEW s \in Keepers, NEW f \in BOOLEAN
  PROVE  SeenMoves(r, s, f)
<1>1. /\ req \in [Requests -> Request] /\ s \in Sinks /\ r \in live
      /\ req[r] \in Request /\ Sound(req[r]) /\ req[r].stop
      /\ closed \in [Requests -> Nat] /\ closed[r] = 0
      /\ req[r].fallback \in BOOLEAN
  BY DEF PlayerInv, TypeOK, Keepers, RequestDone, Request
<1>2. /\ f = req[r].fallback => SinkPhase(r, s, f) = IF s \in req[r].stops THEN "ending" ELSE "gone"
      /\ f # req[r].fallback => SinkPhase(r, s, f) = IF f THEN "none" ELSE "gone"
      /\ f # req[r].fallback => ~Paused(r, s, f) /\ ~Played(r, s, f)
      /\ s \notin req[r].stops => ~Paused(r, s, f) /\ ~Played(r, s, f)
  <2>1. s \notin req[r].stops => req[r].data[s] = "none"
    BY <1>1 DEF Sound, KeepersStop
  <2>2. QED
    BY <1>1, <2>1 DEF SinkPhase, Paused, Played
<1>3. ASSUME SinkPhase(r, s, f)' = "gone", ~Paused(r, s, f)', ~Played(r, s, f)'
      PROVE  SeenMoves(r, s, f)
  <2>1. CASE f = req[r].fallback /\ s \in req[r].stops
    BY <1>2, <1>3, <2>1 DEF SeenMoves
  <2>2. CASE f # req[r].fallback \/ s \notin req[r].stops
    BY <1>2, <1>3, <2>2 DEF SeenMoves, Still
  <2>3. QED
    BY <2>1, <2>2
<1>4. CASE \E status \in {"completed", "failed"} : Finish(r, status)
  <2>1. r \notin live' /\ closed'[r] > 0
    BY <1>1, <1>4 DEF Finish
  <2>2. SinkPhase(r, s, f)' = "gone" /\ ~Paused(r, s, f)' /\ ~Played(r, s, f)'
    BY <2>1 DEF SinkPhase, Paused, Played
  <2>3. QED
    BY <1>3, <2>2
<1>5. CASE ~req[r].fallback /\ Retry(r)
  <2> DEFINE z == [Freed(req[r]) EXCEPT !.fallback = TRUE]
  <2>1. /\ Freed(req[r]) \in Request /\ Freed(req[r]).stops = {} /\ ~Freed(req[r]).paused
        /\ Freed(req[r]).data[s] = "none"
    <3>1. Freed(req[r]) \in Request /\ Idle(Freed(req[r]))
      BY <1>1, FreedSound
    <3>2. Freed(req[r]).stops = {} /\ ~Freed(req[r]).paused
      BY DEF Freed, Blank
    <3>3. QED
      BY <3>1, <3>2 DEF Idle
  <2>2. z \in Request /\ z.stops = {} /\ ~z.paused /\ z.data[s] = "none" /\ z.fallback
    <3> DEFINE q == Freed(req[r])
    <3> HIDE DEF q
    <3>1. q \in Request /\ q.stops = {} /\ ~q.paused /\ q.data[s] = "none"
      BY <2>1 DEF q
    <3>2. /\ [q EXCEPT !.fallback = TRUE] \in Request /\ [q EXCEPT !.fallback = TRUE].stops = {}
          /\ ~[q EXCEPT !.fallback = TRUE].paused /\ [q EXCEPT !.fallback = TRUE].data[s] = "none"
          /\ [q EXCEPT !.fallback = TRUE].fallback
      BY <3>1 DEF Request
    <3>3. QED
      BY <3>2 DEF q
  <2>3. PlayRequest(r, z) /\ r \in live' /\ closed'[r] = 0
    BY <1>1, <1>5 DEF Retry
  <2> HIDE DEF z
  <2>4. req'[r].fallback /\ Begins(req'[r], s) /\ req'[r].fallback = z.fallback
    BY <1>1, <2>2, <2>3, PlayBegins
  <2>5. z.fallback = TRUE
    BY <2>2 DEF Request
  <2>6. ~Paused(r, s, f)' /\ ~Played(r, s, f)'
    BY <2>4 DEF Paused, Played, Begins, Plays
  <2>7. CASE f = FALSE
    <3>1. SinkPhase(r, s, f)' = "gone"
      BY <2>3, <2>4, <2>5, <2>7 DEF SinkPhase
    <3>2. QED
      BY <1>3, <2>6, <3>1
  <2>8. CASE f = TRUE
    <3>1. SinkPhase(r, s, f)' = StageOf(req'[r], s)
      BY <2>3, <2>4, <2>5, <2>8 DEF SinkPhase, StageOf
    <3>2. SinkPhase(r, s, f) = "none" /\ ~Paused(r, s, f) /\ ~Played(r, s, f)
      BY <1>2, <1>5, <2>8
    <3>3. QED
      BY <2>4, <2>6, <3>1, <3>2 DEF SeenMoves, Still, Begins
  <2>9. QED
    BY <2>7, <2>8
<1>6. QED
  BY <1>4, <1>5 DEF RequestDone

\* The calls of a client: a resume plays only the sinks that were prepared.
LEMMA ClientServes ==
  ASSUME PlayerInv, NEW r \in live, NEW s \in Keepers,
         Pause(r) \/ Resume(r) \/ Replay(r) \/ Stop(r)
  PROVE  Serves(req[r], req'[r], s)
<1>1. /\ req \in [Requests -> Request] /\ r \in Requests /\ s \in Sinks
      /\ req[r] \in Request /\ Sound(req[r])
  BY LiveSound DEF PlayerInv, TypeOK, Keepers
<1>2. CASE req'[r] = req[r]
  BY <1>2, ServesWhen
<1>3. CASE Stop(r)
  BY <1>1, <1>3, EndServes DEF Stop
<1>4. CASE Pause(r) /\ req'[r] # req[r]
  <2> DEFINE p == [req[r] EXCEPT !.paused = TRUE]
  <2>1. req'[r] = p
    BY <1>1, <1>4 DEF Pause
  <2>2. /\ p.paused /\ p.fallback = req[r].fallback /\ p.stops = req[r].stops
        /\ p.stop = req[r].stop /\ p.preparing = req[r].preparing
        /\ p.prepared = req[r].prepared /\ p.data = req[r].data
    BY <1>1 DEF Request
  <2> HIDE DEF p
  <2>3. StageOf(p, s) = StageOf(req[r], s) /\ (Plays(p, s) <=> Plays(req[r], s))
    BY <2>2 DEF StageOf, Plays
  <2>4. QED
    BY <2>1, <2>2, <2>3 DEF Serves
<1>5. CASE Resume(r) /\ req'[r] # req[r]
  <2>1. /\ req[r].paused
        /\ \E F \in SUBSET req[r].all :
             req'[r] = [req[r] EXCEPT !.paused = FALSE,
                !.data = [t \in Sinks |-> IF t \in req[r].all \ (F \cup Unready(req[r]))
                                          THEN "active" ELSE req[r].data[t]]]
    BY <1>1, <1>5 DEF Resume
  <2>2. PICK F \in SUBSET req[r].all :
             req'[r] = [req[r] EXCEPT !.paused = FALSE,
                !.data = [t \in Sinks |-> IF t \in req[r].all \ (F \cup Unready(req[r]))
                                          THEN "active" ELSE req[r].data[t]]]
    BY <2>1
  <2> DEFINE data == [t \in Sinks |-> IF t \in req[r].all \ (F \cup Unready(req[r]))
                                      THEN "active" ELSE req[r].data[t]]
             p    == [req[r] EXCEPT !.paused = FALSE, !.data = data]
  <2>3. data[s] = req[r].data[s] \/ (data[s] = "active" /\ s \in req[r].stops)
    BY <1>1 DEF Unready, Sound, KeepersStop
  <2>4. req'[r] = p
    BY <2>2
  <2> HIDE DEF data
  <2>5. /\ ~p.paused /\ p.fallback = req[r].fallback /\ p.stops = req[r].stops
        /\ p.stop = req[r].stop /\ p.preparing = req[r].preparing
        /\ p.prepared = req[r].prepared /\ p.data = data
    BY <1>1 DEF Request
  <2> HIDE DEF p
  <2>6. StageOf(p, s) = StageOf(req[r], s)
    BY <2>5 DEF StageOf
  <2>7. /\ Plays(req[r], s) => Plays(p, s)
        /\ Plays(p, s) => Plays(req[r], s) \/ s \in req[r].stops
    BY <2>3, <2>5 DEF Plays
  <2>8. QED
    BY <2>1, <2>4, <2>5, <2>6, <2>7 DEF Serves
<1>6. CASE Replay(r)
  BY <1>2, <1>6 DEF Replay
<1>7. QED
  BY <1>2, <1>3, <1>4, <1>5, <1>6

\* The calls of the sinks, and the sources of an attempt that goes on.
LEMMA CallbackServes ==
  ASSUME PlayerInv, NEW r \in live, Attended(req[r]), ~MasterResyncs, NEW s \in Keepers,
         \/ SynchronizeDone(r) \/ MaxTimeout(r)
         \/ \E t \in Sinks : SinkSynchronizes(r, t) \/ SinkCompletes(r, t)
                             \/ SinkFails(r, t) \/ SetResync(r, t)
                             \/ Resynchronize(r, t)
  PROVE  Serves(req[r], req'[r], s)
<1>1. /\ req \in [Requests -> Request] /\ r \in Requests /\ s \in Sinks
      /\ req[r] \in Request /\ Sound(req[r])
  BY LiveSound DEF PlayerInv, TypeOK, Keepers
<1>2. CASE SynchronizeDone(r)
  <2> DEFINE q0 == SetupMaxTimeout([req[r] EXCEPT !.play = FALSE])
  <2>1. req[r].play /\ q0.prepared = req[r].prepared
    BY <1>1, <1>2, StartSound DEF SynchronizeDone
  <2>2. \/ req' = [req EXCEPT ![r] = [StartSinks(q0, q0.prepared) EXCEPT !.prepared = {}]]
        \/ \E P \in SUBSET q0.prepared : req' = [req EXCEPT ![r] = FailSink(StartSinks(q0, P))]
        \/ UNCHANGED req
    BY <1>2 DEF SynchronizeDone
  <2>3. /\ Serves(req[r], [StartSinks(q0, q0.prepared) EXCEPT !.prepared = {}], s)
        /\ \A P \in SUBSET req[r].prepared : Serves(req[r], FailSink(StartSinks(q0, P)), s)
    BY <1>1, <2>1, StartServes
  <2>4. Serves(req[r], req[r], s)
    BY DEF Serves
  <2> HIDE DEF q0
  <2>5. QED
    BY <1>1, <2>1, <2>2, <2>3, <2>4
<1>3. CASE MaxTimeout(r)
  BY <1>1, <1>3, EndServes DEF MaxTimeout
<1>4. ASSUME NEW t \in Sinks, SinkSynchronizes(r, t)
      PROVE  Serves(req[r], req'[r], s)
  BY <1>1, <1>4, SynchronizeServes DEF SinkSynchronizes
<1>5. ASSUME NEW t \in Sinks, SinkCompletes(r, t)
      PROVE  Serves(req[r], req'[r], s)
  BY <1>1, <1>5, CompleteServes DEF SinkCompletes
<1>6. ASSUME NEW t \in Sinks, SinkFails(r, t)
      PROVE  Serves(req[r], req'[r], s)
  BY <1>1, <1>6, EndServes DEF SinkFails
<1>7. ASSUME NEW t \in Sinks, SetResync(r, t)
      PROVE  Serves(req[r], req'[r], s)
  <2> DEFINE p == [req[r] EXCEPT !.resync = @ \cup {t}]
  <2>1. req'[r] = p
    BY <1>1, <1>7 DEF SetResync
  <2>2. /\ p.paused = req[r].paused /\ p.fallback = req[r].fallback
        /\ p.stops = req[r].stops /\ p.stop = req[r].stop
        /\ p.preparing = req[r].preparing /\ p.prepared = req[r].prepared
        /\ p.data = req[r].data
    BY <1>1 DEF Request
  <2> HIDE DEF p
  <2>3. StageOf(p, s) = StageOf(req[r], s) /\ (Plays(p, s) <=> Plays(req[r], s))
    BY <2>2 DEF StageOf, Plays
  <2>4. Serves(req[r], p, s)
    BY <2>2, <2>3, ServesWhen
  <2>5. QED
    BY <2>1, <2>4
<1>8. QED
  BY <1>2, <1>3, <1>4, <1>5, <1>6, <1>7 DEF Resynchronize

LEMMA StepSeen ==
  ASSUME PlayerInv, PlayerInv', \A i \in live : Attended(req[i]), ~MasterResyncs,
         NEW r \in Requests, Step(r), NEW s \in Keepers, NEW f \in BOOLEAN
  PROVE  SeenMoves(r, s, f)
<1>1. CASE Submit(r)
  BY <1>1, SubmitSeen
<1>2. CASE RequestDone(r)
  BY <1>2, DoneSeen
<1>3. ASSUME r \in live, r \in live', closed'[r] = closed[r], Serves(req[r], req'[r], s)
      PROVE  SeenMoves(r, s, f)
  <2>1. req[r].paused \in BOOLEAN /\ req'[r].paused \in BOOLEAN
    BY <1>3 DEF PlayerInv, TypeOK, Request
  <2>2. QED
    BY <1>3, <2>1, ServedIsSeen
<1>4. CASE Pause(r) \/ Resume(r) \/ Replay(r) \/ Stop(r)
  <2>1. r \in live /\ live' = live /\ closed' = closed
    BY <1>4 DEF Pause, Resume, Replay, Stop, PlayerInv
  <2>2. Serves(req[r], req'[r], s)
    BY <1>4, <2>1, ClientServes
  <2>3. QED
    BY <1>3, <2>1, <2>2
<1>5. CASE \/ SynchronizeDone(r) \/ MaxTimeout(r)
           \/ \E t \in Sinks : SinkSynchronizes(r, t) \/ SinkCompletes(r, t)
                               \/ SinkFails(r, t) \/ SetResync(r, t)
                               \/ Resynchronize(r, t)
  <2>1. r \in live /\ live' = live /\ closed' = closed
    BY <1>5 DEF SynchronizeDone, MaxTimeout, SinkSynchronizes, SinkCompletes,
                SinkFails, SetResync, Resynchronize
  <2>2. Serves(req[r], req'[r], s)
    BY <1>5, <2>1, CallbackServes
  <2>3. QED
    BY <1>3, <2>1, <2>2
<1>6. QED
  BY <1>1, <1>2, <1>4, <1>5 DEF Step

\* Of the other attempts the sink sees nothing new.
LEMMA OthersUnseen ==
  ASSUME PlayerInv, NEW r \in Requests, Step(r), NEW i \in Requests \ {r}, NEW s, NEW f
  PROVE  SinkPhase(i, s, f)' = SinkPhase(i, s, f) /\ Still(i, s, f)
<1>1. req'[i] = req[i]
  BY OthersSame
<1>2. closed \in [Requests -> Nat]
  BY DEF PlayerInv, TypeOK
<1>3. (i \in live' <=> i \in live) /\ closed'[i] = closed[i]
  <2>1. CASE Submit(r)
    BY <2>1 DEF Submit
  <2>2. CASE RequestDone(r)
    BY <1>2, <2>2 DEF RequestDone, Finish, Retry
  <2>3. CASE \/ Pause(r) \/ Resume(r) \/ Replay(r) \/ Stop(r)
             \/ SynchronizeDone(r) \/ MaxTimeout(r)
             \/ \E t \in Sinks : SinkSynchronizes(r, t) \/ SinkCompletes(r, t)
                                 \/ SinkFails(r, t) \/ SetResync(r, t)
                                 \/ Resynchronize(r, t)
    <3>1. live' = live /\ closed' = closed
      BY <2>3 DEF Pause, Resume, Replay, Stop, SynchronizeDone, MaxTimeout,
                  SinkSynchronizes, SinkCompletes, SinkFails, SetResync, Resynchronize
    <3>2. QED
      BY <3>1
  <2>4. QED
    BY <2>1, <2>2, <2>3 DEF Step
<1>4. SinkPhase(i, s, f)' = SinkPhase(i, s, f)
  BY <1>1, <1>3 DEF SinkPhase
<1>5. Still(i, s, f)
  BY <1>1, <1>3 DEF Still, Paused, Played
<1>6. QED
  BY <1>4, <1>5

\* When all are stopped, the attempts that the sink holds end.
LEMMA StopAllSeen ==
  ASSUME PlayerInv, StopAll, NEW s \in Keepers, NEW f \in BOOLEAN
  PROVE  SeenBy(s, f)!ContractNext
<1> DEFINE R == {i \in requests : req[i].fallback = f /\ s \in req[i].stops}
<1>1. /\ live' = live /\ closed' = closed /\ requests \subseteq live
      /\ live \subseteq Requests /\ R \subseteq Requests
  BY DEF StopAll, PlayerInv, TypeOK
<1>2. ASSUME NEW i \in Requests
      PROVE  /\ req'[i].fallback = req[i].fallback /\ req'[i].paused = req[i].paused
             /\ req'[i].stops = req[i].stops /\ req'[i].data = req[i].data
             /\ i \in requests => req'[i].stop
             /\ i \notin requests => req'[i] = req[i]
  <2>1. req[i] \in Request
    BY DEF PlayerInv, TypeOK
  <2>2. req'[i] = IF i \in requests THEN StopRequest(req[i]) ELSE req[i]
    BY DEF StopAll
  <2>3. /\ StopRequest(req[i]).fallback = req[i].fallback
        /\ StopRequest(req[i]).paused = req[i].paused
        /\ StopRequest(req[i]).stops = req[i].stops
        /\ StopRequest(req[i]).data = req[i].data /\ StopRequest(req[i]).stop
    BY <2>1 DEF StopRequest, SetupDone, Request
  <2>4. QED
    BY <2>2, <2>3
<1>3. ASSUME NEW i \in Requests
      PROVE  /\ SinkPhase(i, s, f)' = IF i \in R THEN "ending" ELSE SinkPhase(i, s, f)
             /\ i \in R => SinkPhase(i, s, f) \in {"preparing", "prepared", "playing", "ending"}
  <2>1. CASE i \in R
    <3>1. i \in live /\ i \in live' /\ i \in requests /\ req[i].fallback = f /\ s \in req[i].stops
      BY <1>1, <2>1
    <3>2. req'[i].fallback = f /\ s \in req'[i].stops /\ req'[i].stop
      BY <1>2, <3>1
    <3>3. QED
      BY <2>1, <3>1, <3>2 DEF SinkPhase
  <2>2. CASE i \notin requests
    BY <1>1, <1>2, <2>2 DEF SinkPhase
  <2>3. CASE i \in requests /\ i \notin R
    <3>1. i \in live /\ i \in live' /\ ~(req[i].fallback = f /\ s \in req[i].stops)
      BY <1>1, <2>3
    <3>2. ~(req'[i].fallback = f /\ s \in req'[i].stops)
      BY <1>2, <3>1
    <3>3. QED
      BY <1>1, <1>2, <2>3, <3>1, <3>2 DEF SinkPhase
  <2>4. QED
    BY <2>1, <2>2, <2>3
<1>4. /\ {i \in live : req[i].fallback = f /\ req[i].paused /\ s \in req[i].stops}'
           = {i \in live : req[i].fallback = f /\ req[i].paused /\ s \in req[i].stops}
      /\ {i \in live : req[i].fallback = f /\ req[i].data[s] \in {"active", "ended"}}'
           = {i \in live : req[i].fallback = f /\ req[i].data[s] \in {"active", "ended"}}
  BY <1>1, <1>2
<1> HIDE DEF R
<1>5. SeenBy(s, f)!Ends(R)
  BY <1>1, <1>3, <1>4 DEF SeenBy!Ends, SeenBy!Held
<1>6. QED
  BY <1>1, <1>5 DEF SeenBy!ContractNext

\* Of a call that takes its effects away, a sink sees nothing.
LEMMA CallUnseen ==
  ASSUME PlayerInv, CallActive, NEW s \in Keepers, NEW f \in BOOLEAN
  PROVE  UNCHANGED <<SeenBy(s, f)!contractVars>>
<1>1. /\ UNCHANGED <<live, requests, reply, closed, aborted, stopAsked>>
      /\ \A i \in Requests : SameBut(req[i], req'[i])
      /\ live \subseteq Requests
  BY CallChangesLittle DEF PlayerInv, TypeOK
<1>2. \A i \in Requests : SinkPhase(i, s, f)' = SinkPhase(i, s, f)
  BY <1>1 DEF SameBut, SinkPhase
<1>3. /\ {i \in live : req[i].fallback = f /\ req[i].paused /\ s \in req[i].stops}'
           = {i \in live : req[i].fallback = f /\ req[i].paused /\ s \in req[i].stops}
      /\ {i \in live : req[i].fallback = f /\ req[i].data[s] \in {"active", "ended"}}'
           = {i \in live : req[i].fallback = f /\ req[i].data[s] \in {"active", "ended"}}
  BY <1>1 DEF SameBut
<1>4. QED
  BY <1>2, <1>3 DEF SeenBy!contractVars

LEMMA NextSeen ==
  ASSUME PlayerInv, PlayerInv', \A i \in live : Attended(req[i]), ~MasterResyncs, [Next]_vars,
         NEW s \in Keepers, NEW f \in BOOLEAN
  PROVE  [SeenBy(s, f)!ContractNext]_<<SeenBy(s, f)!contractVars>>
<1>1. CASE UNCHANGED vars
  BY <1>1 DEF vars, SeenBy!contractVars, SinkPhase
<1>2. CASE StopAll
  BY <1>2, StopAllSeen
<1>3. CASE CallActive
  BY <1>3, CallUnseen
<1>4. ASSUME NEW r \in Requests, Step(r)
      PROVE  [SeenBy(s, f)!ContractNext]_<<SeenBy(s, f)!contractVars>>
  <2>1. live \subseteq Requests /\ live' \subseteq Requests
    BY DEF PlayerInv, TypeOK
  <2>2. SeenMoves(r, s, f)
    BY <1>4, StepSeen
  <2>3. \A i \in Requests \ {r} : SinkPhase(i, s, f)' = SinkPhase(i, s, f) /\ Still(i, s, f)
    BY <1>4, OthersUnseen
  <2>4. QED
    BY <2>1, <2>2, <2>3, MovesAreSeen
<1>5. QED
  BY <1>1, <1>2, <1>3, <1>4 DEF Next

LEMMA InitSeen ==
  ASSUME Init, NEW s \in Keepers, NEW f \in BOOLEAN
  PROVE  SeenBy(s, f)!ContractInit
BY DEF Init, SeenBy!ContractInit, SinkPhase

\* Each sink with a prepare function sees its calls in the order it relies on,
\* in the first attempt at a request and in its fallback: prepared, played when
\* all are ready, never played while the attempt ends, stopped once and last;
\* where no sink resynchronizes, as none of the repository does.
THEOREM SinksGetTheirContract ==
  ASSUME ~MasterResyncs
  PROVE  Spec => KeepsSinkContract
<1> DEFINE I == PlayerInv /\ \A i \in live : Attended(req[i])
<1>1. Init => \A s \in Keepers, fallback \in BOOLEAN : SeenBy(s, fallback)!ContractInit
  BY InitSeen
<1>2. I /\ I' /\ [Next]_vars =>
        \A s \in Keepers, fallback \in BOOLEAN :
          [SeenBy(s, fallback)!ContractNext]_<<SeenBy(s, fallback)!contractVars>>
  BY NextSeen
<1>3. Spec => []I
  BY AttendedHolds
<1> HIDE DEF I
<1>4. QED
  BY <1>1, <1>2, <1>3, PTL DEF Spec, KeepsSinkContract
=============================================================================
