--------------------------- MODULE GstStreamProofs ---------------------------
(***************************************************************************)
(* Theorems about GstStream for every set of requests, of cells and of     *)
(* settings.                                                               *)
(***************************************************************************)
EXTENDS GstStream, TLAPS

\* A stream that was left without a pipeline: nothing happens to it.
Silent(s) ==
  /\ s.set.enabled /\ s.state = "notStarted" /\ ~s.pipe
  /\ ~s.watch /\ ~s.delaySync /\ ~s.fakePlay /\ ~s.stopping
  /\ s.fade = "none"

\* What holds of a stream that has its request: it is not on its way out, and
\* if it plays its pipeline does, unless it fades out and never in.
Coherent(s) ==
  s.owner # Null =>
    /\ s.fade # "stop" /\ ~s.stopping /\ s.state # "stopped"
    /\ s.fade = "pause" =>
         /\ s.set.fadePause /\ s.state # "notStarted"
         /\ s.state = "playing" => ~s.set.fadeResume
    /\ s.state = "playing" /\ s.pipe /\ (s.set.fadePause => s.set.fadeResume)
         => s.target = "playing"

\* A stream belongs to the request whose data it is, and that request is held
\* by the sink or the stream is silent.
Belongs(c, s) ==
  s.owner # Null =>
    /\ data[s.owner] = c
    /\ Held(s.owner) \/ (phase[s.owner] = "gone" /\ Silent(s))

\* Inductive whether calls become active or not.
StreamInv ==
  /\ TypeOK
  /\ \A r \in Requests : Held(r) => data[r] \in Cells
  /\ \A c \in Cells : Alive(c) => Coherent(mem[c]) /\ Belongs(c, mem[c])

\* A stream without a request has a timer that frees it.
Restless(s) == s.owner = Null => s.stopping \/ s.fade = "stop"

\* A request that a call has cut off uses the cell by the address it kept.
Borrowed(c) == \E r \in cut : Held(r) /\ data[r] = c

\* Until a call has cut it off every held request has its own stream; a stream
\* without one has a timer, or is used and will be stopped by a borrower.
OwnInv ==
  /\ NoUseAfterFree
  /\ \A r \in Requests :
       Held(r) /\ r \notin cut => Alive(data[r]) /\ mem[data[r]].owner = r
  /\ \A c \in Cells : Alive(c) => Restless(mem[c]) \/ Borrowed(c)

-----------------------------------------------------------------------------
(* One stream.                                                              *)

\* What stands for another in its cell: the same owner, as coherent, as silent
\* and as restless.
Follows(s, t) ==
  /\ t \in Stream /\ t.owner = s.owner
  /\ Coherent(s) => Coherent(t)
  /\ Silent(s)   => Silent(t)

LEMMA PlayedFollows ==
  ASSUME NEW s \in Stream
  PROVE  Follows(s, Played(s))
<1> DEFINE t == Played(s)
<1>1. /\ s.set \in Setting
      /\ s.state \in {"notStarted", "playing", "paused", "stopped"}
      /\ s.fade \in {"none", "pause", "resume", "stop"}
  BY DEF Stream
<1>2. CASE ~s.set.enabled
  BY <1>2 DEF Stream, Played, Follows, Coherent, Silent
<1>3. CASE s.set.enabled /\ ~s.pipe
  BY <1>3 DEF Played, Follows
<1>4. CASE s.set.enabled /\ s.pipe
  <2>1. /\ t \in Stream
        /\ t.owner = s.owner /\ t.set = s.set /\ t.pipe = s.pipe
        /\ t.state = "playing" /\ ~t.stopping
        /\ t.target = IF s.state \in {"notStarted", "paused"} THEN "playing"
                                                              ELSE s.target
        /\ t.fade = IF s.state = "paused" /\ s.set.fadeResume THEN "resume"
                                                              ELSE s.fade
    BY <1>1, <1>4 DEF Stream, Played, ClearDelays
  <2> HIDE DEF t
  <2>2. ~Silent(s)
    BY <1>4 DEF Silent
  <2>3. ASSUME Coherent(s)
        PROVE  Coherent(t)
    BY <1>1, <1>4, <2>1, <2>3 DEF Coherent, Setting
  <2>4. QED
    BY <2>1, <2>2, <2>3 DEF Follows, t
<1>5. QED
  BY <1>1, <1>2, <1>3, <1>4

LEMMA PausedFollows ==
  ASSUME NEW s \in Stream
  PROVE  Follows(s, Paused(s))
<1> DEFINE t == Paused(s)
<1>1. CASE ~s.pipe \/ s.state # "playing"
  BY <1>1 DEF Paused, Follows
<1>2. CASE s.pipe /\ s.state = "playing"
  <2>1. /\ t \in Stream
        /\ t.owner = s.owner /\ t.set = s.set /\ t.pipe = s.pipe
        /\ t.state = "paused" /\ t.stopping = s.stopping
        /\ t.fade = IF s.set.fadePause THEN "pause" ELSE s.fade
    BY <1>2 DEF Stream, Paused
  <2> HIDE DEF t
  <2>2. ~Silent(s)
    BY <1>2 DEF Silent
  <2>3. ASSUME Coherent(s)
        PROVE  Coherent(t)
    BY <2>1, <2>3 DEF Coherent
  <2>4. QED
    BY <2>1, <2>2, <2>3 DEF Follows, t
<1>3. QED
  BY <1>1, <1>2

LEMMA CleanupFollows ==
  ASSUME NEW s \in Stream
  PROVE  Follows(s, Cleanup(s)) /\ (Restless(s) => Restless(Cleanup(s)))
BY DEF Stream, Cleanup, Follows, Coherent, Silent, Restless

LEMMA StoppingType ==
  ASSUME NEW s \in Stream
  PROVE  /\ Stopping(s) \in Stream /\ Stopping(s).owner = Null
         /\ Restless(Stopping(s))
BY DEF Stream, Stopping, ClearDelays, Restless

LEMMA NewStreamType ==
  ASSUME NEW r \in Requests, NEW set \in Setting
  PROVE  /\ NewStream(r, set) \in Stream /\ NewStream(r, set).owner = r
         /\ Coherent(NewStream(r, set)) /\ Restless(NewStream(r, set))
BY CellAssumption DEF NewStream, Stream, Setting, Coherent, Restless

LEMMA StillbornType ==
  ASSUME NEW r \in Requests, NEW set \in Setting, set.enabled
  PROVE  /\ Stillborn(r, set) \in Stream /\ Stillborn(r, set).owner = r
         /\ Coherent(Stillborn(r, set)) /\ Silent(Stillborn(r, set))
         /\ Restless(Stillborn(r, set))
BY CellAssumption
   DEF Stillborn, NewStream, Stream, Setting, Coherent, Silent, Restless

-----------------------------------------------------------------------------
(* One step.                                                                *)

\* The sink's own calls, and the calls of the core but prepare and stop, leave
\* the held requests held and the others as they are.
HeldSame ==
  /\ phase' \in [Requests -> Phases]
  /\ paused' \subseteq Requests /\ played' \subseteq Requests
  /\ \A r \in Requests :
       Held(r)' = Held(r) /\ (phase[r] = "gone" <=> phase'[r] = "gone")

LEMMA CallsKeepHeld ==
  ASSUME TypeOK, NEW r \in Requests \cup {Null},
         \/ TellsReady(r) \/ TellsDone(r) \/ TellsError(r)
         \/ UNCHANGED contractVars
  PROVE  HeldSame
<1>1. CASE TellsReady(r)
  BY <1>1 DEF TellsReady, Synchronizes, TypeOK, HeldSame, Held, Phases, contractVars
<1>2. CASE TellsDone(r)
  BY <1>2 DEF TellsDone, Completes, TypeOK, HeldSame, Held, Phases, contractVars
<1>3. CASE TellsError(r)
  BY <1>3 DEF TellsError, Fails, TypeOK, HeldSame, Held, Phases, contractVars
<1>4. CASE UNCHANGED contractVars
  BY <1>4 DEF TypeOK, HeldSame, Held, contractVars
<1>5. QED
  BY <1>1, <1>2, <1>3, <1>4

LEMMA CoreKeepsHeld ==
  ASSUME TypeOK, NEW r \in Requests, Plays(r) \/ Pauses(r) \/ Resumes(r)
  PROVE  HeldSame /\ Held(r)
BY DEF Plays, Pauses, Resumes, TypeOK, HeldSame, Held, Phases

\* A stream is changed, and keeps its owner.
LEMMA SetsKeeps ==
  ASSUME StreamInv, HeldSame, NEW c \in Cells, Alive(c),
         NEW s, Follows(mem[c], s), Sets(c, s)
  PROVE  /\ StreamInv'
         /\ OwnInv /\ (Restless(mem[c]) => Restless(s) \/ Borrowed(c)) => OwnInv'
<1>1. /\ mem' = [mem EXCEPT ![c] = s] /\ data' = data /\ active' = active
      /\ misused' = misused /\ cut' = cut
  BY DEF Sets
<1>2. TypeOK /\ Coherent(mem[c]) /\ Belongs(c, mem[c])
  BY DEF StreamInv
<1>3. s \in Stream /\ s # Null /\ s.owner = mem[c].owner
  BY StreamAssumption DEF Follows
<1>4. mem'[c] = s /\ \A d \in Cells \ {c} : mem'[d] = mem[d]
  BY <1>1, <1>2 DEF TypeOK
<1>5. TypeOK'
  <2>1. mem' \in [Cells -> Stream \cup {Null}]
    BY <1>1, <1>2, <1>3 DEF TypeOK
  <2>2. active' = {d \in Cells : mem'[d] # Null}
    BY <1>1, <1>2, <1>3, <1>4 DEF TypeOK, Alive
  <2>3. QED
    BY <1>1, <1>2, <2>1, <2>2 DEF TypeOK, HeldSame
<1>6. \A d \in Cells : Alive(d)' = Alive(d)
  BY <1>3, <1>4 DEF Alive
<1>7. \A d \in Cells : Alive(d) => mem[d].owner \in Requests \cup {Null}
  BY <1>2 DEF TypeOK, Alive, Stream
<1>8. Coherent(s) /\ Belongs(c, s)'
  BY <1>1, <1>2, <1>3, <1>7 DEF Follows, Belongs, HeldSame
<1>9. \A d \in Cells \ {c} : Alive(d) => Coherent(mem[d]) /\ Belongs(d, mem[d])'
  <2>1. SUFFICES ASSUME NEW d \in Cells \ {c}, Alive(d)
                 PROVE  Coherent(mem[d]) /\ Belongs(d, mem[d])'
    OBVIOUS
  <2>2. Coherent(mem[d]) /\ Belongs(d, mem[d])
    BY <2>1 DEF StreamInv
  <2>3. mem'[d] = mem[d] /\ mem[d].owner \in Requests \cup {Null}
    BY <1>4, <1>7, <2>1
  <2>4. QED
    BY <1>1, <2>2, <2>3 DEF Belongs, HeldSame
<1>10. \A d \in Cells : Alive(d)' => Coherent(mem[d])' /\ Belongs(d, mem[d])'
  <2>1. SUFFICES ASSUME NEW d \in Cells, Alive(d)
                 PROVE  Coherent(mem'[d]) /\ Belongs(d, mem[d])'
    BY <1>6 DEF Coherent
  <2>2. CASE d = c
    BY <1>4, <1>8, <2>2 DEF Belongs
  <2>3. CASE d # c
    BY <1>4, <1>9, <2>1, <2>3 DEF Belongs
  <2>4. QED
    BY <2>2, <2>3
<1>11. StreamInv'
  BY <1>1, <1>5, <1>10 DEF StreamInv, HeldSame
<1>12. ASSUME OwnInv, Restless(mem[c]) => Restless(s) \/ Borrowed(c)
       PROVE  OwnInv'
  <2>1. \A d \in Cells : Borrowed(d)' = Borrowed(d)
    BY <1>1, <1>2 DEF Borrowed, HeldSame, TypeOK
  <2>2. \A d \in Cells : Alive(d) => Restless(mem'[d]) \/ Borrowed(d)
    BY <1>4, <1>12 DEF OwnInv
  <2>3. \A d \in Cells : Alive(d) => mem'[d].owner = mem[d].owner
    BY <1>3, <1>4
  <2>4. \A r \in Requests : Held(r)' /\ r \notin cut' =>
                              Alive(data[r])' /\ mem'[data[r]].owner = r
    BY <1>1, <1>6, <1>12, <2>3 DEF OwnInv, HeldSame, StreamInv
  <2>5. QED
    BY <1>1, <1>6, <1>12, <2>1, <2>2, <2>4
       DEF OwnInv, Restless, NoUseAfterFree
<1>13. QED
  BY <1>11, <1>12

\* No stream is touched; only whether one was misused may change.
LEMMA NothingKeeps ==
  ASSUME StreamInv, HeldSame, UNCHANGED <<data, mem, active, cut>>,
         misused' \subseteq Requests \X {"play", "pause", "stop"}
  PROVE  StreamInv' /\ (OwnInv /\ NoUseAfterFree' => OwnInv')
<1>1. \A c \in Cells : Alive(c) => mem[c].owner \in Requests \cup {Null}
  BY DEF StreamInv, TypeOK, Alive, Stream
<1>2. TypeOK'
  BY DEF StreamInv, TypeOK, HeldSame
<1>3. \A c \in Cells : Alive(c)' => Coherent(mem[c])' /\ Belongs(c, mem[c])'
  BY <1>1 DEF StreamInv, Alive, Coherent, Belongs, HeldSame
<1>4. StreamInv'
  BY <1>2, <1>3 DEF StreamInv, HeldSame
<1>5. ASSUME OwnInv, NoUseAfterFree'
      PROVE  OwnInv'
  <2>1. \A c \in Cells : Borrowed(c) => Borrowed(c)'
    BY DEF Borrowed, HeldSame, StreamInv, TypeOK
  <2>2. QED
    BY <1>5, <2>1 DEF OwnInv, HeldSame, Alive, Restless
<1>6. QED
  BY <1>4, <1>5

\* A stream is freed; that one which no request has takes nobody's.
LEMMA FreesKeeps ==
  ASSUME StreamInv, HeldSame, NEW c \in Cells, Alive(c), Frees(c)
  PROVE  StreamInv' /\ (OwnInv /\ mem[c].owner = Null => OwnInv')
<1>1. /\ mem' = [mem EXCEPT ![c] = Null] /\ active' = active \ {c}
      /\ data' = data /\ misused' = misused /\ cut' = cut
  BY DEF Frees
<1>2. TypeOK
  BY DEF StreamInv
<1>3. mem'[c] = Null /\ \A d \in Cells \ {c} : mem'[d] = mem[d]
  BY <1>1, <1>2 DEF TypeOK
<1>4. \A d \in Cells : Alive(d)' <=> Alive(d) /\ d # c
  BY <1>3 DEF Alive
<1>5. TypeOK'
  BY <1>1, <1>2, <1>3 DEF TypeOK, HeldSame
<1>6. ASSUME NEW d \in Cells, Alive(d)'
      PROVE  Coherent(mem[d])' /\ Belongs(d, mem[d])'
  <2>1. mem'[d] = mem[d] /\ Alive(d) /\ mem[d].owner \in Requests \cup {Null}
    BY <1>2, <1>3, <1>4, <1>6 DEF TypeOK, Alive, Stream
  <2>2. Coherent(mem[d]) /\ Belongs(d, mem[d])
    BY <2>1 DEF StreamInv
  <2>3. QED
    BY <1>1, <2>1, <2>2 DEF Coherent, Belongs, HeldSame
<1>7. StreamInv'
  BY <1>1, <1>5, <1>6 DEF StreamInv, HeldSame
<1>8. ASSUME OwnInv, mem[c].owner = Null
      PROVE  OwnInv'
  <2>1. ASSUME NEW r \in Requests, Held(r)', r \notin cut'
        PROVE  Alive(data[r])' /\ mem'[data[r]].owner = r
    <3>1. Held(r) /\ data[r] \in Cells /\ Alive(data[r]) /\ mem[data[r]].owner = r
      BY <1>1, <1>8, <2>1 DEF OwnInv, HeldSame, StreamInv
    <3>2. data[r] # c
      BY <1>8, <3>1, CellAssumption
    <3>3. QED
      BY <1>1, <1>3, <1>4, <3>1, <3>2
  <2>2. ASSUME NEW d \in Cells, Alive(d)'
        PROVE  Restless(mem[d])' \/ Borrowed(d)'
    <3>1. Borrowed(d) => Borrowed(d)'
      BY <1>1, <1>2 DEF Borrowed, HeldSame, TypeOK
    <3>2. QED
      BY <1>3, <1>4, <1>8, <2>2, <3>1 DEF OwnInv, Restless
  <2>3. QED
    BY <1>1, <1>8, <2>1, <2>2 DEF OwnInv, NoUseAfterFree
<1>9. QED
  BY <1>7, <1>8

-----------------------------------------------------------------------------
(* The calls of the core.                                                   *)

\* Every step keeps StreamInv, and both together.
Keeps == StreamInv' /\ (OwnInv => OwnInv')

LEMMA PlayKeeps ==
  ASSUME StreamInv, HeldSame, NEW r \in Requests, Held(r), Play(r)
  PROVE  Keeps
<1>1. PICK c \in Cells : c = data[r]
  BY DEF StreamInv
<1>2. CASE mem[c] = Null
  <2>1. Misuses(r, "play")
    BY <1>1, <1>2 DEF Play
  <2>2. OwnInv => NoUseAfterFree'
    BY <1>1, <1>2, <2>1 DEF OwnInv, Alive, NoUseAfterFree, Misuses
  <2>3. QED
    BY <2>1, <2>2, NothingKeeps DEF Misuses, Keeps
<1>3. CASE mem[c] # Null
  <2>1. mem[c] \in Stream
    BY <1>3 DEF StreamInv, TypeOK
  <2>2. Follows(mem[c], Played(mem[c]))
    BY <2>1, PlayedFollows
  <2>3. Sets(c, Played(mem[c]))
    BY <1>1, <1>3 DEF Play
  <2>4. OwnInv => Restless(Played(mem[c])) \/ Borrowed(c)
    <3>1. CASE r \in cut
      BY <1>1, <3>1 DEF Borrowed
    <3>2. CASE r \notin cut
      BY <1>1, <2>2, <3>2, CellAssumption DEF OwnInv, Follows, Restless
    <3>3. QED
      BY <3>1, <3>2
  <2>5. QED
    BY <1>3, <2>2, <2>3, <2>4, SetsKeeps DEF Keeps, Alive
<1>4. QED
  BY <1>2, <1>3

LEMMA StartKeeps ==
  ASSUME StreamInv, NEW r \in Requests, Start(r)
  PROVE  Keeps
BY CoreKeepsHeld, PlayKeeps DEF Start, StreamInv

LEMMA ResumeKeeps ==
  ASSUME StreamInv, NEW r \in Requests, Resume(r)
  PROVE  Keeps
BY CoreKeepsHeld, PlayKeeps DEF Resume, StreamInv

LEMMA PauseKeeps ==
  ASSUME StreamInv, NEW r \in Requests, Pause(r)
  PROVE  Keeps
<1>1. HeldSame /\ Held(r)
  BY CoreKeepsHeld DEF Pause, StreamInv
<1>2. PICK c \in Cells : c = data[r]
  BY <1>1 DEF StreamInv
<1>3. CASE mem[c] = Null
  <2>1. Misuses(r, "pause")
    BY <1>2, <1>3 DEF Pause
  <2>2. OwnInv => NoUseAfterFree'
    BY <1>1, <1>2, <1>3, <2>1 DEF OwnInv, Alive, NoUseAfterFree, Misuses
  <2>3. QED
    BY <1>1, <2>1, <2>2, NothingKeeps DEF Misuses, Keeps
<1>4. CASE mem[c] # Null
  <2>1. mem[c] \in Stream
    BY <1>4 DEF StreamInv, TypeOK
  <2>2. Follows(mem[c], Paused(mem[c]))
    BY <2>1, PausedFollows
  <2>3. Sets(c, Paused(mem[c]))
    BY <1>2, <1>4 DEF Pause
  <2>4. OwnInv => Restless(Paused(mem[c])) \/ Borrowed(c)
    <3>1. CASE r \in cut
      BY <1>1, <1>2, <3>1 DEF Borrowed
    <3>2. CASE r \notin cut
      BY <1>1, <1>2, <2>2, <3>2, CellAssumption DEF OwnInv, Follows, Restless
    <3>3. QED
      BY <3>1, <3>2
  <2>5. QED
    BY <1>1, <1>4, <2>2, <2>3, <2>4, SetsKeeps DEF Keeps, Alive
<1>5. QED
  BY <1>3, <1>4

LEMMA EndAttemptsKeeps ==
  ASSUME StreamInv, EndAttempts
  PROVE  Keeps
<1>1. HeldSame
  BY DEF EndAttempts, Ends, StreamInv, TypeOK, HeldSame, Held, Phases
<1>2. QED
  BY <1>1, NothingKeeps
     DEF EndAttempts, streamVars, StreamInv, TypeOK, Keeps, OwnInv, NoUseAfterFree

\* A free cell gets the stream of r, held or, if no pipeline could be made,
\* silent.
LEMMA PrepareKeeps ==
  ASSUME StreamInv, NEW r \in Requests, Prepare(r)
  PROVE  Keeps
<1>1. PICK c \in Cells, set \in Settings :
        /\ mem[c] = Null
        /\ data' = [data EXCEPT ![r] = c]
        /\ active' = active \cup {c}
        /\ \/ Prepares(r) /\ mem' = [mem EXCEPT ![c] = NewStream(r, set)]
           \/ /\ set.enabled /\ Refused(r)
              /\ mem' = [mem EXCEPT ![c] = Stillborn(r, set)]
        /\ misused' = misused /\ cut' = cut
  BY DEF Prepare
<1>2. TypeOK /\ set \in Setting
  BY StreamAssumption DEF StreamInv
<1>3. PICK s \in Stream :
        /\ mem' = [mem EXCEPT ![c] = s]
        /\ s.owner = r /\ Coherent(s) /\ Restless(s)
        /\ \/ Prepares(r)
           \/ Refused(r) /\ Silent(s)
  BY <1>1, <1>2, NewStreamType, StillbornType
<1>4. /\ phase[r] = "none" /\ UNCHANGED <<paused, played>>
      /\ phase' \in [Requests -> Phases]
      /\ Held(r)' \/ (phase'[r] = "gone" /\ Silent(s))
      /\ \A q \in Requests \ {r} : phase'[q] = phase[q]
  BY <1>2, <1>3 DEF Prepares, Refused, TypeOK, Phases, Held
<1>5. /\ mem'[c] = s /\ \A d \in Cells \ {c} : mem'[d] = mem[d]
      /\ data'[r] = c /\ \A q \in Requests \ {r} : data'[q] = data[q]
  BY <1>1, <1>2, <1>3 DEF TypeOK
<1>6. \A d \in Cells : Alive(d)' <=> Alive(d) \/ d = c
  BY <1>1, <1>5, StreamAssumption DEF Alive
<1>7. TypeOK'
  <2>1. mem' \in [Cells -> Stream \cup {Null}]
    BY <1>2, <1>3 DEF TypeOK
  <2>2. active' = {d \in Cells : mem'[d] # Null}
    BY <1>1, <1>2, <1>6 DEF TypeOK, Alive
  <2>3. data' \in [Requests -> Cells \cup {Null}]
    BY <1>1, <1>2 DEF TypeOK
  <2>4. QED
    BY <1>1, <1>2, <1>4, <2>1, <2>2, <2>3 DEF TypeOK
<1>8. ASSUME NEW d \in Cells, Alive(d)'
      PROVE  Coherent(mem'[d]) /\ Belongs(d, mem[d])'
  <2>1. CASE d = c
    BY <1>3, <1>4, <1>5, <2>1 DEF Belongs
  <2>2. CASE d # c
    <3>1. mem'[d] = mem[d] /\ Alive(d) /\ mem[d].owner \in Requests \cup {Null}
      BY <1>2, <1>5, <1>6, <1>8, <2>2 DEF TypeOK, Alive, Stream
    <3>2. Coherent(mem[d]) /\ Belongs(d, mem[d])
      BY <3>1 DEF StreamInv
    <3>3. mem[d].owner # r
      BY <1>4, <3>2, CellAssumption DEF Belongs, Held
    <3>4. QED
      BY <1>4, <1>5, <3>1, <3>2, <3>3 DEF Belongs, Held
  <2>3. QED
    BY <2>1, <2>2
<1>9. \A q \in Requests : Held(q)' => data'[q] \in Cells
  BY <1>4, <1>5 DEF StreamInv, Held
<1>10. StreamInv'
  BY <1>7, <1>8, <1>9 DEF StreamInv, Coherent
<1>11. ASSUME OwnInv
       PROVE  OwnInv'
  <2>1. ASSUME NEW q \in Requests, Held(q)', q \notin cut'
        PROVE  Alive(data[q])' /\ mem'[data'[q]].owner = q
    <3>1. CASE q = r
      BY <1>3, <1>5, <1>6, <3>1 DEF Alive
    <3>2. CASE q # r
      <4>1. Held(q) /\ data'[q] = data[q] /\ data[q] \in Cells
        BY <1>4, <1>5, <2>1, <3>2 DEF Held, StreamInv
      <4>2. Alive(data[q]) /\ mem[data[q]].owner = q /\ data[q] # c
        BY <1>1, <1>11, <2>1, <4>1 DEF OwnInv, Alive
      <4>3. QED
        BY <1>5, <4>1, <4>2 DEF Alive
    <3>3. QED
      BY <3>1, <3>2
  <2>2. ASSUME NEW d \in Cells, Alive(d)'
        PROVE  Restless(mem'[d]) \/ Borrowed(d)'
    <3>1. Borrowed(d) => Borrowed(d)'
      BY <1>1, <1>2, <1>4, <1>5 DEF Borrowed, Held, TypeOK
    <3>2. QED
      BY <1>3, <1>5, <1>6, <1>11, <2>2, <3>1 DEF OwnInv
  <2>3. QED
    BY <1>1, <1>11, <2>1, <2>2 DEF OwnInv, Restless, NoUseAfterFree
<1>12. QED
  BY <1>10, <1>11 DEF Keeps

\* The stream of r is freed, or lets go of r and goes on to its end.
LEMMA StopKeeps ==
  ASSUME StreamInv, NEW r \in Requests, Stop(r)
  PROVE  Keeps
<1>1. /\ phase[r] = "ending" /\ phase' = [phase EXCEPT ![r] = "gone"]
      /\ paused' = paused \ {r} /\ played' = played \ {r}
      /\ data' = [data EXCEPT ![r] = Null] /\ misused' = misused
  BY DEF Stop, Stops
<1>2. TypeOK
  BY DEF StreamInv
<1>3. /\ phase'[r] = "gone" /\ Held(r) /\ ~Held(r)'
      /\ \A q \in Requests \ {r} : /\ phase'[q] = phase[q]
                                   /\ data'[q] = data[q]
  BY <1>1, <1>2 DEF TypeOK, Held
<1>4. PICK c \in Cells : c = data[r]
  BY <1>3 DEF StreamInv
<1>5. \A d \in Cells \ {c} : mem'[d] = mem[d]
  BY <1>2, <1>4 DEF Stop, TypeOK
<1>6. mem'[c] = Null \/ /\ Alive(c) /\ mem'[c] \in Stream
                        /\ mem'[c].owner = Null /\ Restless(mem'[c])
  BY <1>2, <1>4, StoppingType DEF Stop, TypeOK, Alive
<1>7. /\ mem' \in [Cells -> Stream \cup {Null}]
      /\ active' = {d \in Cells : mem'[d] # Null}
  <2>1. CASE c \notin active
    BY <1>2, <1>4, <2>1 DEF Stop, TypeOK
  <2>2. CASE c \in active /\ StopsLater(mem[c])
    <3>1. mem' = [mem EXCEPT ![c] = Stopping(mem[c])] /\ active' = active
      BY <1>4, <2>2 DEF Stop
    <3>2. mem[c] \in Stream
      BY <1>2, <2>2 DEF TypeOK
    <3>3. Stopping(mem[c]) \in Stream /\ Stopping(mem[c]) # Null
      BY <3>2, StoppingType, StreamAssumption
    <3>4. QED
      BY <1>2, <2>2, <3>1, <3>3 DEF TypeOK
  <2>3. CASE c \in active /\ ~StopsLater(mem[c])
    BY <1>2, <1>4, <2>3 DEF Stop, TypeOK
  <2>4. QED
    BY <2>1, <2>2, <2>3
<1>8. TypeOK'
  <2>0. cut' \subseteq Requests
    <3>1. CASE c \notin active
      BY <1>2, <1>4, <3>1 DEF Stop, TypeOK
    <3>2. CASE c \in active
      BY <1>2, <1>4, <3>2 DEF Stop, TypeOK, OwnersIn, Stream
    <3>3. QED
      BY <3>1, <3>2
  <2>1. data' \in [Requests -> Cells \cup {Null}] /\ phase' \in [Requests -> Phases]
    BY <1>1, <1>2 DEF TypeOK, Phases
  <2>2. QED
    BY <1>1, <1>2, <1>7, <2>0, <2>1 DEF TypeOK
<1>9. ASSUME NEW d \in Cells, Alive(d)'
      PROVE  Coherent(mem'[d]) /\ Belongs(d, mem[d])'
  <2>1. CASE d = c
    BY <1>6, <1>9, <2>1 DEF Alive, Coherent, Belongs
  <2>2. CASE d # c
    <3>1. mem'[d] = mem[d] /\ Alive(d) /\ mem[d].owner \in Requests \cup {Null}
      BY <1>2, <1>5, <1>9, <2>2 DEF TypeOK, Alive, Stream
    <3>2. Coherent(mem[d]) /\ Belongs(d, mem[d])
      BY <3>1 DEF StreamInv
    <3>3. mem[d].owner # r
      BY <1>4, <2>2, <3>2, CellAssumption DEF Belongs
    <3>4. QED
      BY <1>3, <3>1, <3>2, <3>3 DEF Belongs, Held
  <2>3. QED
    BY <2>1, <2>2
<1>10. StreamInv'
  BY <1>3, <1>8, <1>9 DEF StreamInv, Coherent, Held
<1>11. ASSUME OwnInv
       PROVE  OwnInv'
  <2>1. cut \subseteq cut'
    BY DEF Stop
  <2>2. ASSUME NEW q \in Requests, Held(q)', q \notin cut'
        PROVE  Alive(data[q])' /\ mem'[data'[q]].owner = q
    <3>1. q # r /\ Held(q) /\ data'[q] = data[q] /\ data[q] \in Cells
      BY <1>3, <2>2 DEF Held, StreamInv
    <3>2. Alive(data[q]) /\ mem[data[q]].owner = q
      BY <1>11, <2>1, <2>2, <3>1 DEF OwnInv
    <3>3. data[q] # c
      <4>1. SUFFICES ASSUME data[q] = c
                     PROVE  FALSE
        OBVIOUS
      <4>2. c \in active
        BY <1>2, <3>2, <4>1 DEF TypeOK, Alive
      <4>3. cut' = cut \cup (OwnersIn({c}) \ {r})
        BY <1>4, <4>2 DEF Stop
      <4>4. q \in OwnersIn({c})
        BY <3>2, <4>1, CellAssumption DEF OwnersIn
      <4>5. QED
        BY <2>2, <3>1, <4>3, <4>4
    <3>4. QED
      BY <1>5, <3>1, <3>2, <3>3 DEF Alive
  <2>3. ASSUME NEW d \in Cells, Alive(d)'
        PROVE  Restless(mem'[d]) \/ Borrowed(d)'
    <3>1. CASE d = c
      BY <1>6, <2>3, <3>1 DEF Alive
    <3>2. CASE d # c
      <4>1. Borrowed(d) => Borrowed(d)'
        BY <1>2, <1>3, <1>4, <2>1, <3>2 DEF Borrowed, Held, TypeOK
      <4>2. QED
        BY <1>5, <1>11, <2>3, <3>2, <4>1 DEF OwnInv, Alive
    <3>3. QED
      BY <3>1, <3>2
  <2>4. QED
    BY <1>1, <1>11, <2>1, <2>2, <2>3 DEF OwnInv, Restless, NoUseAfterFree
<1>12. QED
  BY <1>10, <1>11 DEF Keeps

\* Every stream is freed; the requests keep their pointers and are cut off.
LEMMA CallActiveKeeps ==
  ASSUME StreamInv, CallActive
  PROVE  Keeps
<1>1. /\ active' = {} /\ UNCHANGED <<data, misused, phase, paused, played>>
      /\ mem' = [c \in Cells |-> IF c \in active THEN Null ELSE mem[c]]
      /\ cut' = cut \cup OwnersIn(active)
  BY DEF CallActive, contractVars
<1>2. \A c \in Cells : mem'[c] = Null
  BY <1>1 DEF StreamInv, TypeOK
<1>3. OwnersIn(active) \subseteq Requests
  BY DEF StreamInv, TypeOK, OwnersIn, Stream
<1>4. StreamInv'
  BY <1>1, <1>2, <1>3 DEF StreamInv, TypeOK, Alive, Held
<1>5. ASSUME OwnInv
      PROVE  OwnInv'
  <2>1. ASSUME NEW r \in Requests, Held(r), r \notin cut
        PROVE  r \in OwnersIn(active)
    <3>1. data[r] \in Cells /\ Alive(data[r]) /\ mem[data[r]].owner = r
      BY <1>5, <2>1 DEF OwnInv, StreamInv
    <3>2. data[r] \in active
      BY <3>1 DEF StreamInv, TypeOK, Alive
    <3>3. QED
      BY <3>1, <3>2, CellAssumption DEF OwnersIn
  <2>2. QED
    BY <1>1, <1>2, <1>5, <2>1 DEF OwnInv, NoUseAfterFree, Alive, Held
<1>6. QED
  BY <1>4, <1>5 DEF Keeps

-----------------------------------------------------------------------------
(* Messages and timers.                                                     *)

\* A stream that has something going on is replaced by what follows it.
LEMMA EventKeeps ==
  ASSUME StreamInv, NEW c \in Cells, Alive(c), NEW s, Sets(c, s),
         NEW r \in Requests \cup {Null},
         \/ TellsReady(r) \/ TellsDone(r) \/ TellsError(r)
         \/ UNCHANGED contractVars,
         Follows(mem[c], s), Restless(mem[c]) => Restless(s)
  PROVE  Keeps
BY CallsKeepHeld, SetsKeeps DEF Keeps, StreamInv

LEMMA MessageKeeps ==
  ASSUME StreamInv, NEW c \in Cells,
         Preroll(c) \/ Drain(c) \/ Eos(c) \/ Error(c)
  PROVE  Keeps
<1>1. Alive(c) /\ mem[c] \in Stream /\ mem[c].owner \in Requests \cup {Null}
  BY DEF StreamInv, TypeOK, Alive, Stream, Preroll, Drain, Eos, Error
<1> DEFINE s == mem[c]
<1>2. CASE Preroll(c)
  <2>1. PICK t \in {[s EXCEPT !.ready = TRUE, !.pending = FALSE],
                    [s EXCEPT !.ready = TRUE]} :
          Sets(c, t) /\ (TellsReady(s.owner) \/ UNCHANGED contractVars)
    BY <1>2 DEF Preroll
  <2>2. Follows(s, t) /\ (Restless(s) => Restless(t))
    BY <1>1 DEF Stream, Follows, Coherent, Silent, Restless
  <2>3. QED
    BY <1>1, <2>1, <2>2, EventKeeps
<1>3. CASE Drain(c)
  <2>1. PICK t \in {[s EXCEPT !.eos = TRUE]} :
          Sets(c, t) /\ UNCHANGED contractVars
    BY <1>3 DEF Drain
  <2>2. Follows(s, t) /\ (Restless(s) => Restless(t))
    BY <1>1 DEF Stream, Follows, Coherent, Silent, Restless
  <2>3. QED
    BY <1>1, <2>1, <2>2, EventKeeps
<1>4. CASE Eos(c)
  <2>1. PICK t \in {[s EXCEPT !.eos = FALSE], Cleanup(s)} :
          Sets(c, t) /\ (TellsDone(s.owner) \/ UNCHANGED contractVars)
    BY <1>4 DEF Eos
  <2>2. CASE t = [s EXCEPT !.eos = FALSE]
    <3>1. Follows(s, t) /\ (Restless(s) => Restless(t))
      BY <1>1, <2>2 DEF Stream, Follows, Coherent, Silent, Restless
    <3>2. QED
      BY <1>1, <2>1, <3>1, EventKeeps
  <2>3. CASE t = Cleanup(s)
    BY <1>1, <2>1, <2>3, CleanupFollows, EventKeeps
  <2>4. QED
    BY <2>1, <2>2, <2>3
<1>5. CASE Error(c)
  <2>1. PICK t \in {[s EXCEPT !.watch = FALSE]} :
          Sets(c, t) /\ TellsError(s.owner)
    BY <1>5 DEF Error
  <2>2. Follows(s, t) /\ (Restless(s) => Restless(t))
    BY <1>1 DEF Stream, Follows, Coherent, Silent, Restless
  <2>3. QED
    BY <1>1, <2>1, <2>2, EventKeeps
<1>6. QED
  BY <1>2, <1>3, <1>4, <1>5

LEMMA TimerKeeps ==
  ASSUME StreamInv, NEW c \in Cells,
         \/ DelayedSynchronize(c) \/ FakeComplete(c) \/ FadeEnds(c)
         \/ DelayedStop(c)
  PROVE  Keeps
<1>1. Alive(c) /\ mem[c] \in Stream /\ mem[c].owner \in Requests \cup {Null}
  BY DEF StreamInv, TypeOK, Alive, Stream,
         DelayedSynchronize, FakeComplete, FadeEnds, DelayedStop
<1>2. Coherent(mem[c])
  BY <1>1 DEF StreamInv
<1>3. UNCHANGED contractVars => HeldSame
  BY CallsKeepHeld, CellAssumption DEF StreamInv
<1> DEFINE s == mem[c]
<1>4. CASE DelayedSynchronize(c)
  <2>1. PICK t \in {[s EXCEPT !.delaySync = FALSE],
                    [s EXCEPT !.delaySync = FALSE, !.pending = TRUE]} :
          Sets(c, t) /\ (TellsReady(s.owner) \/ UNCHANGED contractVars)
    <3>1. [[s EXCEPT !.delaySync = FALSE] EXCEPT !.pending = TRUE]
            = [s EXCEPT !.delaySync = FALSE, !.pending = TRUE]
      OBVIOUS
    <3>2. QED
      BY <1>4, <3>1 DEF DelayedSynchronize
  <2>2. Follows(s, t) /\ (Restless(s) => Restless(t))
    BY <1>1 DEF Stream, Follows, Coherent, Silent, Restless
  <2>3. QED
    BY <1>1, <2>1, <2>2, EventKeeps
<1>5. CASE FakeComplete(c)
  <2>1. PICK t \in {[s EXCEPT !.fakePlay = FALSE]} :
          Sets(c, t) /\ TellsDone(s.owner)
    BY <1>5 DEF FakeComplete
  <2>2. Follows(s, t) /\ (Restless(s) => Restless(t))
    BY <1>1 DEF Stream, Follows, Coherent, Silent, Restless
  <2>3. QED
    BY <1>1, <2>1, <2>2, EventKeeps
<1>6. CASE FadeEnds(c) /\ s.fade = "stop"
  BY <1>1, <1>2, <1>3, <1>6, FreesKeeps DEF FadeEnds, Coherent, Keeps
<1>7. CASE FadeEnds(c) /\ s.fade = "resume"
  <2>1. PICK t \in {[s EXCEPT !.fade = "none"]} :
          Sets(c, t) /\ UNCHANGED contractVars
    BY <1>7 DEF FadeEnds
  <2>2. Follows(s, t) /\ (Restless(s) => Restless(t))
    BY <1>1, <1>7 DEF Stream, Follows, Coherent, Silent, Restless
  <2>3. QED
    BY <1>1, <2>1, <2>2, EventKeeps
<1>8. CASE FadeEnds(c) /\ s.fade = "pause"
  <2>1. PICK t \in {[s EXCEPT !.fade = "none",
                              !.target = IF s.pipe THEN "paused" ELSE s.target]} :
          Sets(c, t) /\ UNCHANGED contractVars
    BY <1>8 DEF FadeEnds
  <2>2. /\ t \in Stream /\ t.owner = s.owner /\ t.set = s.set /\ t.fade = "none"
        /\ t.state = s.state /\ t.stopping = s.stopping /\ t.pipe = s.pipe
    BY <1>1 DEF Stream
  <2>3. Coherent(t) /\ (Restless(s) => Restless(t))
    BY <1>2, <1>8, <2>2 DEF Coherent, Restless
  <2>4. Follows(s, t)
    BY <1>8, <2>2, <2>3 DEF Follows, Silent
  <2>5. QED
    BY <1>1, <2>1, <2>3, <2>4, EventKeeps
<1>9. CASE DelayedStop(c)
  BY <1>1, <1>2, <1>3, <1>9, FreesKeeps DEF DelayedStop, Coherent, Keeps
<1>10. s.fade \in {"none", "pause", "resume", "stop"}
  BY <1>1 DEF Stream
<1>11. QED
  BY <1>4, <1>5, <1>6, <1>7, <1>8, <1>9, <1>10 DEF FadeEnds

-----------------------------------------------------------------------------
(* The theorems.                                                            *)

LEMMA InitHolds == Init => StreamInv /\ OwnInv
BY CellAssumption
   DEF Init, ContractInit, StreamInv, OwnInv, NoUseAfterFree, TypeOK, Alive,
       Held, Phases

LEMMA NextKeeps == StreamInv /\ [Next]_vars => Keeps
<1> SUFFICES ASSUME StreamInv, [Next]_vars
             PROVE  Keeps
  OBVIOUS
<1>1. CASE EndAttempts \/ CallActive
  BY <1>1, EndAttemptsKeeps, CallActiveKeeps
<1>2. CASE \E r \in Requests :
             Prepare(r) \/ Start(r) \/ Resume(r) \/ Pause(r) \/ Stop(r)
  BY <1>2, PrepareKeeps, StartKeeps, ResumeKeeps, PauseKeeps, StopKeeps
<1>3. CASE \E c \in Cells :
             \/ Preroll(c) \/ Drain(c) \/ Eos(c) \/ Error(c)
             \/ DelayedSynchronize(c) \/ FakeComplete(c) \/ FadeEnds(c)
             \/ DelayedStop(c)
  BY <1>3, MessageKeeps, TimerKeeps
<1>4. CASE UNCHANGED vars
  <2>1. UNCHANGED <<contractVars, data, mem, active, misused, cut>>
    BY <1>4 DEF vars, streamVars
  <2>2. HeldSame
    BY <2>1, CallsKeepHeld, CellAssumption DEF StreamInv
  <2>3. QED
    BY <2>1, <2>2, NothingKeeps
       DEF Keeps, StreamInv, TypeOK, OwnInv, NoUseAfterFree
<1>5. QED
  BY <1>1, <1>2, <1>3, <1>4 DEF Next

LEMMA StreamInvHolds == Spec => []StreamInv
<1>1. Init => StreamInv
  BY InitHolds
<1>2. StreamInv /\ [Next]_vars => StreamInv'
  BY NextKeeps DEF Keeps
<1>3. QED
  BY <1>1, <1>2, PTL DEF Spec

LEMMA OwnInvHolds == Spec => [](StreamInv /\ OwnInv)
<1>1. Init => StreamInv /\ OwnInv
  BY InitHolds
<1>2. StreamInv /\ OwnInv /\ [Next]_vars => StreamInv' /\ OwnInv'
  BY NextKeeps DEF Keeps
<1>3. QED
  BY <1>1, <1>2, PTL DEF Spec

\* A stream that may still call the core (from a watch, the start-up delay or
\* the end of silence) has let go of its request or its request is held,
\* although stop puts the end of a stream off and also when calls free them.
THEOREM StreamsLetGo == Spec => []SourcesOwned
<1>1. StreamInv => SourcesOwned
  BY DEF StreamInv, SourcesOwned, Belongs, Silent
<1>2. QED
  BY <1>1, StreamInvHolds, PTL

\* Pausing, resuming and the ends of fades in any order leave the pipeline of a
\* playing request playing.
THEOREM PlayingSounds == Spec => []PipelineFollows
<1>1. StreamInv => PipelineFollows
  <2> SUFFICES ASSUME StreamInv, NEW r \in Requests, HasStream(r),
                      mem[data[r]].owner = r, mem[data[r]].state = "playing",
                      mem[data[r]].set.fadePause => mem[data[r]].set.fadeResume,
                      mem[data[r]].pipe
               PROVE  mem[data[r]].target = "playing"
    BY DEF PipelineFollows
  <2>1. data[r] \in Cells /\ Alive(data[r])
    BY DEF StreamInv, HasStream
  <2>2. QED
    BY <2>1, CellAssumption DEF StreamInv, Coherent
<1>2. QED
  BY <1>1, StreamInvHolds, PTL

\* gst_sink_play and gst_sink_pause use a stream that was freed only for a
\* request that a call has cut off, and gst_sink_stop never does: whatever
\* calls, late stops and fades free, and whoever gets the memory next.
THEOREM StreamsAreThere == Spec => []NoUseAfterFree
<1>1. OwnInv => NoUseAfterFree
  BY DEF OwnInv
<1>2. QED
  BY <1>1, OwnInvHolds, PTL

\* A request that was not cut off has its own stream until it is stopped: the
\* stop of another request that holds an old address of the same memory cuts
\* it off, nothing else but a call does.
THEOREM StopsFindTheirs == Spec => []StopsOwnStream
<1>1. StreamInv /\ OwnInv => StopsOwnStream
  BY DEF StreamInv, TypeOK, Alive, OwnInv, StopsOwnStream
<1>2. QED
  BY <1>1, OwnInvHolds, PTL

\* And no sound is left over: a stream without a request has a timer, or a
\* request that was cut off has taken it for its own and will stop it.
THEOREM SoundsAreFreed == Spec => []StopsInTheEnd
<1>1. StreamInv /\ OwnInv => StopsInTheEnd
  BY DEF StreamInv, OwnInv, StopsInTheEnd, Belongs, Silent, Restless, Borrowed
<1>2. QED
  BY <1>1, OwnInvHolds, PTL
=============================================================================
