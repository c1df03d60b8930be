--------------------------- MODULE DbusInputProofs ---------------------------
(***************************************************************************)
(* Theorems about DbusInput for every set of clients and of requests, also *)
(* infinite ones, and for every pair of limits.                            *)
(***************************************************************************)
EXTENDS DbusInput, TLAPS, FiniteSetTheorems

\* A client keeps finitely many requests open, and there are finitely many.
Finite ==
  /\ IsFiniteSet(clients)
  /\ \A c \in Clients : IsFiniteSet(OpenOf(c))

\* Whoever has a request open is on the list of clients or has left.
OwnersAreKnown == \A r \in Requests : Open(r) => owner[r] \in clients \cup gone

\* A request that no lookup finds, because it never had a sink, is ending.
UnlistedAreEnding == \A r \in Requests : Open(r) /\ r \notin listed => r \in ending

\* What has failed and may still be retried for a client that left had failed
\* before it left.
RetriesAreExcused ==
  \A r \in Requests :
    stage[r] = "first" /\ r \in failed /\ owner[r] \in gone => r \in excused

\* Why a request of a client that left needs no stop.
Settled(r) == r \in ending \/ (stage[r] = "fallback" /\ r \in excused)

\* The inductive invariant.  A new client starts with no open request only
\* because an owner of one is known; and what Disconnect does not find in the
\* list ends nevertheless only because it is ending already.
Inv ==
  /\ CountsAreExact /\ OrphansAreEnding
  /\ Finite /\ OwnersAreKnown /\ UnlistedAreEnding /\ RetriesAreExcused

-----------------------------------------------------------------------------
(* Counting.                                                                *)

\* Facts of the library about one more and one less.
LEMMA OneMore ==
  ASSUME NEW S, IsFiniteSet(S), NEW e, e \notin S
  PROVE  /\ IsFiniteSet(S \cup {e})
         /\ Cardinality(S \cup {e}) = Cardinality(S) + 1
         /\ Cardinality(S) \in Nat
BY FS_AddElement, FS_CardinalityType

LEMMA OneLess ==
  ASSUME NEW S, IsFiniteSet(S), NEW e, e \in S
  PROVE  /\ IsFiniteSet(S \ {e})
         /\ Cardinality(S \ {e}) = Cardinality(S) - 1
         /\ Cardinality(S) \in Nat /\ Cardinality(S) > 0
<1>1. Cardinality(S) \in Nat /\ Cardinality(S) # 0
  BY FS_CardinalityType, FS_EmptySet
<1>2. QED
  BY <1>1, FS_RemoveElement

\* A step that moves no request between open and not open, and gives none to
\* another client, leaves every set of open requests as it is.
LEMMA OpenSame ==
  ASSUME owner' = owner, \A r \in Requests : Open(r)' = Open(r), NEW c
  PROVE  OpenOf(c)' = OpenOf(c)
BY DEF OpenOf

\* A request that is played is one more of its client's.
LEMMA OpenAdded ==
  ASSUME TypeOK, NEW c \in Clients, NEW r \in Requests, Accept(r),
         owner' = [owner EXCEPT ![r] = c]
  PROVE  /\ r \notin OpenOf(c) /\ OpenOf(c)' = OpenOf(c) \cup {r}
         /\ \A d \in Clients \ {c} : OpenOf(d)' = OpenOf(d)
BY DEF TypeOK, Accept, OpenOf, Open, Stages

\* One that is closed is one less.
LEMMA OpenRemoved ==
  ASSUME TypeOK, NEW r \in Requests, Close(r), UNCHANGED owner,
         NEW c \in Clients, owner[r] = c
  PROVE  /\ r \in OpenOf(c) /\ OpenOf(c)' = OpenOf(c) \ {r}
         /\ \A d \in Clients \ {c} : OpenOf(d)' = OpenOf(d)
BY DEF TypeOK, Close, OpenOf, Open, Stages

\* A client that is neither listed nor gone has no request open.
LEMMA NewcomersHaveNone ==
  ASSUME OwnersAreKnown, NEW c, c \notin clients, c \notin gone
  PROVE  OpenOf(c) = {} /\ Cardinality(OpenOf(c)) = 0
<1>1. OpenOf(c) = {}
  BY DEF OwnersAreKnown, OpenOf
<1>2. QED
  BY <1>1, FS_EmptySet

-----------------------------------------------------------------------------
(* What the steps of the lifecycle do to the requests.                      *)

\* The requests alone: types, and that what is unlisted ends.
Requested ==
  /\ stage \in [Requests -> Stages]
  /\ listed \subseteq Requests /\ ending \subseteq Requests
  /\ failed \subseteq Requests
  /\ last \in [Requests -> {"none", "playing", "paused", "completed", "failed"}]
  /\ up \in BOOLEAN
  /\ UnlistedAreEnding

\* An attempt keeps the types, and lists its request or begins to end it.
LEMMA AttemptType ==
  ASSUME Requested, NEW r \in Requests, Attempt(r)
  PROVE  /\ listed' \subseteq Requests /\ ending' \subseteq Requests
         /\ failed' \subseteq Requests
         /\ last' \in [Requests -> {"none", "playing", "paused", "completed", "failed"}]
         /\ r \in listed' \cup ending'
         /\ \A s \in Requests \ {r} : /\ s \in listed' <=> s \in listed
                                      /\ s \in ending' <=> s \in ending
                                      /\ s \in failed' <=> s \in failed
BY DEF Requested, Attempt

LEMMA LifecycleSteps ==
  ASSUME Requested, NEW r \in Requests,
         \/ Accept(r) \/ Retry(r) \/ Close(r) \/ Fail(r) \/ Crash
         \/ Report(r, "paused") \/ Report(r, "playing")
         \/ \E R \in SUBSET Requests : End(R)
  PROVE  Requested'
<1>1. CASE Accept(r)
  BY <1>1, AttemptType
     DEF Requested, Accept, Stages, UnlistedAreEnding, Open
<1>2. CASE Retry(r)
  BY <1>2, AttemptType
     DEF Requested, Retry, Stages, UnlistedAreEnding, Open
<1>3. CASE Close(r)
  BY <1>3 DEF Requested, Close, Stages, UnlistedAreEnding, Open
<1>4. CASE Fail(r) \/ Crash
  BY <1>4 DEF Requested, Fail, Crash, UnlistedAreEnding, Open
<1>5. CASE Report(r, "paused") \/ Report(r, "playing")
  BY <1>5 DEF Requested, Report, UnlistedAreEnding, Open
<1>6. CASE \E R \in SUBSET Requests : End(R)
  BY <1>6 DEF Requested, End, UnlistedAreEnding, Open
<1>7. QED
  BY <1>1, <1>2, <1>3, <1>4, <1>5, <1>6

-----------------------------------------------------------------------------
(* The steps of DbusInput.                                                  *)

\* A step of the core between those of the clients keeps the invariant: it
\* closes nothing, what was settled stays so, and of clients that left nothing
\* fails anew.
LEMMA CoreKeeps ==
  ASSUME Inv, UNCHANGED clientVars, Requested',
         \A r \in Requests :
           /\ Open(r)' = Open(r)
           /\ owner[r] \in gone /\ Open(r) =>
                /\ Settled(r) => Settled(r)'
                /\ stage'[r] = "first" /\ r \in failed' =>
                     stage[r] = "first" /\ r \in failed
  PROVE  Inv'
<1>1. /\ clients' = clients /\ gone' = gone /\ ref' = ref
      /\ active' = active /\ owner' = owner /\ excused' = excused
  BY DEF clientVars
<1>2. \A c : OpenOf(c)' = OpenOf(c)
  BY <1>1, OpenSame
<1>3. TypeOK' /\ UnlistedAreEnding'
  BY <1>1 DEF Inv, CountsAreExact, TypeOK, Requested
<1>4. RefsAreCounted' /\ ActiveIsExact' /\ LimitsHold' /\ Finite'
  BY <1>1, <1>2
     DEF Inv, CountsAreExact, RefsAreCounted, ActiveIsExact, LimitsHold, Finite
<1>5. OrphansAreEnding' /\ OwnersAreKnown'
  BY <1>1 DEF Inv, OrphansAreEnding, OwnersAreKnown, Settled
<1>6. RetriesAreExcused'
  BY <1>1 DEF Inv, RetriesAreExcused, Open
<1>7. QED
  BY <1>3, <1>4, <1>5, <1>6 DEF Inv, CountsAreExact

LEMMA InvRequested ==
  ASSUME Inv
  PROVE  Requested /\ TypeOK
BY DEF Inv, CountsAreExact, TypeOK, Requested

LEMMA StopMessageKeeps ==
  ASSUME Inv, NEW c \in Clients, NEW r \in Requests, StopMessage(c, r)
  PROVE  Inv'
<1>1. Requested'
  BY InvRequested, LifecycleSteps DEF StopMessage
<1>2. QED
  BY <1>1, CoreKeeps DEF StopMessage, End, Open, Settled, clientVars

LEMMA PauseMessageKeeps ==
  ASSUME Inv, NEW c \in Clients, NEW r \in Requests, PauseMessage(c, r)
  PROVE  Inv'
<1>1. Requested'
  BY InvRequested, LifecycleSteps DEF PauseMessage
<1>2. QED
  BY <1>1, CoreKeeps DEF PauseMessage, Report, Crash, Open, Settled, clientVars

LEMMA ServiceRestartedKeeps ==
  ASSUME Inv, ServiceRestarted
  PROVE  Inv'
<1>1. PICK r \in Requests : TRUE
  BY InvRequested DEF ServiceRestarted, Requested
<1>2. Requested'
  BY <1>1, InvRequested, LifecycleSteps DEF ServiceRestarted, Requested
<1>3. QED
  BY <1>2, CoreKeeps DEF ServiceRestarted, End, Open, Settled, clientVars

LEMMA CoreStepKeeps ==
  ASSUME Inv, NEW r \in Requests, CoreStep(r)
  PROVE  Inv'
<1>1. Requested'
  BY InvRequested, LifecycleSteps DEF CoreStep
<1>2. CASE r \in listed /\ End({r})
  BY <1>1, <1>2, CoreKeeps DEF CoreStep, End, Open, Settled, clientVars
<1>3. CASE Fail(r)
  <2>1. UNCHANGED clientVars
    BY DEF CoreStep
  <2>2. /\ r \in listed \ ending /\ failed' = failed \cup {r}
        /\ ending' = ending \cup {r} /\ stage' = stage
    BY <1>3 DEF Fail
  <2>3. owner[r] \in gone /\ Open(r) => stage[r] # "first"
    BY <2>2 DEF Inv, OrphansAreEnding
  <2>4. QED
    BY <1>1, <2>1, <2>2, <2>3, CoreKeeps DEF Open, Settled, clientVars
<1>4. CASE Retry(r)
  <2>1. UNCHANGED clientVars
    BY DEF CoreStep
  <2>2. /\ stage' = [stage EXCEPT ![r] = "fallback"] /\ stage[r] = "first"
        /\ r \in failed
    BY <1>4 DEF Retry
  <2>3. \A s \in Requests \ {r} : /\ s \in ending' <=> s \in ending
                                  /\ s \in failed' <=> s \in failed
    BY <1>4, InvRequested, AttemptType DEF Retry
  <2>4. \A s \in Requests : Open(s)' = Open(s)
    BY <2>2, InvRequested DEF Open, Requested
  <2>5. stage'[r] = "fallback" /\ \A s \in Requests \ {r} : stage'[s] = stage[s]
    BY <2>2, InvRequested DEF Requested
  <2>6. owner[r] \in gone => r \in excused'
    BY <2>1, <2>2 DEF Inv, RetriesAreExcused, clientVars
  <2>7. \A s \in Requests : owner[s] \in gone /\ Settled(s) => Settled(s)'
    <3>1. Settled(r)' <=> r \in ending' \/ (stage'[r] = "fallback" /\ r \in excused')
      BY DEF Settled
    <3>2. ASSUME NEW s \in Requests \ {r}, Settled(s)
          PROVE  Settled(s)'
      BY <2>1, <2>3, <2>5, <3>2 DEF Settled, clientVars
    <3>3. QED
      BY <2>5, <2>6, <3>1, <3>2
  <2>8. \A s \in Requests : stage'[s] = "first" /\ s \in failed' =>
                              stage[s] = "first" /\ s \in failed
    BY <2>3, <2>5
  <2>9. QED
    BY <1>1, <2>1, <2>4, <2>7, <2>8, CoreKeeps
<1>5. QED
  BY <1>2, <1>3, <1>4 DEF CoreStep

\* A request is admitted: one more open request, one more reference.
LEMMA PlayKeeps ==
  ASSUME Inv, NEW c \in Clients, NEW r \in Requests, Play(c, r)
  PROVE  Inv'
<1>1. /\ c \notin gone /\ Accept(r) /\ gone' = gone /\ excused' = excused
      /\ clients' = clients \cup {c}
      /\ ref' = [ref EXCEPT ![c] = Registered(c) + 1]
      /\ active' = [active EXCEPT ![c] = active[c] + 1]
      /\ owner' = [owner EXCEPT ![r] = c]
  BY DEF Play
<1>2. /\ TypeOK /\ Finite /\ OwnersAreKnown /\ OrphansAreEnding
      /\ RetriesAreExcused
  BY DEF Inv, CountsAreExact
<1>3. /\ r \notin OpenOf(c) /\ OpenOf(c)' = OpenOf(c) \cup {r}
      /\ \A d \in Clients \ {c} : OpenOf(d)' = OpenOf(d)
  BY <1>1, <1>2, OpenAdded
<1>4. /\ IsFiniteSet(OpenOf(c)') /\ Cardinality(OpenOf(c)) \in Nat
      /\ Cardinality(OpenOf(c)') = Cardinality(OpenOf(c)) + 1
  BY <1>2, <1>3, OneMore DEF Finite
<1>5. c \notin clients => Cardinality(OpenOf(c)) = 0
  BY <1>1, <1>2, NewcomersHaveNone
<1>6. /\ IsFiniteSet(clients')
      /\ Cardinality(clients') = IF c \in clients THEN Cardinality(clients)
                                 ELSE Cardinality(clients) + 1
      /\ Cardinality(clients) \in Nat
  <2>1. CASE c \in clients
    <3>1. clients' = clients
      BY <1>1, <2>1
    <3>2. QED
      BY <1>2, <2>1, <3>1, FS_CardinalityType DEF Finite
  <2>2. CASE c \notin clients
    BY <1>1, <1>2, <2>2, OneMore DEF Finite
  <2>3. QED
    BY <2>1, <2>2
<1>7. Requested'
  BY <1>1, InvRequested, LifecycleSteps
<1>8. TypeOK'
  BY <1>1, <1>2, <1>7 DEF TypeOK, Requested, Registered
<1>9. RefsAreCounted'
  <2>1. ref[c] = Cardinality(OpenOf(c)) + (IF c \in clients THEN 1 ELSE 0)
    BY DEF Inv, CountsAreExact, RefsAreCounted
  <2>2. ref'[c] = Registered(c) + 1
    BY <1>1, <1>2 DEF TypeOK
  <2>3. ref'[c] = Cardinality(OpenOf(c)') + 1
    BY <1>4, <1>5, <2>1, <2>2 DEF Registered
  <2>4. \A d \in Clients \ {c} :
          /\ ref'[d] = ref[d]
          /\ d \in clients' <=> d \in clients
    BY <1>1, <1>2 DEF TypeOK
  <2>5. QED
    BY <1>1, <1>3, <2>3, <2>4 DEF Inv, CountsAreExact, RefsAreCounted
<1>10. ActiveIsExact'
  <2>1. active'[c] = Cardinality(OpenOf(c)')
    BY <1>1, <1>2, <1>4 DEF Inv, CountsAreExact, ActiveIsExact, TypeOK
  <2>2. \A d \in Clients \ {c} : active'[d] = active[d]
    BY <1>1, <1>2 DEF TypeOK
  <2>3. QED
    BY <1>3, <2>1, <2>2 DEF Inv, CountsAreExact, ActiveIsExact
<1>11. LimitsHold'
  <2>1. Cardinality(clients') <= MaxClients
    BY <1>6, LimitAssumption
       DEF Inv, CountsAreExact, LimitsHold, Play, Admitted
  <2>2. active'[c] <= IF MaxRequests = 0 THEN 1 ELSE MaxRequests
    <3>1. active'[c] = active[c] + 1 /\ active[c] \in Nat
      BY <1>1, <1>2 DEF TypeOK
    <3>2. CASE c \in clients
      BY <3>1, <3>2, LimitAssumption DEF Play, Admitted
    <3>3. CASE c \notin clients
      <4>1. active[c] = 0
        BY <1>5, <3>3 DEF Inv, CountsAreExact, ActiveIsExact
      <4>2. QED
        BY <3>1, <4>1, LimitAssumption
    <3>4. QED
      BY <3>2, <3>3
  <2>3. \A d \in Clients \ {c} : active'[d] = active[d]
    BY <1>1, <1>2 DEF TypeOK
  <2>4. QED
    BY <2>1, <2>2, <2>3 DEF Inv, CountsAreExact, LimitsHold
<1>12. Finite'
  BY <1>2, <1>3, <1>4, <1>6 DEF Finite
<1>13. \A s \in Requests \ {r} :
         /\ Open(s)' = Open(s) /\ owner'[s] = owner[s] /\ stage'[s] = stage[s]
         /\ s \in ending' <=> s \in ending
         /\ s \in failed' <=> s \in failed
  BY <1>1, <1>2, InvRequested, AttemptType DEF Accept, Open, TypeOK
<1>14. owner'[r] = c
  BY <1>1, <1>2 DEF TypeOK
<1>15. OwnersAreKnown' /\ OrphansAreEnding' /\ RetriesAreExcused'
  BY <1>1, <1>2, <1>13, <1>14
     DEF OwnersAreKnown, OrphansAreEnding, RetriesAreExcused
<1>16. QED
  BY <1>7, <1>8, <1>9, <1>10, <1>11, <1>12, <1>15
     DEF Inv, CountsAreExact, Requested

\* A client is registered and its message turns out to be malformed.
LEMMA PlayMalformedKeeps ==
  ASSUME Inv, NEW c \in Clients, PlayMalformed(c)
  PROVE  Inv'
<1>1. /\ c \notin gone /\ UNCHANGED <<gone, active, owner, excused, lifecycleVars>>
      /\ clients' = clients \cup {c}
      /\ ref' = [ref EXCEPT ![c] = Registered(c)]
  BY DEF PlayMalformed
<1>2. /\ TypeOK /\ Finite /\ OwnersAreKnown /\ OrphansAreEnding
      /\ UnlistedAreEnding /\ RetriesAreExcused
  BY DEF Inv, CountsAreExact
<1>3. \A d : OpenOf(d)' = OpenOf(d)
  BY <1>1, OpenSame DEF Open, lifecycleVars
<1>4. TypeOK' /\ UnlistedAreEnding'
  BY <1>1, <1>2 DEF TypeOK, UnlistedAreEnding, Open, lifecycleVars, Registered
<1>5. /\ IsFiniteSet(clients') /\ Cardinality(clients) \in Nat
      /\ Cardinality(clients') = IF c \in clients THEN Cardinality(clients)
                                 ELSE Cardinality(clients) + 1
  <2>1. CASE c \in clients
    <3>1. clients' = clients
      BY <1>1, <2>1
    <3>2. QED
      BY <1>2, <2>1, <3>1, FS_CardinalityType DEF Finite
  <2>2. CASE c \notin clients
    BY <1>1, <1>2, <2>2, OneMore DEF Finite
  <2>3. QED
    BY <2>1, <2>2
<1>6. RefsAreCounted'
  <2>1. c \notin clients => Cardinality(OpenOf(c)) = 0
    BY <1>1, <1>2, NewcomersHaveNone
  <2>2. ref'[c] = Registered(c)
    BY <1>1, <1>2 DEF TypeOK
  <2>3. ref'[c] = Cardinality(OpenOf(c)) + 1
    BY <2>1, <2>2 DEF Inv, CountsAreExact, RefsAreCounted, Registered
  <2>4. \A d \in Clients \ {c} :
          /\ ref'[d] = ref[d]
          /\ d \in clients' <=> d \in clients
    BY <1>1, <1>2 DEF TypeOK
  <2>5. QED
    BY <1>1, <1>3, <2>3, <2>4 DEF Inv, CountsAreExact, RefsAreCounted
<1>7. ActiveIsExact' /\ LimitsHold' /\ Finite'
  BY <1>1, <1>2, <1>3, <1>5, LimitAssumption
     DEF Inv, CountsAreExact, ActiveIsExact, LimitsHold, Finite, PlayMalformed, Admitted
<1>8. OwnersAreKnown' /\ OrphansAreEnding' /\ RetriesAreExcused'
  BY <1>1, <1>2
     DEF OwnersAreKnown, OrphansAreEnding, RetriesAreExcused, Open, lifecycleVars
<1>9. QED
  BY <1>4, <1>6, <1>7, <1>8 DEF Inv, CountsAreExact

\* A client leaves: what it has listed begins to end, what it has open and not
\* listed is ending already, and its reference for the list goes.
LEMMA DisconnectKeeps ==
  ASSUME Inv, NEW c \in Clients, Disconnect(c)
  PROVE  Inv'
<1>1. /\ c \notin gone /\ gone' = gone \cup {c}
      /\ active' = active /\ owner' = owner
      /\ excused' = excused \cup RetriesOf(c)
  BY DEF Disconnect
<1>2. /\ TypeOK /\ Finite /\ OwnersAreKnown /\ OrphansAreEnding
      /\ UnlistedAreEnding /\ RetriesAreExcused
  BY DEF Inv, CountsAreExact
<1>3. excused' \subseteq Requests
  BY <1>1, <1>2 DEF TypeOK, RetriesOf
<1>4. CASE c \in clients
  <2>1. /\ End({r \in listed : owner[r] = c})
        /\ clients' = clients \ {c}
        /\ ref' = [ref EXCEPT ![c] = ref[c] - 1]
    BY <1>4 DEF Disconnect
  <2>2. /\ ending' = ending \cup {r \in listed : owner[r] = c}
        /\ UNCHANGED <<stage, listed, failed, last, up>>
    BY <2>1 DEF End
  <2>3. \A d : OpenOf(d)' = OpenOf(d)
    BY <1>1, <2>2, OpenSame DEF Open
  <2>4. /\ IsFiniteSet(clients') /\ Cardinality(clients) \in Nat
        /\ Cardinality(clients') = Cardinality(clients) - 1
    BY <1>2, <1>4, <2>1, OneLess DEF Finite
  <2>5. ref[c] = Cardinality(OpenOf(c)) + 1 /\ Cardinality(OpenOf(c)) \in Nat
    BY <1>2, <1>4, FS_CardinalityType
       DEF Inv, CountsAreExact, RefsAreCounted, Finite
  <2>6. /\ ref'[c] = Cardinality(OpenOf(c)) /\ ref' \in [Clients -> Nat]
        /\ \A d \in Clients \ {c} : ref'[d] = ref[d]
    BY <1>2, <2>1, <2>5 DEF TypeOK
  <2>7. TypeOK' /\ UnlistedAreEnding'
    BY <1>1, <1>2, <1>3, <2>1, <2>2, <2>6 DEF TypeOK, UnlistedAreEnding, Open
  <2>8. RefsAreCounted'
    BY <2>1, <2>3, <2>6 DEF Inv, CountsAreExact, RefsAreCounted
  <2>9. ActiveIsExact' /\ LimitsHold' /\ Finite'
    BY <1>1, <1>2, <2>3, <2>4, LimitAssumption
       DEF Inv, CountsAreExact, ActiveIsExact, LimitsHold, Finite
  <2>10. OwnersAreKnown'
    BY <1>1, <1>2, <2>1, <2>2 DEF OwnersAreKnown, Open
  <2>11. OrphansAreEnding'
    BY <1>1, <1>2, <2>2 DEF OrphansAreEnding, UnlistedAreEnding, Open
  <2>12. RetriesAreExcused'
    BY <1>1, <1>2, <2>2 DEF RetriesAreExcused, RetriesOf
  <2>13. QED
    BY <2>7, <2>8, <2>9, <2>10, <2>11, <2>12 DEF Inv, CountsAreExact
<1>5. CASE c \notin clients
  <2>1. UNCHANGED <<lifecycleVars, clients, ref>>
    BY <1>5 DEF Disconnect
  <2>2. UNCHANGED <<stage, listed, ending, failed, last, up>>
    BY <2>1 DEF lifecycleVars
  <2>3. \A d : OpenOf(d)' = OpenOf(d)
    BY <1>1, <2>2, OpenSame DEF Open
  <2>4. \A r \in Requests : Open(r) => owner[r] # c
    BY <1>1, <1>2, <1>5 DEF OwnersAreKnown
  <2>5. TypeOK' /\ UnlistedAreEnding'
    BY <1>1, <1>2, <1>3, <2>1, <2>2 DEF TypeOK, UnlistedAreEnding, Open
  <2>6. RefsAreCounted' /\ ActiveIsExact' /\ LimitsHold' /\ Finite'
    BY <1>1, <1>2, <2>1, <2>3
       DEF Inv, CountsAreExact, RefsAreCounted, ActiveIsExact, LimitsHold, Finite
  <2>7. OwnersAreKnown' /\ OrphansAreEnding'
    BY <1>1, <1>2, <2>1, <2>2, <2>4 DEF OwnersAreKnown, OrphansAreEnding, Open
  <2>8. RetriesAreExcused'
    BY <1>1, <1>2, <2>2 DEF RetriesAreExcused, RetriesOf
  <2>9. QED
    BY <2>5, <2>6, <2>7, <2>8 DEF Inv, CountsAreExact
<1>6. QED
  BY <1>4, <1>5

\* The last status is sent: one open request less, one reference less.
LEMMA RequestClosedKeeps ==
  ASSUME Inv, NEW r \in Requests, RequestClosed(r)
  PROVE  Inv'
<1>1. PICK c \in Clients : c = owner[r]
  BY DEF RequestClosed, Close, Inv, CountsAreExact, OwnersAreKnown, TypeOK
<1>2. /\ Close(r) /\ UNCHANGED <<clients, gone, owner>>
      /\ excused' = excused \ {r}
      /\ active' = [active EXCEPT ![c] = IF active[c] = 0 THEN 0 ELSE active[c] - 1]
      /\ ref' = [ref EXCEPT ![c] = ref[c] - 1]
  BY <1>1 DEF RequestClosed
<1>3. /\ TypeOK /\ Finite /\ OwnersAreKnown /\ OrphansAreEnding
      /\ RetriesAreExcused
  BY DEF Inv, CountsAreExact
<1>4. /\ r \in OpenOf(c) /\ OpenOf(c)' = OpenOf(c) \ {r}
      /\ \A d \in Clients \ {c} : OpenOf(d)' = OpenOf(d)
  BY <1>2, <1>3, <1>1, OpenRemoved
<1>5. /\ IsFiniteSet(OpenOf(c)') /\ Cardinality(OpenOf(c)) \in Nat
      /\ Cardinality(OpenOf(c)) > 0
      /\ Cardinality(OpenOf(c)') = Cardinality(OpenOf(c)) - 1
  BY <1>3, <1>4, <1>1, OneLess DEF Finite
<1>6. /\ active[c] = Cardinality(OpenOf(c))
      /\ ref[c] = Cardinality(OpenOf(c)) + (IF c \in clients THEN 1 ELSE 0)
  BY <1>1 DEF Inv, CountsAreExact, ActiveIsExact, RefsAreCounted
<1>7. /\ active'[c] = Cardinality(OpenOf(c)') /\ active' \in [Clients -> Nat]
      /\ active'[c] <= active[c]
      /\ \A d \in Clients \ {c} : active'[d] = active[d]
  BY <1>2, <1>3, <1>1, <1>5, <1>6 DEF TypeOK
<1>8. /\ ref'[c] = Cardinality(OpenOf(c)') + (IF c \in clients THEN 1 ELSE 0)
      /\ ref' \in [Clients -> Nat]
      /\ \A d \in Clients \ {c} : ref'[d] = ref[d]
  BY <1>2, <1>3, <1>1, <1>5, <1>6 DEF TypeOK
<1>9. Requested'
  BY <1>2, InvRequested, LifecycleSteps
<1>10. TypeOK'
  BY <1>2, <1>3, <1>7, <1>8, <1>9 DEF TypeOK, Requested
<1>11. RefsAreCounted' /\ ActiveIsExact'
  BY <1>2, <1>4, <1>7, <1>8 DEF Inv, CountsAreExact, RefsAreCounted, ActiveIsExact
<1>12. LimitsHold'
  BY <1>2, <1>3, <1>1, <1>7, <1>10, LimitAssumption
     DEF Inv, CountsAreExact, LimitsHold, TypeOK
<1>13. Finite'
  BY <1>2, <1>3, <1>4, <1>5 DEF Finite
<1>14. \A s \in Requests : /\ Open(s)' => Open(s) /\ s # r
                           /\ s # r => /\ stage'[s] = stage[s]
                                       /\ s \in ending' <=> s \in ending
                                       /\ s \in failed' <=> s \in failed
  BY <1>2, <1>3 DEF Close, Open, TypeOK
<1>15. OwnersAreKnown' /\ OrphansAreEnding'
  BY <1>2, <1>3, <1>14 DEF OwnersAreKnown, OrphansAreEnding
<1>16. RetriesAreExcused'
  BY <1>2, <1>3, <1>14 DEF RetriesAreExcused, Open
<1>17. QED
  BY <1>9, <1>10, <1>11, <1>12, <1>13, <1>15, <1>16
     DEF Inv, CountsAreExact, Requested

-----------------------------------------------------------------------------
(* The theorems.                                                            *)

LEMMA InitHolds == Init => Inv
<1> SUFFICES ASSUME Init
             PROVE  Inv
  OBVIOUS
<1>1. \A c : OpenOf(c) = {}
  BY DEF Init, LifecycleInit, OpenOf, Open
<1>2. IsFiniteSet({}) /\ Cardinality({}) = 0
  BY FS_EmptySet
<1>3. TypeOK
  BY DEF Init, LifecycleInit, TypeOK, Stages
<1>4. RefsAreCounted /\ ActiveIsExact /\ LimitsHold /\ Finite
  BY <1>1, <1>2, LimitAssumption
     DEF Init, RefsAreCounted, ActiveIsExact, LimitsHold, Finite
<1>5. /\ OrphansAreEnding /\ OwnersAreKnown /\ UnlistedAreEnding
      /\ RetriesAreExcused
  BY DEF Init, LifecycleInit, OrphansAreEnding, OwnersAreKnown,
         UnlistedAreEnding, RetriesAreExcused, Open
<1>6. QED
  BY <1>3, <1>4, <1>5 DEF Inv, CountsAreExact

LEMMA NextKeeps == Inv /\ [Next]_vars => Inv'
<1> SUFFICES ASSUME Inv, [Next]_vars
             PROVE  Inv'
  OBVIOUS
<1>1. CASE ServiceRestarted
  BY <1>1, ServiceRestartedKeeps
<1>2. CASE \E c \in Clients : PlayMalformed(c) \/ Disconnect(c)
  BY <1>2, PlayMalformedKeeps, DisconnectKeeps
<1>3. CASE \E c \in Clients, r \in Requests :
             Play(c, r) \/ StopMessage(c, r) \/ PauseMessage(c, r)
  BY <1>3, PlayKeeps, StopMessageKeeps, PauseMessageKeeps
<1>4. CASE \E r \in Requests : CoreStep(r) \/ RequestClosed(r)
  BY <1>4, CoreStepKeeps, RequestClosedKeeps
<1>5. CASE UNCHANGED vars
  <2>1. UNCHANGED <<lifecycleVars, clientVars>>
    BY <1>5 DEF vars
  <2>2. Requested'
    BY <2>1, InvRequested
       DEF Requested, lifecycleVars, UnlistedAreEnding, Open
  <2>3. QED
    BY <2>1, <2>2, CoreKeeps DEF lifecycleVars, clientVars, Open, Settled
<1>6. QED
  BY <1>1, <1>2, <1>3, <1>4, <1>5 DEF Next

LEMMA InvHolds == Spec => []Inv
BY InitHolds, NextKeeps, PTL DEF Spec

\* The counts of dbus/plugin.c are right whatever the clients, the core and the
\* bus do and in whatever order: client->ref and client->active_requests are
\* the number of open requests (and the place in the list), and no limit is
\* passed.
THEOREM CountsStayExact == Spec => []CountsAreExact
BY InvHolds, PTL DEF Inv

\* What a client leaves behind ends, running fallbacks too, whether it was
\* listed or not: dbusif_disconnect_handler looks only at the listed requests,
\* and what it does not see is ending by itself.  Only a fallback that begins
\* later runs on, and then its first attempt had failed before.
THEOREM OrphansEnd == Spec => []OrphansAreEnding
BY InvHolds, PTL DEF Inv
=============================================================================
