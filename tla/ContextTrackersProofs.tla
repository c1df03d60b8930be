------------------------ MODULE ContextTrackersProofs ------------------------
(***************************************************************************)
(* Theorems about ContextTrackers for every set of services, profiles and  *)
(* levels, every table of volumes and any number of changes: the context   *)
(* catches up with what it tracks.  The trackers on D-Bus and the profile  *)
(* plugin share no variable, so each has an invariant of its own.          *)
(***************************************************************************)
EXTENDS ContextTrackers, SequenceTheorems, TLAPS

-----------------------------------------------------------------------------
(* The trackers on D-Bus.                                                  *)

Told == {Unknown} \cup UNION {States[s] : s \in Services}

DbusTypes ==
  /\ context \in [Services -> Told] /\ inbox \in [Services -> Seq(Told)]
  /\ truth \in [Services -> Told] /\ \A s \in Services : truth[s] # Unknown
  /\ outbox \in [Services -> {<<>>, <<"get">>, <<"match", "get">>}]

\* The last message that waits says what the service does; when none waits, the
\* context does, or keeps a call.
Catches(s) ==
  IF inbox[s] = <<>>
  THEN \/ context[s] = truth[s]
       \/ s = "mce" /\ truth[s] = "ringing" /\ context[s] = "active"
  ELSE inbox[s][Len(inbox[s])] = truth[s]

\* A service is listened to before it is asked, so that no change between its
\* answer and its signals is lost.
DbusInv ==
  /\ DbusTypes
  /\ \A s \in loaded : outbox[s] \in {<<>>, <<"get">>} => s \in listening
  /\ \A s \in loaded \ restarted : outbox[s] = <<>> => Catches(s)
  /\ "mce" \in Services => /\ active = (context["mce"] = "active")
                           /\ callActive = (context["mce"] = "active")
  /\ loaded \subseteq Services

\* The states of a service are told, and none of them is Unknown.
LEMMA StatesTold ==
  ASSUME NEW s \in Services
  PROVE  States[s] \subseteq Told /\ Unknown \notin States[s]
<1>1. s \in {"mce", "devicelock", "ohm"}
  BY TrackerAssumption DEF States
<1>2. Unknown \notin States[s]
  BY <1>1 DEF States, Unknown
<1>3. QED
  BY <1>2 DEF Told

\* The end of a sequence of messages.
LEMMA TailEnds ==
  ASSUME NEW S, NEW q \in Seq(S), q # <<>>
  PROVE  /\ Head(q) \in S /\ Tail(q) \in Seq(S)
         /\ \/ Tail(q) = <<>> /\ q[Len(q)] = Head(q)
            \/ Tail(q) # <<>> /\ Tail(q)[Len(Tail(q))] = q[Len(q)]
<1>1. /\ Len(q) \in Nat \ {0} /\ Tail(q) \in Seq(S) /\ Len(Tail(q)) = Len(q) - 1
      /\ Head(q) = q[1] /\ Head(q) \in S
      /\ \A i \in 1..(Len(q) - 1) : Tail(q)[i] = q[i + 1]
  OBVIOUS
<1>0. Len(Tail(q)) = 0 <=> Tail(q) = <<>>
  <2>1. Tail(q) # <<>> => Len(Tail(q)) \in Nat \ {0}
    BY <1>1, EmptySeq
  <2>2. Len(<<>>) = 0
    OBVIOUS
  <2>3. QED
    BY <2>1, <2>2
<1>2. CASE Len(q) = 1
  <2>1. Tail(q) = <<>>
    BY <1>0, <1>1, <1>2
  <2>2. QED
    BY <1>1, <1>2, <2>1
<1>3. CASE Len(q) # 1
  <2>1. Len(q) - 1 \in 1..(Len(q) - 1) /\ Tail(q) # <<>>
    BY <1>0, <1>1, <1>3
  <2>2. Tail(q)[Len(q) - 1] = q[Len(q) - 1 + 1]
    BY <1>1, <2>1
  <2>3. Len(q) - 1 + 1 = Len(q)
    BY <1>1
  <2>4. QED
    BY <1>1, <2>1, <2>2, <2>3
<1>4. QED
  BY <1>2, <1>3, <1>1

LEMMA DbusInit == Init => DbusInv
<1> SUFFICES ASSUME Init
             PROVE  DbusInv
  OBVIOUS
<1>1. \A s \in Services : truth[s] \in Told /\ truth[s] # Unknown
  BY StatesTold DEF Init
<1>2. DbusTypes
  <2>1. Unknown \in Told /\ <<>> \in Seq(Told)
    BY DEF Told
  <2>2. truth \in [Services -> Told]
    BY <1>1 DEF Init
  <2>3. QED
    BY <1>1, <2>1, <2>2 DEF Init, DbusTypes
<1>3. QED
  BY <1>2 DEF Init, DbusInv, Unknown

\* A reply or a signal is applied.
LEMMA ReceiveCatches ==
  ASSUME DbusInv, NEW s \in Services, Receive(s)
  PROVE  DbusInv'
<1> DEFINE v == Head(inbox[s])
<1>1. /\ inbox[s] \in Seq(Told) /\ inbox[s] # <<>> /\ v \in Told
      /\ Tail(inbox[s]) \in Seq(Told)
  BY DEF DbusInv, DbusTypes, Receive
<1>2. \/ Tail(inbox[s]) = <<>> /\ inbox[s][Len(inbox[s])] = v
      \/ /\ Tail(inbox[s]) # <<>>
         /\ Tail(inbox[s])[Len(Tail(inbox[s]))] = inbox[s][Len(inbox[s])]
  BY <1>1, TailEnds
<1>3. /\ \A t \in Services : inbox'[t] = IF t = s THEN Tail(inbox[s]) ELSE inbox[t]
      /\ UNCHANGED <<truth, outbox, listening, restarted, loaded>>
      /\ inbox' \in [Services -> Seq(Told)]
  BY <1>1 DEF Receive, DbusInv, DbusTypes
<1>4. \/ (v = Unknown \/ KeepsCall(s, v)) /\ UNCHANGED <<context, active, callActive>>
      \/ /\ context' = [context EXCEPT ![s] = v]
         /\ active' = (IF s = "mce" THEN v = "active" ELSE active)
         /\ callActive' = (IF s = "mce" THEN v = "active" ELSE callActive)
  BY DEF Receive
<1> HIDE DEF v
<1>5. /\ context' \in [Services -> Told]
      /\ \A t \in Services \ {s} : context'[t] = context[t]
  BY <1>1, <1>4 DEF DbusInv, DbusTypes
<1>6. DbusTypes'
  BY <1>3, <1>5 DEF DbusInv, DbusTypes
<1>7. "mce" \in Services => /\ active' = (context'["mce"] = "active")
                            /\ callActive' = (context'["mce"] = "active")
  <2>1. CASE s = "mce"
    BY <1>4, <2>1 DEF DbusInv, DbusTypes
  <2>2. CASE s # "mce"
    BY <1>4, <2>2 DEF DbusInv, DbusTypes
  <2>3. QED
    BY <2>1, <2>2
<1>8. ASSUME s \in loaded \ restarted, outbox[s] = <<>>
      PROVE  Catches(s)'
  <2>1. inbox[s][Len(inbox[s])] = truth[s] /\ truth[s] # Unknown
    BY <1>1, <1>8 DEF DbusInv, DbusTypes, Catches
  <2>2. CASE Tail(inbox[s]) # <<>>
    BY <1>2, <1>3, <2>1, <2>2 DEF Catches
  <2>3. CASE Tail(inbox[s]) = <<>>
    <3>1. v = truth[s] /\ v # Unknown
      BY <1>2, <2>1, <2>3
    <3>2. CASE context' = [context EXCEPT ![s] = v]
      BY <1>3, <2>3, <3>1, <3>2 DEF Catches, DbusInv, DbusTypes
    <3>3. CASE KeepsCall(s, v) /\ UNCHANGED context
      BY <1>3, <2>3, <3>1, <3>3 DEF KeepsCall, Catches, DbusInv
    <3>4. QED
      BY <1>4, <3>1, <3>2, <3>3
  <2>4. QED
    BY <2>2, <2>3
<1>9. \A t \in (loaded \ restarted) \ {s} : outbox[t] = <<>> => Catches(t)'
  BY <1>3, <1>5 DEF DbusInv, Catches
<1>10. QED
  BY <1>3, <1>6, <1>7, <1>8, <1>9 DEF DbusInv

\* The service and the bus: what they send keeps up with the service.
LEMMA ServiceCatches ==
  ASSUME DbusInv, NEW s \in Services,
         \/ LoadTracker(s) \/ Serve(s) \/ NotThere(s)
         \/ \E v \in States[s] : Change(s, v) \/ Restart(s, v)
  PROVE  DbusInv'
<1>1. /\ UNCHANGED <<context, active, callActive>>
      /\ inbox[s] \in Seq(Told) /\ truth[s] \in Told
      /\ \A t \in Services \ {s} :
           /\ inbox'[t] = inbox[t] /\ truth'[t] = truth[t] /\ outbox'[t] = outbox[t]
           /\ t \in listening' <=> t \in listening
           /\ t \in restarted' <=> t \in restarted
           /\ t \in loaded' <=> t \in loaded
      /\ loaded' \subseteq Services
  BY DEF LoadTracker, Serve, NotThere, Change, Restart, DbusInv, DbusTypes
<1>2. \A t \in (loaded \ restarted)' \ {s} : outbox'[t] = <<>> => Catches(t)'
  BY <1>1 DEF DbusInv, Catches
<1>3. \A t \in loaded' \ {s} : outbox'[t] \in {<<>>, <<"get">>} => t \in listening'
  BY <1>1 DEF DbusInv
<1>4. \A x \in Told : /\ Append(inbox[s], x) \in Seq(Told)
                      /\ Append(inbox[s], x) # <<>>
                      /\ Append(inbox[s], x)[Len(Append(inbox[s], x))] = x
  BY <1>1
<1>5. /\ Tail(<<"match", "get">>) = <<"get">> /\ Head(<<"match", "get">>) = "match"
      /\ Tail(<<"get">>) = <<>> /\ Head(<<"get">>) = "get"
  OBVIOUS
<1>6. outbox[s] \in {<<>>, <<"get">>, <<"match", "get">>}
  BY DEF DbusInv, DbusTypes
<1>7. ASSUME DbusTypes', loaded' \subseteq Services,
             s \in loaded' /\ outbox'[s] \in {<<>>, <<"get">>} => s \in listening',
             s \in loaded' \ restarted' /\ outbox'[s] = <<>> => Catches(s)'
      PROVE  DbusInv'
  BY <1>1, <1>2, <1>3, <1>7 DEF DbusInv
<1>8. CASE LoadTracker(s)
  <2>1. DbusTypes' /\ outbox'[s] = <<"match", "get">> /\ loaded' \subseteq Services
    BY <1>8 DEF LoadTracker, Subscribes, DbusInv, DbusTypes
  <2>2. <<"match", "get">> \notin {<<>>, <<"get">>}
    OBVIOUS
  <2>3. QED
    BY <1>7, <2>1, <2>2
<1>9. CASE Serve(s)
  <2>1. CASE outbox[s] = <<"match", "get">>
    <3>1. /\ outbox' = [outbox EXCEPT ![s] = <<"get">>]
          /\ listening' = listening \cup {s}
          /\ UNCHANGED <<inbox, restarted, truth, loaded>>
      BY <1>5, <1>9, <2>1 DEF Serve
    <3>2. DbusTypes' /\ outbox'[s] = <<"get">> /\ s \in listening'
      BY <1>1, <3>1 DEF DbusInv, DbusTypes
    <3>3. QED
      BY <1>7, <3>1, <3>2 DEF DbusInv
  <2>2. CASE outbox[s] = <<"get">>
    <3>1. /\ outbox' = [outbox EXCEPT ![s] = <<>>]
          /\ inbox' = [inbox EXCEPT ![s] = Append(@, truth[s])]
          /\ UNCHANGED <<listening, truth, loaded>>
      BY <1>5, <1>9, <2>2 DEF Serve
    <3>2. DbusTypes' /\ inbox'[s] = Append(inbox[s], truth[s])
      BY <1>1, <1>4, <3>1 DEF DbusInv, DbusTypes
    <3>3. Catches(s)'
      BY <1>1, <1>4, <3>1, <3>2 DEF Catches
    <3>4. s \in loaded' => s \in listening'
      BY <2>2, <3>1 DEF DbusInv
    <3>5. QED
      BY <1>7, <3>1, <3>2, <3>3, <3>4 DEF DbusInv
  <2>3. QED
    BY <1>6, <1>9, <2>1, <2>2 DEF Serve
<1>10. CASE NotThere(s)
  <2>1. outbox[s] = <<"get">>
    BY <1>5, <1>6, <1>10 DEF NotThere
  <2>2. /\ outbox' = [outbox EXCEPT ![s] = <<>>]
        /\ inbox' = [inbox EXCEPT ![s] = Append(@, Unknown)]
        /\ s \in restarted' /\ UNCHANGED <<listening, truth, loaded>>
    BY <1>5, <1>10, <2>1 DEF NotThere
  <2>3. DbusTypes'
    <3>1. Unknown \in Told
      BY DEF Told
    <3>2. QED
      BY <1>1, <1>4, <2>2, <3>1 DEF DbusInv, DbusTypes
  <2>4. QED
    BY <1>7, <2>1, <2>2, <2>3 DEF DbusInv
<1>11. ASSUME NEW v \in States[s], Change(s, v)
       PROVE  DbusInv'
  <2>1. v \in Told /\ v # Unknown
    BY StatesTold
  <2>2. /\ truth' = [truth EXCEPT ![s] = v]
        /\ UNCHANGED <<outbox, listening, loaded>>
    BY <1>11 DEF Change
  <2>3. CASE s \in listening
    <3>1. inbox' = [inbox EXCEPT ![s] = Append(@, v)]
      BY <1>11, <2>3 DEF Change
    <3>2. DbusTypes' /\ inbox'[s] = Append(inbox[s], v) /\ truth'[s] = v
      BY <1>1, <1>4, <2>1, <2>2, <3>1 DEF DbusInv, DbusTypes
    <3>3. Catches(s)'
      BY <1>4, <2>1, <3>2 DEF Catches
    <3>4. QED
      BY <1>7, <2>2, <2>3, <3>2, <3>3 DEF DbusInv
  <2>4. CASE s \notin listening
    <3>1. UNCHANGED <<inbox, restarted>>
      BY <1>11, <2>4 DEF Change
    <3>2. DbusTypes'
      BY <2>1, <2>2, <3>1, <1>1 DEF DbusInv, DbusTypes
    <3>3. s \in loaded => outbox[s] \notin {<<>>, <<"get">>}
      BY <2>4 DEF DbusInv
    <3>4. QED
      BY <1>7, <2>2, <3>1, <3>2, <3>3 DEF DbusInv
  <2>5. QED
    BY <2>3, <2>4
<1>12. ASSUME NEW v \in States[s], Restart(s, v)
       PROVE  DbusInv'
  <2>1. v \in Told /\ v # Unknown
    BY StatesTold
  <2>2. /\ truth' = [truth EXCEPT ![s] = v] /\ s \in restarted'
        /\ UNCHANGED <<outbox, inbox, listening, loaded>>
    BY <1>12 DEF Restart
  <2>3. DbusTypes'
    BY <1>1, <2>1, <2>2 DEF DbusInv, DbusTypes
  <2>4. QED
    BY <1>7, <2>2, <2>3 DEF DbusInv
<1>13. QED
  BY <1>8, <1>9, <1>10, <1>11, <1>12

\* A step of the profile plugin or of gst leaves the D-Bus trackers alone.
LEMMA DbusStep == DbusInv /\ [Next]_vars => DbusInv'
<1> SUFFICES ASSUME DbusInv, [Next]_vars
             PROVE  DbusInv'
  OBVIOUS
<1>1. CASE UNCHANGED dbusVars
  BY <1>1 DEF dbusVars, DbusInv, DbusTypes, Catches
<1>2. ASSUME NEW s \in Services,
             \/ LoadTracker(s) \/ Receive(s) \/ Serve(s) \/ NotThere(s)
             \/ \E v \in States[s] : Change(s, v) \/ Restart(s, v)
      PROVE  DbusInv'
  BY <1>2, ReceiveCatches, ServiceCatches
<1>3. CASE UNCHANGED vars \/ InitDone \/ QueryCurrentProfile \/ TrackerInit
           \/ ReceiveProfile
           \/ \E p \in Profiles : \/ QueryValues(p) \/ SwitchProfile(p)
                                  \/ \E l \in Levels : ChangeValue(p, l)
  BY <1>1, <1>3 DEF vars, InitDone, QueryCurrentProfile, TrackerInit,
                    ReceiveProfile, QueryValues, SwitchProfile, ChangeValue
<1>4. QED
  BY <1>2, <1>3 DEF Next

\* callstate, devicelock and route: for any number of changes, whatever the
\* order of answers and signals, the context ends up with the state of the
\* service, and haptic.c knows of a call exactly while the context has one.
THEOREM ContextsFollow == Spec => []ContextFollows
<1>1. DbusInv => ContextFollows
  BY DEF DbusInv, Catches, ContextFollows
<1>2. QED
  BY <1>1, DbusInit, DbusStep, PTL DEF Spec

-----------------------------------------------------------------------------
(* The profile plugin.                                                     *)

News == [switch : BOOLEAN, profile : Profiles, value : Levels, reported : BOOLEAN]

ProfileTypes ==
  /\ level \in [Profiles \cup {Current} -> 0..100]
  /\ profile \in Profiles /\ values \in [Profiles -> Levels]
  /\ news \in Seq(News) /\ asking \in SUBSET (Profiles \cup {None})
  /\ {tracking, enabled, missed} \subseteq BOOLEAN

\* Before the tracking: what was asked for is still true.
Asked ==
  /\ current = profile
  /\ \A p \in Profiles \ asking : level[p] = VolumeOf(values[p])
  /\ profile \notin asking => level[Current] = VolumeOf(values[profile])

\* One signal of profiled leads from the active profile a with the values f to b
\* with g.
Leads(n, a, f, b, g) ==
  IF n.switch THEN b = n.profile /\ g = f /\ n.value = f[b]
                   /\ (~n.reported => f[b] = f[a])
              ELSE b = a /\ g = [f EXCEPT ![n.profile] = n.value] /\ n.reported

\* The context has what profiled had at some time, and the signals that wait
\* lead from there to the present, through the profiles at and the values of.
Follows(at, of) ==
  /\ at \in [0..Len(news) -> Profiles]
  /\ of \in [0..Len(news) -> [Profiles -> Levels]]
  /\ at[0] = current /\ at[Len(news)] = profile /\ of[Len(news)] = values
  /\ \A p \in Profiles : level[p] = VolumeOf(of[0][p])
  /\ level[Current] = VolumeOf(of[0][current])
  /\ \A i \in 1..Len(news) :
       Leads(news[i], at[i - 1], of[i - 1], at[i], of[i])

ProfileInv ==
  /\ ProfileTypes
  /\ ~tracking => news = <<>> /\ stage # "running"
                  /\ (~missed /\ asking # {None} => Asked)
  /\ tracking => asking = {}
  /\ tracking /\ ~missed => \E at, of : Follows(at, of)
  /\ stage = "running" /\ level[Current] > 0 => enabled

\* A volume is one of the table.
LEMMA VolumeType ==
  ASSUME NEW l \in Levels
  PROVE  VolumeOf(l) \in 0..100
<1>1. Table \in Seq(0..100) /\ Len(Table) \in Nat \ {0} /\ l \in Int
  BY TrackerAssumption, EmptySeq
<1>2. \A i \in 1..Len(Table) : Table[i] \in 0..100
  BY <1>1, ElementOfSeq
<1> DEFINE j == 1 + (IF l <= 0 THEN 0 ELSE IF l >= Len(Table) - 1
                                           THEN Len(Table) - 1 ELSE l)
<1>3. j \in 1..Len(Table)
  BY <1>1
<1>4. QED
  BY <1>2, <1>3 DEF VolumeOf

LEMMA ProfileInit == Init => ProfileInv
<1> SUFFICES ASSUME Init
             PROVE  ProfileInv
  OBVIOUS
<1>1. ProfileTypes
  <2>1. level \in [Profiles \cup {Current} -> 0..100]
    BY DEF Init
  <2>2. news \in Seq(News)
    BY DEF Init
  <2>3. QED
    BY <2>1, <2>2 DEF Init, ProfileTypes
<1>2. QED
  BY <1>1 DEF Init, ProfileInv, ProfileTypes

\* The queries, while profiled is not tracked.
LEMMA QueriesKeep ==
  ASSUME ProfileInv,
         QueryCurrentProfile \/ \E p \in Profiles : QueryValues(p)
  PROVE  ProfileInv'
<1>1. CASE QueryCurrentProfile
  <2>1. ~tracking /\ stage = "loading"
    <3>1. {None} # {}
      OBVIOUS
    <3>2. QED
      BY <1>1, <3>1 DEF QueryCurrentProfile, ProfileInv, ProfileTypes
  <2>2. Asked'
    BY <1>1 DEF QueryCurrentProfile, ProfileInv, ProfileTypes, Asked, VolumeOf
  <2>3. ProfileTypes'
    BY <1>1 DEF QueryCurrentProfile, ProfileInv, ProfileTypes
  <2>4. UNCHANGED <<tracking, missed, news, stage, level, enabled>>
    BY <1>1 DEF QueryCurrentProfile
  <2>5. QED
    BY <2>1, <2>2, <2>3, <2>4 DEF ProfileInv
<1>2. ASSUME NEW p \in Profiles, QueryValues(p)
      PROVE  ProfileInv'
  <2>1. /\ p \in asking /\ asking' = asking \ {p} /\ stage = "loading"
        /\ UNCHANGED <<tracking, missed, news, stage, enabled, current, profile, values>>
        /\ level' = [q \in DOMAIN level |->
                       IF q = p \/ (q = Current /\ p = current)
                       THEN VolumeOf(values[p]) ELSE level[q]]
    BY <1>2 DEF QueryValues
  <2>2. ~tracking
    BY <2>1 DEF ProfileInv, ProfileTypes
  <2>3. VolumeOf(values[p]) \in 0..100 /\ Current \notin Profiles
    BY VolumeType, ProfileAssumption DEF ProfileInv, ProfileTypes
  <2>4. ProfileTypes'
    BY <2>1, <2>3 DEF ProfileInv, ProfileTypes
  <2>5. asking # {None}
    BY <2>1, ProfileAssumption
  <2>6. \A q \in Profiles : VolumeOf(values'[q]) = VolumeOf(values[q])
    BY <2>1
  <2>7. ASSUME ~missed
        PROVE  Asked'
    <3>1. Asked
      BY <2>2, <2>5, <2>7 DEF ProfileInv
    <3>2. \A q \in Profiles \ asking' : level'[q] = VolumeOf(values[q])
      BY <2>1, <2>3, <3>1 DEF Asked, ProfileInv, ProfileTypes
    <3>3. profile \notin asking' => level'[Current] = VolumeOf(values[profile])
      BY <2>1, <2>3, <3>1 DEF Asked, ProfileInv, ProfileTypes
    <3>4. QED
      BY <2>1, <2>6, <3>1, <3>2, <3>3 DEF Asked, ProfileInv, ProfileTypes
  <2>8. QED
    BY <2>1, <2>2, <2>4, <2>7 DEF ProfileInv
<1>3. QED
  BY <1>1, <1>2

\* The tracking begins where the queries ended: no signal waits.
LEMMA TrackingKeeps ==
  ASSUME ProfileInv, TrackerInit
  PROVE  ProfileInv'
<1>1. /\ asking = {} /\ ~tracking /\ tracking' = TRUE /\ stage = "loading"
      /\ news = <<>> /\ Len(news) = 0
      /\ UNCHANGED <<stage, asking, current, level, enabled, profile, values,
                     news, missed>>
  BY DEF TrackerInit, ProfileInv
<1>2. ProfileTypes'
  BY <1>1 DEF ProfileInv, ProfileTypes
<1>3. ASSUME ~missed
      PROVE  \E at, of : Follows(at, of)'
  <2> DEFINE at == [i \in 0..0 |-> profile]
             of == [i \in 0..0 |-> values]
  <2>1. Asked
    BY <1>1, <1>3 DEF ProfileInv
  <2>2. /\ at \in [0..0 -> Profiles] /\ of \in [0..0 -> [Profiles -> Levels]]
        /\ at[0] = profile /\ of[0] = values
    BY DEF ProfileInv, ProfileTypes
  <2> HIDE DEF at, of
  <2>3. Follows(at, of)
    BY <1>1, <2>1, <2>2 DEF Follows, Asked, ProfileInv, ProfileTypes
  <2>4. \E a, o : Follows(a, o)
    BY <2>3
  <2>5. QED
    BY <1>1, <2>4 DEF Follows, VolumeOf
<1>4. QED
  BY <1>1, <1>2, <1>3 DEF ProfileInv

\* A further signal lengthens the way from the context to profiled by a step.
LEMMA FollowsAppend ==
  ASSUME ProfileTypes, NEW n \in News, NEW at, NEW of, Follows(at, of),
         news' = Append(news, n), UNCHANGED <<current, level>>,
         profile' \in Profiles, values' \in [Profiles -> Levels],
         Leads(n, profile, values, profile', values')
  PROVE  \E a, o : Follows(a, o)'
<1> DEFINE k == Len(news)
           a == [i \in 0..(k + 1) |-> IF i <= k THEN at[i] ELSE profile']
           o == [i \in 0..(k + 1) |-> IF i <= k THEN of[i] ELSE values']
<1>1. /\ k \in Nat /\ Len(news') = k + 1 /\ news'[k + 1] = n
      /\ \A i \in 1..k : news'[i] = news[i]
  BY DEF ProfileTypes
<1>2. /\ at \in [0..k -> Profiles] /\ of \in [0..k -> [Profiles -> Levels]]
      /\ at[0] = current /\ at[k] = profile /\ of[k] = values
      /\ \A i \in 1..k : Leads(news[i], at[i - 1], of[i - 1], at[i], of[i])
  BY DEF Follows
<1> HIDE DEF k
<1>3. /\ a \in [0..(k + 1) -> Profiles] /\ o \in [0..(k + 1) -> [Profiles -> Levels]]
      /\ a[k + 1] = profile' /\ o[k + 1] = values'
      /\ \A i \in 0..k : a[i] = at[i] /\ o[i] = of[i]
  BY <1>1, <1>2
<1> HIDE DEF a, o
<1>4. \A i \in 1..(k + 1) : Leads(news'[i], a[i - 1], o[i - 1], a[i], o[i])
  <2> SUFFICES ASSUME NEW i \in 1..(k + 1)
               PROVE  Leads(news'[i], a[i - 1], o[i - 1], a[i], o[i])
    OBVIOUS
  <2>1. CASE i = k + 1
    <3>1. i - 1 = k /\ k \in 0..k
      BY <1>1, <2>1
    <3>2. a[i - 1] = profile /\ o[i - 1] = values
      BY <1>2, <1>3, <3>1
    <3>3. a[i] = profile' /\ o[i] = values' /\ news'[i] = n
      BY <1>1, <1>3, <2>1
    <3>4. QED
      BY <3>2, <3>3
  <2>2. CASE i \in 1..k
    <3>1. i \in 0..k /\ i - 1 \in 0..k
      BY <1>1, <2>2
    <3>2. /\ a[i] = at[i] /\ a[i - 1] = at[i - 1]
          /\ o[i] = of[i] /\ o[i - 1] = of[i - 1] /\ news'[i] = news[i]
      BY <1>1, <1>3, <2>2, <3>1
    <3>3. QED
      BY <1>2, <2>2, <3>2
  <2>3. QED
    BY <1>1, <2>1, <2>2
<1>5. a[0] = at[0] /\ o[0] = of[0]
  BY <1>1, <1>3
<1>6. PICK x, y : /\ x \in [0..(k + 1) -> Profiles]
                  /\ y \in [0..(k + 1) -> [Profiles -> Levels]]
                  /\ x[0] = at[0] /\ y[0] = of[0]
                  /\ x[k + 1] = profile' /\ y[k + 1] = values'
                  /\ \A i \in 1..(k + 1) :
                       Leads(news'[i], x[i - 1], y[i - 1], x[i], y[i])
  BY <1>3, <1>4, <1>5
<1>7. Follows(x, y)'
  BY <1>1, <1>2, <1>6 DEF Follows
<1>8. QED
  BY <1>7

\* What profiled does is announced when it is tracked, and noted when it gets
\* behind the back of the queries.
LEMMA ProfiledKeeps ==
  ASSUME ProfileInv, NEW p \in Profiles,
         SwitchProfile(p) \/ \E l \in Levels : ChangeValue(p, l)
  PROVE  ProfileInv'
<1>1. /\ UNCHANGED <<stage, asking, tracking, current, level, enabled>>
      /\ profile' \in Profiles /\ values' \in [Profiles -> Levels]
      /\ missed' \in BOOLEAN /\ (missed => missed')
      /\ tracking => missed' = missed
      /\ \E n \in News : Announces(n) /\ Leads(n, profile, values, profile', values')
  <2>1. CASE SwitchProfile(p)
    <3>1. /\ UNCHANGED <<stage, asking, tracking, current, level, enabled, values>>
          /\ profile' = p
          /\ missed' = (missed \/ (~tracking /\ asking # {None}))
      BY <2>1 DEF SwitchProfile
    <3>2. PICK reported \in {TRUE, values[p] # values[profile]} :
            Announces([switch |-> TRUE, profile |-> p, value |-> values[p],
                       reported |-> reported])
      BY <2>1 DEF SwitchProfile
    <3>3. reported \in BOOLEAN /\ (~reported => values[p] = values[profile])
      BY <3>2
    <3> DEFINE n == [switch |-> TRUE, profile |-> p, value |-> values[p],
                     reported |-> reported]
    <3>4. n \in News
      BY <3>3 DEF News, ProfileInv, ProfileTypes
    <3>5. Leads(n, profile, values, profile', values')
      BY <3>1, <3>3 DEF Leads
    <3>6. \E m \in News : Announces(m) /\ Leads(m, profile, values, profile', values')
      BY <3>2, <3>4, <3>5
    <3>7. QED
      BY <3>1, <3>6 DEF ProfileInv, ProfileTypes
  <2>2. ASSUME NEW l \in Levels, ChangeValue(p, l)
        PROVE  <1>1!:
    <3>1. /\ UNCHANGED <<stage, asking, tracking, current, level, enabled, profile>>
          /\ values' = [values EXCEPT ![p] = l]
          /\ missed' = (missed \/ (~tracking /\ asking # {None} /\ p \notin asking))
      BY <2>2 DEF ChangeValue
    <3> DEFINE n == [switch |-> FALSE, profile |-> p, value |-> l, reported |-> TRUE]
    <3>2. n \in News
      BY DEF News
    <3>3. Announces(n)
      BY <2>2 DEF ChangeValue
    <3>4. Leads(n, profile, values, profile', values')
      BY <3>1 DEF Leads
    <3>5. \E m \in News : Announces(m) /\ Leads(m, profile, values, profile', values')
      BY <3>2, <3>3, <3>4
    <3>6. QED
      BY <3>1, <3>5 DEF ProfileInv, ProfileTypes
  <2>3. QED
    BY <2>1, <2>2
<1>2. PICK n \in News : Announces(n) /\ Leads(n, profile, values, profile', values')
  BY <1>1
<1>3. ProfileTypes'
  BY <1>1, <1>2 DEF Announces, ProfileInv, ProfileTypes
<1>4. ASSUME ~tracking
      PROVE  news' = <<>> /\ (~missed' /\ asking # {None} => Asked')
  <2>1. news' = <<>>
    BY <1>2, <1>4 DEF Announces, ProfileInv
  <2>2. CASE SwitchProfile(p)
    BY <1>4, <2>1, <2>2 DEF SwitchProfile
  <2>3. ASSUME NEW l \in Levels, ChangeValue(p, l), ~missed', asking # {None}
        PROVE  Asked'
    <3>1. ~missed /\ p \in asking
      BY <1>4, <2>3 DEF ChangeValue
    <3>2. Asked
      BY <1>4, <2>3, <3>1 DEF ProfileInv
    <3>3. profile' = profile /\ \A q \in Profiles \ asking : values'[q] = values[q]
      BY <2>3, <3>1 DEF ChangeValue, ProfileInv, ProfileTypes
    <3>4. QED
      BY <1>1, <3>2, <3>3 DEF Asked
  <2>4. QED
    BY <2>1, <2>2, <2>3
<1>5. ASSUME tracking, ~missed
      PROVE  \E a, o : Follows(a, o)'
  <2>1. PICK at, of : Follows(at, of)
    BY <1>5 DEF ProfileInv
  <2>2. news' = Append(news, n)
    BY <1>2, <1>5 DEF Announces
  <2>3. QED
    BY <1>1, <1>2, <2>1, <2>2, FollowsAppend DEF ProfileInv
<1>6. QED
  BY <1>1, <1>3, <1>4, <1>5 DEF ProfileInv

\* A signal is read: the context takes the first step of the way.
LEMMA ReceiveKeeps ==
  ASSUME ProfileInv, ReceiveProfile
  PROVE  ProfileInv'
<1> DEFINE n == Head(news)
           c == IF n.switch THEN n.profile ELSE current
           v == VolumeOf(n.value)
<1>1. /\ stage = "running" /\ news # <<>> /\ news' = Tail(news) /\ current' = c
      /\ UNCHANGED <<stage, asking, tracking, profile, values, missed>>
      /\ IF n.reported
         THEN /\ level' = LevelsAfter(n.profile, v, c)
              /\ enabled' = IF n.profile = c THEN EnabledAfter(v, enabled) ELSE enabled
         ELSE UNCHANGED <<level, enabled>>
  BY DEF ReceiveProfile
<1>2. tracking /\ ProfileTypes /\ Current \notin Profiles
  BY <1>1, ProfileAssumption DEF ProfileInv
<1>3. /\ Len(news) \in Nat \ {0} /\ news' \in Seq(News)
      /\ Len(news') = Len(news) - 1 /\ n = news[1] /\ n \in News
      /\ \A i \in 1..Len(news') : news'[i] = news[i + 1]
  BY <1>1, <1>2 DEF ProfileTypes
<1>4. /\ n.switch \in BOOLEAN /\ n.profile \in Profiles /\ n.value \in Levels
      /\ n.reported \in BOOLEAN
  BY <1>3 DEF News
<1>5. v \in 0..100
  BY <1>4, VolumeType
<1> HIDE DEF n, v
<1>6. n.reported =>
        \A q \in Profiles \cup {Current} :
          level'[q] = IF q = n.profile \/ (q = Current /\ n.profile = c)
                      THEN v ELSE level[q]
  BY <1>1, <1>2 DEF LevelsAfter, ProfileTypes
<1>7. level' \in [Profiles \cup {Current} -> 0..100] /\ enabled' \in BOOLEAN
  BY <1>1, <1>2, <1>5 DEF LevelsAfter, EnabledAfter, ProfileTypes
<1>8. ProfileTypes'
  BY <1>1, <1>2, <1>3, <1>7 DEF ProfileTypes
<1>9. level'[Current] > 0 => enabled'
  <2>1. level[Current] > 0 => enabled
    BY <1>1 DEF ProfileInv
  <2>2. CASE n.reported /\ n.profile = c
    <3>1. level'[Current] = v
      BY <1>6, <2>2
    <3>2. enabled' = EnabledAfter(v, enabled) /\ enabled \in BOOLEAN
      BY <1>1, <1>2, <2>2 DEF ProfileTypes
    <3>3. ASSUME v > 0
          PROVE  EnabledAfter(v, enabled)
      <4>1. ~(v <= 0)
        BY <1>5, <3>3
      <4>2. QED
        BY <3>2, <4>1, Zenon DEF EnabledAfter
    <3>4. QED
      BY <3>1, <3>2, <3>3
  <2>3. CASE n.reported /\ n.profile # c
    BY <1>1, <1>2, <1>4, <1>6, <2>1, <2>3
  <2>4. CASE ~n.reported
    BY <1>1, <2>1, <2>4
  <2>5. QED
    BY <2>2, <2>3, <2>4
<1>10. ASSUME ~missed
       PROVE  \E a, o : Follows(a, o)'
  <2>1. PICK at, of : Follows(at, of)
    BY <1>2, <1>10 DEF ProfileInv
  <2> DEFINE k == Len(news')
             a == [i \in 0..k |-> at[i + 1]]
             o == [i \in 0..k |-> of[i + 1]]
  <2>2. k \in Nat /\ Len(news) = k + 1
    BY <1>3
  <2> HIDE DEF k
  <2>3. /\ at \in [0..(k + 1) -> Profiles]
        /\ of \in [0..(k + 1) -> [Profiles -> Levels]]
        /\ at[0] = current /\ at[k + 1] = profile /\ of[k + 1] = values
        /\ \A p \in Profiles : level[p] = VolumeOf(of[0][p])
        /\ level[Current] = VolumeOf(of[0][current])
        /\ \A i \in 1..(k + 1) :
             Leads(news[i], at[i - 1], of[i - 1], at[i], of[i])
    BY <2>1, <2>2 DEF Follows
  <2>4. /\ a \in [0..k -> Profiles] /\ o \in [0..k -> [Profiles -> Levels]]
        /\ \A i \in 0..k : a[i] = at[i + 1] /\ o[i] = of[i + 1]
    BY <2>2, <2>3
  <2> HIDE DEF a, o
  <2>5. a[0] = at[1] /\ o[0] = of[1] /\ a[k] = profile /\ o[k] = values
    BY <2>2, <2>3, <2>4
  <2>6. \A i \in 1..k : Leads(news'[i], a[i - 1], o[i - 1], a[i], o[i])
    <3> SUFFICES ASSUME NEW i \in 1..k
                 PROVE  Leads(news'[i], a[i - 1], o[i - 1], a[i], o[i])
      OBVIOUS
    <3>1. i + 1 \in 1..(k + 1) /\ i \in 0..k /\ i - 1 \in 0..k
          /\ (i + 1) - 1 = i /\ (i - 1) + 1 = i
      BY <2>2
    <3>2. news'[i] = news[i + 1]
      BY <1>3 DEF k
    <3>3. a[i - 1] = at[i] /\ o[i - 1] = of[i] /\ a[i] = at[i + 1] /\ o[i] = of[i + 1]
      BY <2>4, <3>1
    <3>4. Leads(news[i + 1], at[i], of[i], at[i + 1], of[i + 1])
      BY <2>3, <3>1
    <3>5. QED
      BY <3>2, <3>3, <3>4
  <2>7. Leads(n, current, of[0], at[1], of[1])
    <3>1. 1 \in 1..(k + 1) /\ 1 - 1 = 0
      BY <2>2
    <3>2. QED
      BY <1>3, <2>3, <3>1
  <2>8. /\ of[0] \in [Profiles -> Levels] /\ current \in Profiles /\ at[1] \in Profiles
    BY <2>2, <2>3
  <2>9. c = at[1]
    BY <2>7 DEF Leads
  <2>10. /\ \A p \in Profiles : level'[p] = VolumeOf(of[1][p])
         /\ level'[Current] = VolumeOf(of[1][c])
    <3>1. CASE n.switch /\ n.reported
      <4>1. c = n.profile /\ of[1] = of[0] /\ n.value = of[0][n.profile]
        BY <2>7, <3>1 DEF Leads
      <4>2. v = VolumeOf(of[1][n.profile])
        BY <4>1 DEF v
      <4>3. \A p \in Profiles : level'[p] = IF p = n.profile THEN v ELSE level[p]
        BY <1>2, <1>6, <3>1
      <4>4. level'[Current] = v
        BY <1>6, <3>1, <4>1
      <4>5. QED
        BY <2>3, <4>1, <4>2, <4>3, <4>4
    <3>2. CASE n.switch /\ ~n.reported
      <4>1. of[1] = of[0] /\ of[0][c] = of[0][current] /\ level' = level
        BY <1>1, <2>7, <3>2 DEF Leads
      <4>2. QED
        BY <2>3, <4>1
    <3>3. CASE ~n.switch
      <4>1. /\ n.reported /\ c = current
            /\ of[1] = [of[0] EXCEPT ![n.profile] = n.value]
        BY <2>7, <3>3 DEF Leads
      <4>2. of[1][n.profile] = n.value
            /\ \A p \in Profiles \ {n.profile} : of[1][p] = of[0][p]
        BY <1>4, <2>8, <4>1
      <4>3. v = VolumeOf(of[1][n.profile])
        BY <4>2 DEF v
      <4>4. \A p \in Profiles : level'[p] = IF p = n.profile THEN v ELSE level[p]
        BY <1>2, <1>6, <4>1
      <4>5. level'[Current] = IF n.profile = c THEN v ELSE level[Current]
        BY <1>2, <1>4, <1>6, <4>1
      <4>6. level'[Current] = VolumeOf(of[1][c])
        BY <2>3, <2>8, <4>1, <4>2, <4>3, <4>5
      <4>7. QED
        BY <2>3, <4>2, <4>3, <4>4, <4>6
    <3>4. QED
      BY <1>4, <3>1, <3>2, <3>3
  <2>11. PICK x, y : /\ x \in [0..k -> Profiles]
                     /\ y \in [0..k -> [Profiles -> Levels]]
                     /\ x[0] = at[1] /\ y[0] = of[1] /\ x[k] = profile /\ y[k] = values
                     /\ \A i \in 1..k :
                          Leads(news'[i], x[i - 1], y[i - 1], x[i], y[i])
    BY <2>4, <2>5, <2>6
  <2>12. Follows(x, y)'
    BY <1>1, <2>9, <2>10, <2>11 DEF Follows, k
  <2>13. QED
    BY <2>12
<1>11. QED
  BY <1>1, <1>2, <1>8, <1>9, <1>10 DEF ProfileInv

\* A step of the D-Bus trackers leaves the profile plugin alone.
LEMMA ProfileStep == ProfileInv /\ [Next]_vars => ProfileInv'
<1> SUFFICES ASSUME ProfileInv, [Next]_vars
             PROVE  ProfileInv'
  OBVIOUS
<1>1. CASE UNCHANGED <<stage, profileVars>>
  <2>1. /\ UNCHANGED <<stage, tracking, missed, asking, news, level, enabled>>
        /\ ProfileTypes' /\ (Asked => Asked')
    BY <1>1 DEF profileVars, ProfileInv, ProfileTypes, Asked
  <2>2. ASSUME NEW at, NEW of, Follows(at, of)
        PROVE  Follows(at, of)'
    BY <1>1, <2>2 DEF profileVars, Follows
  <2>3. QED
    BY <2>1, <2>2 DEF ProfileInv
<1>2. ASSUME NEW s \in Services,
             \/ LoadTracker(s) \/ Receive(s) \/ Serve(s) \/ NotThere(s)
             \/ \E v \in States[s] : Change(s, v) \/ Restart(s, v)
      PROVE  ProfileInv'
  BY <1>1, <1>2 DEF LoadTracker, Receive, Serve, NotThere, Change, Restart
<1>3. CASE InitDone
  <2>1. /\ tracking /\ stage' = "running" /\ enabled' = (level[Current] > 0)
        /\ UNCHANGED <<tracking, missed, asking, news, level>> /\ ProfileTypes'
    BY <1>3 DEF InitDone, ProfileInv, ProfileTypes
  <2>2. ASSUME NEW at, NEW of, Follows(at, of)
        PROVE  Follows(at, of)'
    BY <1>3, <2>2 DEF InitDone, Follows
  <2>3. QED
    BY <2>1, <2>2 DEF ProfileInv
<1>4. CASE UNCHANGED vars
  BY <1>1, <1>4 DEF vars
<1>5. QED
  BY <1>2, <1>3, <1>4, QueriesKeep, TrackingKeeps, ReceiveKeeps, ProfiledKeeps
  DEF Next

\* profile: for any profiles, levels, table of volumes and number of changes,
\* when no signal of profiled waits the context has the levels of all profiles
\* and of the active one, and gst plays system sounds while it is positive.
THEOREM LevelsFollow == Spec => []LevelFollows
<1>1. ASSUME ProfileInv, tracking, news = <<>>, ~missed
      PROVE  /\ current = profile /\ level[Current] = VolumeOf(values[profile])
             /\ \A p \in Profiles : level[p] = VolumeOf(values[p])
  <2>1. PICK at, of : Follows(at, of)
    BY <1>1 DEF ProfileInv
  <2>2. Len(news) = 0
    BY <1>1
  <2>3. QED
    BY <2>1, <2>2 DEF Follows
<1>2. ProfileInv => LevelFollows
  BY <1>1 DEF ProfileInv, LevelFollows
<1>3. QED
  BY <1>2, ProfileInit, ProfileStep, PTL DEF Spec
=============================================================================
