----------------------------- MODULE SinksProofs -----------------------------
(***************************************************************************)
(* Theorems about Sinks, for every set of devices, requests, samples,      *)
(* patterns, effects and slots, and for any number of plays.               *)
(***************************************************************************)
EXTENDS Sinks, WellFoundedInduction, SequenceTheorems, TLAPS

-----------------------------------------------------------------------------
(* Numbers and lists.                                                      *)

\* A set of numbers that is not empty has a least member.
LEMMA LeastExists ==
  ASSUME NEW S, S \subseteq Nat, S # {}
  PROVE  \E x \in S : \A y \in S : x <= y
<1>1. PICK x \in S : \A y \in S : ~ (<<y, x>> \in OpToRel(<, Nat))
  BY ONLY S # {}, S \subseteq Nat, WFMin, NatLessThanWellFounded, Zenon
<1>2. \A y \in S : y < x => <<y, x>> \in OpToRel(<, Nat)
  BY <1>1 DEF OpToRel
<1>3. \A y \in S : ~ (y < x)
  BY <1>1, <1>2, Zenon
<1>4. QED
  BY ONLY <1>3, S \subseteq Nat, x \in S

\* Induction over a set of numbers, which is the form the provers can use.
LEMMA SetInduction ==
  ASSUME NEW T, 0 \in T, \A n \in Nat : n \in T => n + 1 \in T
  PROVE  Nat \subseteq T
<1> DEFINE Rest == Nat \ T
<1>1. SUFFICES ASSUME Rest # {}
               PROVE  FALSE
  OBVIOUS
<1>2. PICK x \in Rest : \A y \in Rest : x <= y
  <2>1. Rest \subseteq Nat
    OBVIOUS
  <2> HIDE DEF Rest
  <2>2. QED
    BY <1>1, <2>1, LeastExists
<1>3. x # 0 /\ x - 1 \in Nat /\ x - 1 \notin T
  BY <1>2
<1>4. QED
  BY <1>2, <1>3

\* What is left of the list s without r, for each part of s from its beginning.
Rest(s, r, m, f) ==
  f = [n \in 0..m |-> IF n = 0 THEN <<>>
                      ELSE IF s[n] = r THEN f[n - 1] ELSE Append(f[n - 1], s[n])]

LEMMA RestExists ==
  ASSUME NEW S, NEW s \in Seq(S), NEW r
  PROVE  \E f : Rest(s, r, Len(s), f)
<1> DEFINE T == {m \in Nat : \E f : Rest(s, r, m, f)}
<1>1. 0 \in T
  <2>1. Rest(s, r, 0, [n \in 0..0 |-> <<>>])
    BY DEF Rest
  <2>2. QED
    BY <2>1
<1>2. ASSUME NEW m \in Nat, m \in T
      PROVE  m + 1 \in T
  <2>1. PICK f : Rest(s, r, m, f)
    BY <1>2
  <2> DEFINE last == IF s[m + 1] = r THEN f[m] ELSE Append(f[m], s[m + 1])
             g == [n \in 0..(m + 1) |-> IF n = m + 1 THEN last ELSE f[n]]
  <2> HIDE DEF last
  <2>2. \A n \in 0..(m + 1) :
          g[n] = IF n = 0 THEN <<>>
                 ELSE IF s[n] = r THEN g[n - 1] ELSE Append(g[n - 1], s[n])
    <3> TAKE n \in 0..(m + 1)
    <3>1. CASE n = m + 1
      <4>1. n - 1 \in 0..(m + 1) /\ n - 1 = m /\ n # 0
        BY <3>1
      <4>2. g[n - 1] = f[m] /\ g[n] = last
        BY <3>1, <4>1
      <4>3. QED
        BY <3>1, <4>1, <4>2 DEF last
    <3>2. CASE n # m + 1
      <4>1. n \in 0..m /\ g[n] = f[n]
        BY <3>2
      <4>2. n # 0 => g[n - 1] = f[n - 1]
        BY <3>2
      <4>3. f[n] = IF n = 0 THEN <<>>
                   ELSE IF s[n] = r THEN f[n - 1] ELSE Append(f[n - 1], s[n])
        BY <2>1, <4>1 DEF Rest
      <4>4. QED
        BY <4>1, <4>2, <4>3
    <3>3. QED
      BY <3>1, <3>2
  <2>3. Rest(s, r, m + 1, g)
    BY <2>2 DEF Rest
  <2>4. QED
    BY <2>3
<1>3. Nat \subseteq T
  <2> HIDE DEF T
  <2>1. QED
    BY <1>1, <1>2, SetInduction
<1>4. Len(s) \in Nat
  OBVIOUS
<1>5. QED
  BY <1>3, <1>4

\* It is a list of the members of s that are not r, and of all of them.
LEMMA RestFacts ==
  ASSUME NEW S, NEW s \in Seq(S), NEW r, NEW f, Rest(s, r, Len(s), f)
  PROVE  /\ f[Len(s)] \in Seq(S)
         /\ \A i \in DOMAIN f[Len(s)] :
              f[Len(s)][i] # r /\ \E j \in DOMAIN s : f[Len(s)][i] = s[j]
         /\ \A j \in DOMAIN s : s[j] # r => \E i \in DOMAIN f[Len(s)] : f[Len(s)][i] = s[j]
<1> DEFINE Fine(m, l) ==
             /\ l \in Seq(S)
             /\ \A i \in DOMAIN l : l[i] # r /\ \E j \in DOMAIN s : l[i] = s[j]
             /\ \A j \in 1..m : s[j] # r => \E i \in DOMAIN l : l[i] = s[j]
           T == {m \in Nat : m <= Len(s) => Fine(m, f[m])}
<1>0. \A n \in 0..Len(s) :
        f[n] = IF n = 0 THEN <<>>
               ELSE IF s[n] = r THEN f[n - 1] ELSE Append(f[n - 1], s[n])
  BY DEF Rest
<1>1. 0 \in T
  <2>1. f[0] = <<>>
    BY <1>0
  <2>2. <<>> \in Seq(S) /\ DOMAIN <<>> = {}
    OBVIOUS
  <2>3. Fine(0, f[0])
    BY <2>1, <2>2
  <2>4. QED
    BY <2>3
<1>2. ASSUME NEW m \in Nat, m \in T
      PROVE  m + 1 \in T
  <2>1. SUFFICES ASSUME m + 1 <= Len(s)
                 PROVE  Fine(m + 1, f[m + 1])
    OBVIOUS
  <2>2. f[m + 1] = IF s[m + 1] = r THEN f[m] ELSE Append(f[m], s[m + 1])
    <3>1. m + 1 \in 0..Len(s) /\ m + 1 # 0 /\ (m + 1) - 1 = m
      BY <2>1
    <3>2. QED
      BY <1>0, <3>1
  <2>3. Fine(m, f[m])
    <3> HIDE DEF Fine
    <3>1. QED
      BY <1>2, <2>1
  <2>4. m + 1 \in DOMAIN s /\ s[m + 1] \in S
    BY <2>1
  <2>5. CASE s[m + 1] # r
    <3>1. PICK l : l = f[m]
      OBVIOUS
    <3>2. Fine(m, l) /\ f[m + 1] = Append(l, s[m + 1])
      BY <2>2, <2>3, <2>5, <3>1
    <3>3. /\ Append(l, s[m + 1]) \in Seq(S)
          /\ DOMAIN Append(l, s[m + 1]) = 1..(Len(l) + 1)
          /\ \A i \in 1..(Len(l) + 1) :
               Append(l, s[m + 1])[i] = IF i = Len(l) + 1 THEN s[m + 1] ELSE l[i]
      BY <2>4, <3>2
    <3>4. DOMAIN l = 1..Len(l) /\ Len(l) \in Nat
      BY <3>2
    <3>5. Fine(m + 1, Append(l, s[m + 1]))
      <4>1. ASSUME NEW i \in DOMAIN Append(l, s[m + 1])
            PROVE  /\ Append(l, s[m + 1])[i] # r
                   /\ \E j \in DOMAIN s : Append(l, s[m + 1])[i] = s[j]
        <5>1. CASE i = Len(l) + 1
          BY <2>4, <2>5, <3>3, <5>1
        <5>2. CASE i # Len(l) + 1
          <6>1. i \in DOMAIN l /\ Append(l, s[m + 1])[i] = l[i]
            BY <3>3, <3>4, <5>2
          <6>2. QED
            BY <3>2, <6>1
        <5>3. QED
          BY <5>1, <5>2
      <4>2. ASSUME NEW j \in 1..(m + 1), s[j] # r
            PROVE  \E i \in DOMAIN Append(l, s[m + 1]) : Append(l, s[m + 1])[i] = s[j]
        <5>1. CASE j = m + 1
          <6>1. Len(l) + 1 \in DOMAIN Append(l, s[m + 1])
            BY <3>3, <3>4
          <6>2. QED
            BY <3>3, <5>1, <6>1
        <5>2. CASE j # m + 1
          <6>1. PICK i \in DOMAIN l : l[i] = s[j]
            BY <3>2, <4>2, <5>2
          <6>2. i \in DOMAIN Append(l, s[m + 1]) /\ Append(l, s[m + 1])[i] = l[i]
            BY <3>3, <3>4
          <6>3. QED
            BY <6>1, <6>2
        <5>3. QED
          BY <5>1, <5>2
      <4>3. QED
        BY <3>3, <4>1, <4>2
    <3>6. QED
      BY <3>2, <3>5
  <2>6. CASE s[m + 1] = r
    <3>1. f[m + 1] = f[m]
      BY <2>2, <2>6
    <3>2. \A j \in 1..(m + 1) : s[j] # r => j \in 1..m
      BY <2>6
    <3>3. QED
      BY <2>3, <3>1, <3>2
  <2>7. QED
    BY <2>5, <2>6
<1>3. Nat \subseteq T
  <2> HIDE DEF T
  <2>1. QED
    BY <1>1, <1>2, SetInduction
<1>4. Len(s) \in T
  BY <1>3
<1>5. QED
  BY <1>4

LEMMA WithoutFacts ==
  ASSUME NEW S, NEW r, active \in Seq(S)
  PROVE  /\ Mce!Without(r) \in Seq(S)
         /\ \A i \in DOMAIN Mce!Without(r) :
              /\ Mce!Without(r)[i] # r
              /\ \E j \in DOMAIN active : Mce!Without(r)[i] = active[j]
         /\ \A j \in DOMAIN active : active[j] # r =>
              \E i \in DOMAIN Mce!Without(r) : Mce!Without(r)[i] = active[j]
<1>1. PICK f : Rest(active, r, Len(active), f)
  BY RestExists
<1> DEFINE g == CHOOSE h : Rest(active, r, Len(active), h)
<1>2. Rest(active, r, Len(active), g)
  BY <1>1, Zenon
<1>3. Mce!Without(r) = g[Len(active)]
  BY DEF Mce!Without, Rest
<1> HIDE DEF g
<1>4. QED
  BY <1>2, <1>3, RestFacts

-----------------------------------------------------------------------------
(* The inductive invariants, one for each device.                          *)

\* canberra: what is cached is what the connection has.
Cache ==
  /\ context => cached \subseteq server
  /\ cached \subseteq Samples /\ server \subseteq Samples
  /\ context \in BOOLEAN /\ caching \in BOOLEAN

\* Before it is played a request has no timer, and while it was played once at
\* most the one that its data names.
Datum(r) ==
  /\ plays[r] <= MaxPlays /\ timers[r] \subseteq 1..plays[r]
  /\ r \in kept => id[r] \in timers[r] \cup {0}
  /\ phase[r] = "none" => id[r] = 0 /\ plays[r] = 0
  /\ plays[r] <= 1 => timers[r] \subseteq (IF r \in kept THEN {id[r]} ELSE {})

CanberraInv ==
  /\ phase \in [Requests -> Phases]
  /\ kept = {r \in Requests : Held(r)}
  /\ sample \in [Requests -> Samples \cup {"silence"}]
  /\ misused \in BOOLEAN
  /\ plays \in [Requests -> Nat] /\ timers \in [Requests -> SUBSET Nat]
  /\ id \in [Requests -> Nat]
  /\ Cache
  /\ \A r \in Requests : Datum(r)

\* mce: types; and the pattern of a request is the one it wants.
Calls    == {"activate", "deactivate"} \X Patterns
Messages == {"ack", "deactivated"} \X Patterns

MceShape ==
  /\ phase \in [Requests -> Phases] /\ plays \in [Requests -> Nat]
  /\ wanted \in [Requests -> Patterns \cup {"no pattern"}]
  /\ pattern \in [Requests -> Patterns \cup {"no pattern"}]
  /\ \A r \in Requests : pattern[r] \in {"no pattern", wanted[r]}
  /\ active \in Seq(Requests) /\ lit \subseteq Patterns
  /\ toMce \in Seq(Calls)
  /\ fromMce \in Seq(Messages)

\* The calls for a pattern that wait: mce is asked once at most to light it; and
\* whatever lights it is followed by what puts it out.
Waiting(call, p) == {i \in DOMAIN toMce : toMce[i] = <<call, p>>}
Once(p) == \A i, j \in Waiting("activate", p) : i = j
PutOutAfter(p) ==
  \A i \in Waiting("activate", p) : \E j \in Waiting("deactivate", p) : i < j

\* A pattern that is not lit and will not be by a call that waits.
Dark(p) == p \notin lit /\ Waiting("activate", p) = {}

EndIsTold(p) == \E i \in DOMAIN fromMce : fromMce[i] = <<"deactivated", p>>
Listed(r)    == \E i \in DOMAIN active : active[i] = r

\* A request that alone wants pattern p and is played once.  Until it is stopped
\* nothing puts the pattern out; when it has ended it stays dark, and until then
\* the request is listed, so that the stop finds it.
LightIsFollowed(r, p) ==
  /\ plays[r] = 0 => Dark(p) /\ ~EndIsTold(p)
  /\ phase[r] # "gone" =>
       /\ Waiting("deactivate", p) = {} /\ Once(p)
       /\ p \in lit => Waiting("activate", p) = {}
       /\ EndIsTold(p) => Dark(p)
       /\ plays[r] = 1 => pattern[r] = p /\ (Dark(p) \/ Listed(r))
  /\ phase[r] = "gone" =>
       /\ p \in lit => Waiting("deactivate", p) # {}
       /\ PutOutAfter(p)

Alone(r) == \A q \in Requests \ {r} : wanted[q] # wanted[r]

ListIsHeld == \A i \in DOMAIN active : Held(active[i]) /\ pattern[active[i]] \in Patterns

MceInv ==
  /\ MceShape /\ ListIsHeld
  /\ \A r \in Requests, p \in Patterns :
       wanted[r] = p /\ Alone(r) /\ plays[r] <= 1 => LightIsFollowed(r, p)

\* immvibe: a request that was never started.
Fresh(r) == effect[r] = 0 /\ polls[r] = 0 /\ idles[r] = 0 /\ r \notin told

\* What sounds is the effect of a request that is held.
Owned == \A k \in sounding : \E r \in Requests : Held(r) /\ effect[r] = k

\* Only a fresh request is started: one whose start was swallowed by a pause is
\* still fresh, and after a start a play finds the request paused.
VibeData(r) ==
  /\ phase[r] = "none" => r \notin patterned /\ r \notin paused /\ Fresh(r)
  /\ r \notin patterned => effect[r] = 0 /\ polls[r] = 0 /\ r \notin halted
  /\ r \in patterned =>
       /\ polls[r] + idles[r] <= 1
       /\ polls[r] + idles[r] > 0 => Held(r)
       /\ r \in halted => r \in paused
       /\ r \in paused /\ r \notin halted => Fresh(r)
       /\ phase[r] = "prepared" => Fresh(r) /\ (r \in paused => r \in halted)
       /\ phase[r] = "playing" /\ polls[r] + idles[r] = 0 /\ r \notin told =>
            r \in paused /\ r \notin halted

ImmvibeInv ==
  /\ phase \in [Requests -> Phases] /\ plays \in [Requests -> Nat]
  /\ effect \in [Requests -> Effects \cup {0}]
  /\ polls \in [Requests -> Nat] /\ idles \in [Requests -> Nat]
  /\ sounding \subseteq Effects /\ patterned \subseteq Requests
  /\ Owned
  /\ \A r \in Requests : VibeData(r)

\* ffmemless: types.
FfmEffect == [id : Slots \cup {-1}, cached : Slots \cup {-1}, repeats : BOOLEAN, timed : BOOLEAN]

FfmShape ==
  /\ phase \in [Requests -> Phases] /\ plays \in [Requests -> Nat]
  /\ cacheEffects \in BOOLEAN
  /\ table \in [Ffm!Table -> FfmEffect] /\ copy \in [Requests -> FfmEffect]
  /\ slot \in [Slots -> Ffm!Table \cup Requests \cup {"free"}]
  /\ timers \in [Requests -> SUBSET Nat] /\ poll \in [Requests -> Nat]

\* The effects of the table; before the first is set up there is none.
TableData ==
  /\ setup = "default" => toDo = {} /\ \A e \in Ffm!Table : table[e].id = -1
  /\ \A k \in Slots : slot[k] \in Ffm!Table => table[slot[k]].id = k
  /\ ~cacheEffects => \A e \in Ffm!Table : table[e].id # -1 => slot[table[e].id] = e

\* A request that was not started early is in the kernel, or has a timer, only
\* between its play and its pause or stop.
FfmData(r) ==
  r \notin early =>
    /\ timers[r] \subseteq {poll[r]}
    /\ timers[r] # {} => Held(r) /\ r \in played /\ r \notin paused
    /\ \A k \in Slots : slot[k] = r =>
         Held(r) /\ r \in played /\ r \notin paused /\ copy[r].cached = k

FfmInv ==
  /\ FfmShape /\ TableData
  /\ cacheEffects \/ \A k \in Slots : slot[k] \notin Requests
  /\ \A r \in Requests : FfmData(r)

\* tonegen: some request of the type was played and is not stopped yet.
Wanted(k) == \E r \in Requests : kind[r] = k /\ Held(r) /\ r \in played

ToneStream == [state : {"none", "creating", "ready", "failed"}, tones : BOOLEAN]

\* A tone has a stream and a request; muting has a tone, a timeout or neither
\* from the start.
ToneParts ==
  /\ stream \in [Tone!Kinds -> ToneStream]
  /\ stream["indicator"].tones =>
       stream["indicator"].state # "none" /\ (stuck \/ Wanted("indicator"))
  /\ stream["dtmf"].tones => stream["dtmf"].state # "none" /\ Wanted("dtmf")
  /\ link # "ready" => stream["indicator"].state = "none" /\ stream["dtmf"].state = "none"
  /\ link = "down" <=> retry
  /\ mute => unmute \/ stream["dtmf"].tones \/ toneless

TonegenInv ==
  /\ phase \in [Requests -> Phases] /\ kind \in [Requests -> Tone!Kinds]
  /\ mute \in BOOLEAN /\ unmute \in BOOLEAN /\ toneless \in BOOLEAN /\ stuck \in BOOLEAN
  /\ ToneParts

SinksInv ==
  /\ device \in Devices
  /\ device = "canberra"  => CanberraInv
  /\ device = "mce"       => MceInv
  /\ device = "immvibe"   => ImmvibeInv
  /\ device = "ffmemless" => FfmInv
  /\ device = "tonegen"   => TonegenInv

-----------------------------------------------------------------------------
(* canberra.                                                                *)

LEMMA CanberraInit ==
  ASSUME Canberra!Init
  PROVE  CanberraInv
<1> USE DEF Canberra!Init, Canberra!ContractInit
<1>1. Cache
  BY DEF Cache
<1>2. kept = {r \in Requests : Held(r)}
  BY DEF Held
<1>3. ASSUME NEW r \in Requests
      PROVE  Datum(r)
  <2>1. plays[r] = 0 /\ timers[r] = {} /\ id[r] = 0 /\ kept = {}
    OBVIOUS
  <2>2. plays[r] <= MaxPlays
    <3>1. MaxPlays \in Nat
      BY SinksAssumption
    <3>2. QED
      BY ONLY <2>1, <3>1
  <2>3. QED
    BY <2>1, <2>2, Zenon DEF Datum
<1>4. QED
  BY <1>1, <1>2, <1>3 DEF CanberraInv, Phases, Canberra!Silence

LEMMA CallsKeepCache ==
  ASSUME Cache, NEW s \in Samples,
         Canberra!SampleReady(s) \/ Canberra!ConnectFails \/ Canberra!Disconnects(s)
  PROVE  Cache'
<1>1. CASE Canberra!SampleReady(s)
  BY <1>1 DEF Cache, Canberra!SampleReady, Canberra!Connected
<1>2. CASE Canberra!ConnectFails
  BY <1>2 DEF Cache, Canberra!ConnectFails
<1>3. CASE Canberra!Disconnects(s)
  BY <1>3 DEF Cache, Canberra!Disconnects, Canberra!Connected
<1>4. QED
  BY <1>1, <1>2, <1>3

\* A play keeps the data, whether it works or fails, once the phase moves on.
LEMMA PlayKeepsData ==
  ASSUME CanberraInv, NEW r \in Requests, Held(r), plays[r] < MaxPlays,
         phase' \in [Requests -> Phases], \A q \in Requests : Held(q)' = Held(q),
         \A q \in Requests : phase'[q] = "none" => phase[q] = "none",
         Canberra!PlayWorks(r) \/ Canberra!PlayFails(r),
         UNCHANGED misused
  PROVE  CanberraInv'
<1> USE DEF CanberraInv
<1>1. Cache'
  <2>1. CASE Canberra!PlayFails(r)
    BY <2>1, CallsKeepCache DEF Canberra!PlayFails
  <2>2. CASE Canberra!PlayWorks(r) /\ sample[r] # "silence"
    BY <2>2, CallsKeepCache DEF Canberra!PlayWorks, Canberra!Silence
  <2>3. CASE Canberra!PlayWorks(r) /\ sample[r] = "silence"
    BY <2>3 DEF Canberra!PlayWorks, Canberra!Silence, Canberra!caVars, Cache
  <2>4. QED
    BY <2>1, <2>2, <2>3
<1>2. kept' = {q \in Requests : Held(q)'}
  BY DEF Canberra!PlayFails, Canberra!PlayWorks, Canberra!dataVars
<1>3. CASE Canberra!PlayFails(r)
  BY <1>1, <1>2, <1>3 DEF Canberra!PlayFails, Canberra!dataVars, Datum
<1>4. CASE Canberra!PlayWorks(r)
  <2>1. /\ plays' = [plays EXCEPT ![r] = plays[r] + 1]
        /\ timers' = [timers EXCEPT ![r] = timers[r] \cup {plays[r] + 1}]
        /\ id' = [id EXCEPT ![r] = plays[r] + 1]
        /\ kept' = kept /\ sample' = sample
    BY <1>4 DEF Canberra!PlayWorks
  <2>2. ASSUME NEW q \in Requests
        PROVE  Datum(q)'
    <3>1. CASE q = r
      <4>1. /\ plays'[r] = plays[r] + 1 /\ id'[r] = plays[r] + 1
            /\ timers'[r] = timers[r] \cup {plays[r] + 1}
        BY <2>1
      <4>2. plays[r] \in Nat /\ MaxPlays \in Nat /\ Datum(r)
        BY SinksAssumption
      <4>3. r \in kept' /\ phase'[r] # "none" /\ r \in kept
        BY <2>1 DEF Held
      <4>4. plays'[r] <= MaxPlays /\ timers'[r] \subseteq 1..plays'[r]
        BY <4>1, <4>2 DEF Datum
      <4>5. plays'[r] <= 1 => timers'[r] \subseteq {id'[r]}
        BY <4>1, <4>2 DEF Datum
      <4>6. QED
        BY <3>1, <4>1, <4>3, <4>4, <4>5 DEF Datum
    <3>2. CASE q # r
      BY <2>1, <3>2 DEF Datum
    <3>3. QED
      BY <3>1, <3>2
  <2>3. QED
    BY <1>1, <1>2, <2>1, <2>2
<1>5. QED
  BY <1>3, <1>4

\* What the core does to the phases: who is held is told by the call.
LEMMA CanberraStepKeepsInv ==
  ASSUME CanberraInv, Canberra!Next
  PROVE  CanberraInv'
<1> USE DEF CanberraInv
<1>1. ASSUME Canberra!EndAttempts
      PROVE  CanberraInv'
  <2>1. PICK R \in SUBSET Requests : Canberra!Ends(R)
    BY <1>1 DEF Canberra!EndAttempts
  <2>2. UNCHANGED <<kept, sample, plays, timers, id, context, cached, caching, server, misused>>
    BY <1>1 DEF Canberra!EndAttempts, Canberra!dataVars, Canberra!caVars
  <2>3. /\ phase' \in [Requests -> Phases]
        /\ \A q \in Requests : Held(q)' = Held(q)
        /\ \A q \in Requests : phase'[q] = "none" => phase[q] = "none"
    BY <2>1 DEF Canberra!Ends, Canberra!Held, Held, Phases
  <2>4. QED
    BY <2>2, <2>3 DEF Cache, Datum
<1>2. ASSUME NEW r \in Requests, Canberra!Prepare(r)
      PROVE  CanberraInv'
  <2>1. /\ phase[r] = "none" /\ kept' = kept \cup {r}
        /\ \E p \in {"prepared", "ending"} : phase' = [phase EXCEPT ![r] = p]
        /\ \E s \in Samples \cup {"silence"} : sample' = [sample EXCEPT ![r] = s]
        /\ UNCHANGED <<plays, timers, id, context, cached, caching, server, misused>>
    BY <1>2 DEF Canberra!Prepare, Canberra!PreparesPrompt, Canberra!caVars, Canberra!Silence
  <2>2. PICK p \in {"prepared", "ending"} : phase' = [phase EXCEPT ![r] = p]
    BY <2>1
  <2>3. phase' \in [Requests -> Phases] /\ kept' = {q \in Requests : Held(q)'}
    BY <2>1, <2>2 DEF Held, Phases
  <2>4. ASSUME NEW q \in Requests
        PROVE  Datum(q)'
    <3>1. Datum(q)
      OBVIOUS
    <3>2. CASE q # r
      BY <2>1, <2>2, <3>1, <3>2 DEF Datum
    <3>3. CASE q = r
      <4>1. plays[r] = 0 /\ id[r] = 0 /\ timers[r] \subseteq 1..0
        BY <2>1, <3>1, <3>3 DEF Datum
      <4>2. timers[r] = {} /\ phase'[r] # "none"
        BY <2>2, <4>1
      <4>3. QED
        BY <2>1, <3>1, <3>3, <4>1, <4>2 DEF Datum
    <3>4. QED
      BY <3>2, <3>3
  <2>5. QED
    BY <2>1, <2>3, <2>4 DEF Cache
<1>3. ASSUME NEW r \in Requests, Canberra!Start(r)
      PROVE  CanberraInv'
  <2>1. PICK p \in {"playing", "ending"} : phase' = [phase EXCEPT ![r] = p]
    BY <1>3 DEF Canberra!Start, Canberra!Plays
  <2>2. /\ phase[r] = "prepared" /\ plays[r] < MaxPlays /\ misused' = misused
        /\ Canberra!PlayWorks(r) \/ Canberra!PlayFails(r)
    BY <1>3 DEF Canberra!Start, Canberra!Plays
  <2>3. /\ phase' \in [Requests -> Phases] /\ Held(r)
        /\ \A q \in Requests : Held(q)' = Held(q)
        /\ \A q \in Requests : phase'[q] = "none" => phase[q] = "none"
    BY <2>1, <2>2 DEF Held, Phases
  <2>4. QED
    BY <2>2, <2>3, PlayKeepsData
<1>4. ASSUME NEW r \in Requests, Canberra!Pause(r)
      PROVE  CanberraInv'
  BY <1>4 DEF Canberra!Pause, Canberra!Pauses, Canberra!dataVars, Canberra!caVars,
              Cache, Datum, Held
<1>5. ASSUME NEW r \in Requests, Canberra!Resume(r)
      PROVE  CanberraInv'
  <2>1. /\ Held(r) /\ phase' = phase /\ plays[r] < MaxPlays /\ misused' = misused
        /\ Canberra!PlayWorks(r) \/ Canberra!PlayFails(r)
    BY <1>5 DEF Canberra!Resume, Canberra!Resumes, Canberra!Held, Held
  <2>2. \A q \in Requests : Held(q)' = Held(q)
    BY <2>1 DEF Held
  <2>3. QED
    BY <2>1, <2>2, PlayKeepsData
<1>6. ASSUME NEW r \in Requests, Canberra!Stop(r)
      PROVE  CanberraInv'
  <2>1. /\ phase[r] = "ending" /\ phase' = [phase EXCEPT ![r] = "gone"]
        /\ kept' = kept \ {r} /\ timers' = [timers EXCEPT ![r] = timers[r] \ {id[r]}]
        /\ UNCHANGED <<sample, plays, id, context, cached, caching, server, misused>>
    BY <1>6 DEF Canberra!Stop, Canberra!Stops, Canberra!caVars
  <2>2. phase' \in [Requests -> Phases] /\ kept' = {q \in Requests : Held(q)'}
    BY <2>1 DEF Held, Phases
  <2>3. ASSUME NEW q \in Requests
        PROVE  Datum(q)'
    <3>1. Datum(q) /\ r \in kept
      BY <2>1 DEF Held
    <3>2. QED
      BY <2>1, <3>1 DEF Datum
  <2>4. timers' \in [Requests -> SUBSET Nat]
    BY <2>1
  <2>5. QED
    BY <2>1, <2>2, <2>3, <2>4 DEF Cache
<1>7. ASSUME NEW r \in Requests, Canberra!Fires(r)
      PROVE  CanberraInv'
  <2> DEFINE least == CHOOSE t \in timers[r] : \A u \in timers[r] : t <= u
  <2>1. /\ timers[r] # {} /\ timers' = [timers EXCEPT ![r] = timers[r] \ {least}]
        /\ UNCHANGED <<kept, sample, plays, context, cached, caching, server>>
        /\ IF r \in kept
           THEN id' = [id EXCEPT ![r] = 0] /\ Canberra!Completes(r) /\ misused' = misused
           ELSE misused' = TRUE /\ UNCHANGED <<id, phase>>
    BY <1>7 DEF Canberra!Fires, Canberra!caVars, Canberra!contractVars
  <2>2. \A t \in timers[r] : timers[r] = {t} => least = t
    OBVIOUS
  <2> HIDE DEF least
  <2>3. \/ phase' = phase
        \/ phase[r] = "playing" /\ phase' = [phase EXCEPT ![r] = "ending"]
    BY <2>1 DEF Canberra!Completes
  <2>4. /\ phase' \in [Requests -> Phases]
        /\ \A q \in Requests : Held(q)' = Held(q)
        /\ \A q \in Requests : phase'[q] = "none" => phase[q] = "none"
    BY <2>3 DEF Held, Phases
  <2>5. misused' \in BOOLEAN /\ id' \in [Requests -> Nat]
        /\ timers' \in [Requests -> SUBSET Nat]
    <3>1. CASE r \in kept
      BY <2>1, <3>1
    <3>2. CASE r \notin kept
      <4>1. misused' = TRUE /\ id' = id
        BY <2>1, <3>2, Zenon
      <4>2. QED
        BY <2>1, <4>1
    <3>3. QED
      BY <3>1, <3>2
  <2>6. ASSUME NEW q \in Requests
        PROVE  Datum(q)'
    <3>1. Datum(q)
      OBVIOUS
    <3>2. CASE q # r
      BY <2>1, <2>4, <3>1, <3>2 DEF Datum
    <3>3. CASE q = r
      <4>1. /\ timers'[r] \subseteq timers[r]
            /\ r \in kept => id'[r] = 0
        BY <2>1
      <4>2. plays[r] <= 1 => timers'[r] = {}
        BY <2>1, <2>2, <3>1, <3>3 DEF Datum
      <4>3. phase[r] # "none"
        BY <2>1, <3>1, <3>3 DEF Datum
      <4>4. QED
        BY <2>1, <2>4, <3>1, <3>3, <4>1, <4>2, <4>3 DEF Datum
    <3>4. QED
      BY <3>2, <3>3
  <2>7. QED
    BY <2>1, <2>4, <2>5, <2>6 DEF Cache
<1>8. QED
  BY <1>1, <1>2, <1>3, <1>4, <1>5, <1>6, <1>7 DEF Canberra!Next

\* What the invariant says of canberra.
LEMMA CanberraIsSafe ==
  ASSUME CanberraInv
  PROVE  Canberra!TypeOK /\ Canberra!PlayedOnceIsSafe /\ Canberra!CacheIsCurrent
<1> USE DEF CanberraInv
<1>1. Canberra!TypeOK
  <2>1. ASSUME NEW r \in Requests
        PROVE  /\ plays[r] \in 0..MaxPlays /\ timers[r] \subseteq 1..plays[r]
               /\ r \in kept => id[r] \in timers[r] \cup {0}
    <3>1. plays[r] \in Nat /\ MaxPlays \in Nat /\ Datum(r)
      BY SinksAssumption
    <3>2. QED
      BY <3>1 DEF Datum
  <2>2. QED
    BY <2>1 DEF Canberra!TypeOK, Phases, Canberra!Phases, Held, Canberra!Held,
                Canberra!Silence, Cache
<1>2. Canberra!PlayedOnceIsSafe
  BY DEF Datum, Canberra!PlayedOnceIsSafe
<1>3. QED
  BY <1>1, <1>2 DEF Cache, Canberra!CacheIsCurrent

-----------------------------------------------------------------------------
(* tonegen.                                                                 *)

LEMMA TonegenInit ==
  ASSUME Tone!ToneInit, ContractInit
  PROVE  TonegenInv
BY DEF Tone!ToneInit, ContractInit, TonegenInv, ToneParts, ToneStream, Phases,
       Tone!Kinds, Tone!NoStream

\* The requests that want a tone stay.
WantedStays == \A q \in Requests : Held(q) /\ q \in played => Held(q)' /\ q \in played'

\* What a play does to the streams, for a request that was played.
LEMMA TonePlayKeeps ==
  ASSUME TonegenInv, NEW r \in Requests, Held(r)', r \in played', WantedStays,
         phase' \in [Requests -> Phases], Tone!TonePlay(r)
  PROVE  TonegenInv'
<1> DEFINE i == stream["indicator"]
           d == stream["dtmf"]
<1>1. ToneParts /\ kind \in [Requests -> Tone!Kinds]
      /\ mute \in BOOLEAN /\ unmute \in BOOLEAN /\ toneless \in BOOLEAN /\ stuck \in BOOLEAN
  BY DEF TonegenInv
<1>2. kind' = kind /\ link' = link /\ retry' = retry
  BY DEF Tone!TonePlay
<1>3. PICK tones \in BOOLEAN :
        IF kind[r] = "dtmf" THEN Tone!PlayDtmf(tones) ELSE Tone!PlayIndicator(tones)
  BY DEF Tone!TonePlay
<1>4. i \in ToneStream /\ d \in ToneStream
  BY <1>1 DEF ToneParts, Tone!Kinds
<1>5. /\ Wanted("indicator") => Wanted("indicator")'
      /\ Wanted("dtmf") => Wanted("dtmf")'
      /\ Wanted(kind[r])'
  BY <1>2 DEF Wanted, WantedStays
<1>6. kind[r] \in {"indicator", "dtmf"}
  BY <1>1 DEF Tone!Kinds
<1>7. CASE kind[r] = "indicator" /\ i.state = "none"
  <2>1. /\ UNCHANGED <<mute, unmute, toneless, stuck>>
        /\ \/ stream' = stream
           \/ /\ link = "ready"
              /\ stream' = [stream EXCEPT !["indicator"] =
                              [state |-> "creating", tones |-> tones]]
    BY <1>3, <1>7 DEF Tone!PlayIndicator, Tone!Listed, Tone!Creates, Tone!muteVars
  <2>2. ToneParts'
    <3>1. CASE stream' = stream
      BY <1>1, <1>2, <1>5, <2>1, <3>1 DEF ToneParts
    <3>2. CASE stream' # stream
      <4>1. /\ stream' \in [Tone!Kinds -> ToneStream]
            /\ stream'["indicator"] = [state |-> "creating", tones |-> tones]
            /\ stream'["dtmf"] = d
        BY <1>1, <2>1, <3>2 DEF ToneParts, Tone!Kinds, ToneStream
      <4>2. QED
        BY <1>1, <1>2, <1>5, <1>7, <2>1, <3>2, <4>1 DEF ToneParts
    <3>3. QED
      BY <3>1, <3>2
  <2>3. QED
    BY <1>1, <1>2, <2>1, <2>2 DEF TonegenInv
<1>8. CASE kind[r] = "indicator" /\ i.state # "none"
  <2>1. /\ stream' = [stream EXCEPT !["indicator"].tones = tones, !["dtmf"].tones = FALSE]
        /\ unmute' = (unmute \/ d.state # "none") /\ stuck' = FALSE
        /\ mute' = mute /\ toneless' = toneless
    BY <1>3, <1>8 DEF Tone!PlayIndicator, Tone!Listed, Tone!muteVars
  <2>2. /\ stream' \in [Tone!Kinds -> ToneStream]
        /\ stream'["indicator"].state = i.state /\ stream'["indicator"].tones = tones
        /\ stream'["dtmf"].state = d.state /\ stream'["dtmf"].tones = FALSE
    BY <1>1, <2>1 DEF ToneParts, Tone!Kinds, ToneStream
  <2>3. ToneParts'
    BY <1>1, <1>2, <1>5, <1>8, <2>1, <2>2 DEF ToneParts
  <2>4. QED
    BY <1>1, <1>2, <2>1, <2>3 DEF TonegenInv
<1>9. CASE kind[r] = "dtmf" /\ d.state = "none"
  <2>1. /\ stuck' = stuck
        /\ \/ stream' = stream
           \/ /\ link = "ready"
              /\ stream' = [stream EXCEPT !["dtmf"] = [state |-> "creating", tones |-> tones]]
        /\ IF stream' = stream THEN UNCHANGED <<mute, unmute, toneless>>
           ELSE mute' = TRUE /\ unmute' = FALSE /\ toneless' = ~tones
    BY <1>3, <1>9 DEF Tone!PlayDtmf, Tone!Listed, Tone!Creates, Tone!muteVars
  <2>2. CASE stream' = stream
    <3>1. ToneParts'
      BY <1>1, <1>2, <1>5, <2>1, <2>2 DEF ToneParts
    <3>2. QED
      BY <1>1, <1>2, <2>1, <2>2, <3>1 DEF TonegenInv
  <2>3. CASE stream' # stream
    <3>1. /\ stream' \in [Tone!Kinds -> ToneStream]
          /\ stream'["dtmf"] = [state |-> "creating", tones |-> tones]
          /\ stream'["indicator"] = i
      BY <1>1, <2>1, <2>3 DEF ToneParts, Tone!Kinds, ToneStream
    <3>2. mute' = TRUE /\ unmute' = FALSE /\ toneless' = ~tones
      BY <2>1, <2>3, Zenon
    <3>3. ToneParts'
      <4>1. stream'["dtmf"].tones \/ toneless'
        <5>1. stream'["dtmf"].tones = tones
          BY <3>1
        <5>2. QED
          BY <3>2, <5>1
      <4>2. QED
        BY <1>1, <1>2, <1>5, <1>9, <2>1, <2>3, <3>1, <4>1 DEF ToneParts
    <3>4. mute' \in BOOLEAN /\ unmute' \in BOOLEAN /\ toneless' \in BOOLEAN
      BY <3>2
    <3>5. QED
      BY <1>1, <1>2, <2>1, <3>3, <3>4 DEF TonegenInv
  <2>4. QED
    BY <2>2, <2>3
<1>10. CASE kind[r] = "dtmf" /\ d.state # "none"
  <2>1. /\ stream' = [stream EXCEPT !["dtmf"].tones = tones,
                        !["indicator"] = IF i.state = "ready" THEN Tone!NoStream ELSE @]
        /\ mute' = TRUE /\ unmute' = FALSE /\ toneless' = ~tones
        /\ stuck' = (i.state # "none" /\ i.state # "ready")
    BY <1>3, <1>10 DEF Tone!PlayDtmf, Tone!Listed, Tone!Ready
  <2>2. /\ stream' \in [Tone!Kinds -> ToneStream]
        /\ stream'["indicator"] = IF i.state = "ready" THEN Tone!NoStream ELSE i
        /\ stream'["dtmf"].state = d.state /\ stream'["dtmf"].tones = tones
    BY <1>1, <2>1 DEF ToneParts, Tone!Kinds, ToneStream, Tone!NoStream
  <2>3. ToneParts'
    <3>1. stream'["dtmf"].tones \/ toneless'
      BY <2>1, <2>2
    <3>2. link' # "ready" =>
            stream'["indicator"].state = "none" /\ stream'["dtmf"].state = "none"
      BY <1>1, <1>2, <1>10, <2>2 DEF ToneParts
    <3>3. stream'["indicator"].tones => i.state # "ready" /\ i.state # "none"
      BY <1>1, <2>2 DEF ToneParts, Tone!NoStream
    <3>4. stream'["indicator"].tones => stream'["indicator"].state # "none" /\ stuck'
      BY <2>1, <2>2, <3>3
    <3>5. QED
      BY <1>1, <1>2, <1>5, <1>10, <2>2, <3>1, <3>2, <3>4 DEF ToneParts
  <2>4. /\ mute' \in BOOLEAN /\ unmute' \in BOOLEAN
        /\ toneless' \in BOOLEAN /\ stuck' \in BOOLEAN
    BY <2>1
  <2>5. QED
    BY <1>1, <1>2, <2>3, <2>4 DEF TonegenInv
<1>11. QED
  BY <1>6, <1>7, <1>8, <1>9, <1>10

LEMMA TonegenStepKeepsInv ==
  ASSUME TonegenInv, Tone!ToneNext
  PROVE  TonegenInv'
<1> DEFINE i == stream["indicator"]
           d == stream["dtmf"]
<1>1. /\ ToneParts /\ kind \in [Requests -> Tone!Kinds] /\ phase \in [Requests -> Phases]
      /\ mute \in BOOLEAN /\ unmute \in BOOLEAN /\ toneless \in BOOLEAN /\ stuck \in BOOLEAN
  BY DEF TonegenInv
<1>2. i \in ToneStream /\ d \in ToneStream
  BY <1>1 DEF ToneParts, Tone!Kinds
\* The calls of the core that leave the streams alone, or play.
<1>3. ASSUME phase' \in [Requests -> Phases], WantedStays,
             UNCHANGED <<kind, stream, link, retry, mute, unmute, toneless, stuck>>
      PROVE  TonegenInv'
  <2>1. \A k : Wanted(k) => Wanted(k)'
    BY <1>3 DEF Wanted, WantedStays
  <2>2. ToneParts'
    BY <1>1, <1>3, <2>1 DEF ToneParts
  <2>3. QED
    BY <1>1, <1>3, <2>2 DEF TonegenInv
<1>4. ASSUME Tone!EndAttempts
      PROVE  TonegenInv'
  <2>1. phase' \in [Requests -> Phases] /\ WantedStays
    BY <1>1, <1>4 DEF Tone!EndAttempts, Tone!Ends, Tone!Held, Held, Phases, WantedStays
  <2>2. QED
    BY <1>3, <1>4, <2>1 DEF Tone!EndAttempts, Tone!toneVars, Tone!muteVars
<1>5. ASSUME NEW r \in Requests, Tone!Prepare(r)
      PROVE  TonegenInv'
  <2>1. phase' \in [Requests -> Phases] /\ WantedStays
    BY <1>1, <1>5 DEF Tone!Prepare, Tone!PreparesPrompt, Held, Phases, WantedStays
  <2>2. QED
    BY <1>3, <1>5, <2>1 DEF Tone!Prepare, Tone!toneVars, Tone!muteVars
<1>6. ASSUME NEW r \in Requests, Tone!Start(r)
      PROVE  TonegenInv'
  <2>1. phase' \in [Requests -> Phases] /\ WantedStays /\ Held(r)' /\ r \in played'
    BY <1>1, <1>6 DEF Tone!Start, Tone!Plays, Held, Phases, WantedStays
  <2>2. CASE Tone!TonePlay(r)
    BY <2>1, <2>2, TonePlayKeeps
  <2>3. CASE UNCHANGED Tone!toneVars
    BY <1>3, <2>1, <2>3 DEF Tone!toneVars, Tone!muteVars
  <2>4. QED
    BY <1>6, <2>2, <2>3 DEF Tone!Start
<1>7. ASSUME NEW r \in Requests, Tone!Pause(r)
      PROVE  TonegenInv'
  <2>1. phase' \in [Requests -> Phases] /\ WantedStays
    BY <1>1, <1>7 DEF Tone!Pause, Tone!Pauses, Held, Phases, WantedStays
  <2>2. QED
    BY <1>3, <1>7, <2>1 DEF Tone!Pause, Tone!toneVars, Tone!muteVars
<1>8. ASSUME NEW r \in Requests, Tone!Resume(r)
      PROVE  TonegenInv'
  <2>1. phase' \in [Requests -> Phases] /\ WantedStays /\ Held(r)' /\ r \in played'
    BY <1>1, <1>8 DEF Tone!Resume, Tone!Resumes, Tone!Held, Held, Phases, WantedStays
  <2>2. CASE Tone!TonePlay(r)
    BY <2>1, <2>2, TonePlayKeeps
  <2>3. CASE UNCHANGED Tone!toneVars
    BY <1>3, <2>1, <2>3 DEF Tone!toneVars, Tone!muteVars
  <2>4. QED
    BY <1>8, <2>2, <2>3 DEF Tone!Resume
<1>9. ASSUME NEW r \in Requests, Tone!Stop(r)
      PROVE  TonegenInv'
  <2>1. /\ phase[r] = "ending" /\ phase' = [phase EXCEPT ![r] = "gone"]
        /\ played' = played \ {r} /\ UNCHANGED <<kind, link, retry>>
        /\ IF kind[r] = "dtmf" THEN Tone!StopDtmf ELSE Tone!StopIndicator
    BY <1>9 DEF Tone!Stop, Tone!Stops
  <2>2. phase' \in [Requests -> Phases]
    BY <1>1, <2>1 DEF Phases
  <2>3. \A k : k # kind[r] /\ Wanted(k) => Wanted(k)'
    BY <2>1 DEF Wanted, Held
  <2>4. CASE kind[r] = "dtmf"
    <3>1. /\ stream' = [stream EXCEPT !["dtmf"].tones = FALSE]
          /\ unmute' = (unmute \/ d.state # "none")
          /\ UNCHANGED <<mute, toneless, stuck>>
      BY <2>1, <2>4 DEF Tone!StopDtmf, Tone!Listed
    <3>2. /\ stream' \in [Tone!Kinds -> ToneStream] /\ stream'["indicator"] = i
          /\ stream'["dtmf"].state = d.state /\ stream'["dtmf"].tones = FALSE
      BY <1>1, <3>1 DEF ToneParts, Tone!Kinds, ToneStream
    <3>3. ToneParts'
      BY <1>1, <2>1, <2>3, <2>4, <3>1, <3>2 DEF ToneParts
    <3>4. unmute' \in BOOLEAN
      BY <3>1
    <3>5. QED
      BY <1>1, <2>1, <2>2, <3>1, <3>3, <3>4 DEF TonegenInv
  <2>5. CASE kind[r] = "indicator"
    <3>1. /\ stream' = [stream EXCEPT !["indicator"] =
                           IF i.state = "ready" THEN Tone!NoStream ELSE i]
          /\ stuck' = (i.state # "none" /\ i.state # "ready")
          /\ UNCHANGED <<mute, unmute, toneless>>
      BY <2>1, <2>5 DEF Tone!StopIndicator, Tone!Listed, Tone!Ready, Tone!muteVars
    <3>2. /\ stream' \in [Tone!Kinds -> ToneStream] /\ stream'["dtmf"] = d
          /\ stream'["indicator"] = IF i.state = "ready" THEN Tone!NoStream ELSE i
      BY <1>1, <3>1 DEF ToneParts, Tone!Kinds, ToneStream, Tone!NoStream
    <3>3. ToneParts'
      <4>1. stream'["indicator"].tones => i.state # "ready" /\ i.state # "none"
        BY <1>1, <3>2 DEF ToneParts, Tone!NoStream
      <4>2. stream'["indicator"].tones => stream'["indicator"].state # "none" /\ stuck'
        BY <3>1, <3>2, <4>1
      <4>3. link # "ready" => stream'["indicator"].state = "none"
        BY <1>1, <3>2 DEF ToneParts, Tone!NoStream
      <4>4. Wanted("dtmf") => Wanted("dtmf")'
        BY <2>3, <2>5
      <4>5. QED
        BY <1>1, <2>1, <3>1, <3>2, <4>2, <4>3, <4>4 DEF ToneParts
    <3>4. stuck' \in BOOLEAN
      BY <3>1
    <3>5. QED
      BY <1>1, <2>1, <2>2, <3>1, <3>3, <3>4 DEF TonegenInv
  <2>6. QED
    BY <1>1, <2>4, <2>5 DEF Tone!Kinds
\* The callbacks, which leave the requests alone.
<1>10. ASSUME UNCHANGED <<phase, played, kind>>
       PROVE  \A k : Wanted(k)' = Wanted(k)
  BY <1>10 DEF Wanted, Held
<1>11. ASSUME NEW k \in Tone!Kinds, Tone!StreamChanges(k)
       PROVE  TonegenInv'
  <2>1. /\ UNCHANGED <<phase, played, kind, link, retry, mute, unmute, toneless, stuck>>
        /\ stream[k].state # "none"
        /\ \E s \in {"ready", "failed"} : stream' = [stream EXCEPT ![k].state = s]
    BY <1>11 DEF Tone!StreamChanges, Tone!contractVars, Tone!muteVars
  <2>2. PICK s \in {"ready", "failed"} : stream' = [stream EXCEPT ![k].state = s]
    BY <2>1
  <2>3. /\ stream' \in [Tone!Kinds -> ToneStream]
        /\ stream'["indicator"].tones = i.tones /\ stream'["dtmf"].tones = d.tones
        /\ stream'["indicator"].state = "none" <=> i.state = "none"
        /\ stream'["dtmf"].state = "none" <=> d.state = "none"
    BY <1>1, <2>1, <2>2 DEF ToneParts, Tone!Kinds, ToneStream
  <2>4. ToneParts'
    BY <1>1, <1>10, <2>1, <2>3 DEF ToneParts
  <2>5. QED
    BY <1>1, <2>1, <2>4 DEF TonegenInv
<1>12. ASSUME NEW k \in Tone!Kinds, Tone!StreamEnds(k)
       PROVE  TonegenInv'
  <2>1. /\ UNCHANGED <<phase, played, kind, link, retry>>
        /\ stream[k].state = "ready" /\ stream' = [stream EXCEPT ![k] = Tone!NoStream]
        /\ Tone!MuteDies(k = "dtmf") /\ stuck' = (stuck /\ k = "dtmf")
    BY <1>12 DEF Tone!StreamEnds, Tone!contractVars, Tone!Ready
  <2>2. CASE k = "dtmf"
    <3>1. /\ stream' \in [Tone!Kinds -> ToneStream]
          /\ stream'["indicator"] = i /\ stream'["dtmf"] = Tone!NoStream
      BY <1>1, <2>1, <2>2 DEF ToneParts, Tone!Kinds, ToneStream, Tone!NoStream
    <3>2. /\ mute' \in BOOLEAN /\ unmute' \in BOOLEAN
          /\ toneless' = mute' /\ stuck' = stuck
      BY <1>1, <2>1, <2>2 DEF Tone!MuteDies
    <3>3. ToneParts'
      BY <1>1, <1>10, <2>1, <3>1, <3>2 DEF ToneParts, Tone!NoStream
    <3>4. QED
      BY <1>1, <2>1, <3>2, <3>3 DEF TonegenInv
  <2>3. CASE k = "indicator"
    <3>1. /\ stream' \in [Tone!Kinds -> ToneStream]
          /\ stream'["dtmf"] = d /\ stream'["indicator"] = Tone!NoStream
      BY <1>1, <2>1, <2>3 DEF ToneParts, Tone!Kinds, ToneStream, Tone!NoStream
    <3>2. /\ mute' = mute /\ unmute' = unmute
          /\ toneless' = (mute /\ toneless) /\ stuck' = FALSE
      BY <1>1, <2>1, <2>3 DEF Tone!MuteDies
    <3>3. ToneParts'
      BY <1>1, <1>10, <2>1, <3>1, <3>2 DEF ToneParts, Tone!NoStream
    <3>4. toneless' \in BOOLEAN
      BY <3>2
    <3>5. QED
      BY <1>1, <2>1, <3>2, <3>3, <3>4 DEF TonegenInv
  <2>4. QED
    BY <2>2, <2>3 DEF Tone!Kinds
<1>13. ASSUME Tone!ToneEnds
       PROVE  TonegenInv'
  <2>1. /\ UNCHANGED <<phase, played, kind, link, retry, mute, unmute, toneless, stuck>>
        /\ stream' = [stream EXCEPT !["indicator"].tones = FALSE]
    BY <1>13 DEF Tone!ToneEnds, Tone!contractVars, Tone!muteVars
  <2>2. /\ stream' \in [Tone!Kinds -> ToneStream] /\ stream'["dtmf"] = d
        /\ stream'["indicator"].tones = FALSE /\ stream'["indicator"].state = i.state
    BY <1>1, <2>1 DEF ToneParts, Tone!Kinds, ToneStream
  <2>3. ToneParts'
    BY <1>1, <1>10, <2>1, <2>2 DEF ToneParts
  <2>4. QED
    BY <1>1, <2>1, <2>3 DEF TonegenInv
<1>14. ASSUME Tone!Disconnects
       PROVE  TonegenInv'
  <2>1. /\ UNCHANGED <<phase, played, kind>> /\ link' = "down" /\ retry' = TRUE
        /\ stream' = [k \in Tone!Kinds |-> Tone!NoStream] /\ stuck' = FALSE
        /\ Tone!MuteDies(d.state # "none")
    BY <1>14 DEF Tone!Disconnects, Tone!contractVars, Tone!Listed
  <2>2. /\ stream' \in [Tone!Kinds -> ToneStream]
        /\ stream'["dtmf"] = Tone!NoStream /\ stream'["indicator"] = Tone!NoStream
    BY <2>1 DEF Tone!Kinds, ToneStream, Tone!NoStream
  <2>3. /\ mute' \in BOOLEAN /\ unmute' \in BOOLEAN /\ toneless' \in BOOLEAN
        /\ mute' => unmute' \/ toneless'
    <3>1. CASE d.state = "none"
      BY <1>1, <2>1, <3>1 DEF Tone!MuteDies, ToneParts
    <3>2. CASE d.state # "none"
      BY <1>1, <2>1, <3>2 DEF Tone!MuteDies
    <3>3. QED
      BY <3>1, <3>2
  <2>4. ToneParts'
    BY <2>1, <2>2, <2>3 DEF ToneParts, Tone!NoStream
  <2>5. QED
    BY <1>1, <2>1, <2>3, <2>4 DEF TonegenInv
<1>15. ASSUME Tone!MuteTimeout \/ Tone!Connects \/ Tone!Retries
       PROVE  TonegenInv'
  <2>1. UNCHANGED <<phase, played, kind, stream, stuck>>
    BY <1>15 DEF Tone!MuteTimeout, Tone!Connects, Tone!Retries, Tone!contractVars
  <2>2. /\ \/ mute' = FALSE /\ unmute' = FALSE /\ toneless' = FALSE
           \/ mute' = mute /\ unmute' = unmute /\ toneless' = toneless
        /\ \/ link' = link /\ retry' = retry
           \/ link' = "ready" /\ retry' = FALSE
           \/ link' = "connecting" /\ link = "down" /\ retry' = FALSE
    BY <1>1, <1>15
       DEF Tone!MuteTimeout, Tone!Connects, Tone!Retries, Tone!muteVars, ToneParts
  <2>3. ToneParts'
    BY <1>1, <1>10, <2>1, <2>2 DEF ToneParts
  <2>4. QED
    BY <1>1, <2>1, <2>2, <2>3 DEF TonegenInv
<1>16. QED
  BY <1>4, <1>5, <1>6, <1>7, <1>8, <1>9, <1>11, <1>12, <1>13, <1>14, <1>15 DEF Tone!ToneNext

LEMMA TonegenIsSafe ==
  ASSUME TonegenInv
  PROVE  Tone!TonesHaveRequests /\ Tone!MuteIsReleased
BY DEF TonegenInv, ToneParts, Wanted, Held, Tone!Held, Tone!TonesHaveRequests,
       Tone!MuteIsReleased, Tone!Kinds, Tone!Listed

-----------------------------------------------------------------------------
(* immvibe.                                                                 *)

LEMMA ImmvibeInit ==
  ASSUME Vibe!VibeInit, ContractInit
  PROVE  ImmvibeInv
BY DEF Vibe!VibeInit, ContractInit, ImmvibeInv, Phases, VibeData, Fresh, Owned

\* An effect that is started is owned by the request whose data gets it.
LEMMA StartedIsOwned ==
  ASSUME ImmvibeInv, NEW r \in Requests, Held(r)',
         NEW before \in SUBSET sounding,
         \A k \in before : \E q \in Requests \ {r} : Held(q)' /\ effect[q] = k,
         NEW k \in Effects \cup {0}, Vibe!Starts(before, k),
         effect' = [effect EXCEPT ![r] = k]
  PROVE  Owned' /\ sounding' \subseteq Effects /\ effect' \in [Requests -> Effects \cup {0}]
<1>1. effect \in [Requests -> Effects \cup {0}] /\ sounding \subseteq Effects
  BY DEF ImmvibeInv
<1>2. sounding' \subseteq before \cup {k} /\ (k = 0 => sounding' \subseteq before)
  BY SinksAssumption DEF Vibe!Starts
<1>3. ASSUME NEW x \in sounding'
      PROVE  \E q \in Requests : Held(q)' /\ effect'[q] = x
  <2>1. CASE x \in before
    <3>1. PICK q \in Requests \ {r} : Held(q)' /\ effect[q] = x
      BY <2>1
    <3>2. effect'[q] = x
      BY <1>1, <3>1
    <3>3. QED
      BY <3>1, <3>2
  <2>2. CASE x = k
    BY <1>1, <2>2
  <2>3. QED
    BY <1>2, <2>1, <2>2
<1>4. \A x \in sounding' : x \in Effects
  BY <1>1, <1>2
<1>5. QED
  BY <1>1, <1>3, <1>4 DEF Owned

\* The play of the sink, at the start or at the end of a pause.
LEMMA VibePlayKeeps ==
  ASSUME ImmvibeInv, NEW r \in Requests, phase' \in [Requests -> Phases],
         \A q \in Requests : Held(q)' = Held(q), Held(r),
         \A q \in Requests \ {r} : phase'[q] = phase[q] /\ (q \in paused' <=> q \in paused),
         r \in patterned =>
           IF r \in halted
           THEN /\ r \in paused' => Fresh(r)
                /\ phase'[r] = "prepared" => Fresh(r) /\ r \notin paused'
                /\ phase'[r] = "playing" /\ polls[r] + idles[r] = 0 /\ r \notin told =>
                     r \in paused'
           ELSE Fresh(r) /\ r \notin paused' /\ phase'[r] # "prepared",
         Vibe!VibePlay(r)
  PROVE  ImmvibeInv'
<1> USE DEF ImmvibeInv
<1>1. UNCHANGED <<patterned, repeating, told>> /\ plays' = [plays EXCEPT ![r] = plays[r] + 1]
  BY DEF Vibe!VibePlay
<1>2. plays' \in [Requests -> Nat]
  BY <1>1
<1>3. phase'[r] # "none"
  BY DEF Held
<1>4. CASE r \in halted
  <2>1. halted' = halted \ {r} /\ UNCHANGED <<effect, polls, idles, sounding>>
    BY <1>4 DEF Vibe!VibePlay
  <2>2. Owned'
    BY <2>1 DEF Owned
  <2>3. ASSUME NEW q \in Requests
        PROVE  VibeData(q)'
    <3>1. VibeData(q)
      OBVIOUS
    <3>2. CASE q # r
      BY <1>1, <2>1, <3>1, <3>2 DEF VibeData, Fresh
    <3>3. CASE q = r
      BY <1>1, <1>3, <1>4, <2>1, <3>1, <3>3 DEF VibeData, Fresh
    <3>4. QED
      BY <3>2, <3>3
  <2>4. QED
    BY <1>1, <1>2, <2>1, <2>2, <2>3
<1>5. CASE r \notin halted /\ r \in patterned
  <2>1. /\ Fresh(r) /\ r \notin paused' /\ phase'[r] # "prepared"
        /\ halted' = halted
    BY <1>5 DEF Vibe!VibePlay
  <2>2. PICK k \in Effects \cup {0} :
          /\ Vibe!Starts(sounding, k) /\ effect' = [effect EXCEPT ![r] = k]
          /\ polls' = [polls EXCEPT ![r] = IF k = 0 THEN polls[r] ELSE polls[r] + 1]
          /\ idles' = [idles EXCEPT ![r] = IF k = 0 THEN idles[r] + 1 ELSE idles[r]]
    BY <1>5 DEF Vibe!VibePlay, Vibe!Started
  <2>3. \A x \in sounding : \E q \in Requests \ {r} : Held(q)' /\ effect[q] = x
    <3> TAKE x \in sounding
    <3>1. PICK q \in Requests : Held(q) /\ effect[q] = x
      BY DEF Owned
    <3>2. x # 0 /\ effect[r] = 0
      BY <2>1, SinksAssumption DEF Fresh
    <3>3. QED
      BY <3>1, <3>2
  <2>4. Owned' /\ sounding' \subseteq Effects /\ effect' \in [Requests -> Effects \cup {0}]
    BY <2>2, <2>3, StartedIsOwned
  <2>5. /\ polls' \in [Requests -> Nat] /\ idles' \in [Requests -> Nat]
        /\ polls'[r] + idles'[r] = 1
    BY <2>1, <2>2 DEF Fresh
  <2>6. ASSUME NEW q \in Requests
        PROVE  VibeData(q)'
    <3>1. VibeData(q)
      OBVIOUS
    <3>2. CASE q # r
      <4>1. effect'[q] = effect[q] /\ polls'[q] = polls[q] /\ idles'[q] = idles[q]
        BY <2>2, <3>2
      <4>2. QED
        BY <1>1, <2>1, <3>1, <3>2, <4>1 DEF VibeData, Fresh
    <3>3. CASE q = r
      BY <1>1, <1>3, <1>5, <2>1, <2>5, <3>3 DEF VibeData
    <3>4. QED
      BY <3>2, <3>3
  <2>7. QED
    BY <1>1, <1>2, <2>4, <2>5, <2>6
<1>6. CASE r \notin patterned
  <2>1. r \notin halted
    BY <1>6 DEF VibeData
  <2>2. /\ UNCHANGED <<halted, effect, polls, sounding>>
        /\ idles' = [idles EXCEPT ![r] = idles[r] + 1]
    BY <1>6, <2>1 DEF Vibe!VibePlay
  <2>3. idles' \in [Requests -> Nat]
    BY <2>2
  <2>4. Owned'
    BY <2>2 DEF Owned
  <2>5. ASSUME NEW q \in Requests
        PROVE  VibeData(q)'
    <3>1. VibeData(q)
      OBVIOUS
    <3>2. CASE q # r
      <4>1. idles'[q] = idles[q]
        BY <2>2, <3>2
      <4>2. QED
        BY <1>1, <2>2, <3>1, <3>2, <4>1 DEF VibeData, Fresh
    <3>3. CASE q = r
      BY <1>1, <1>3, <1>6, <2>2, <3>1, <3>3 DEF VibeData
    <3>4. QED
      BY <3>2, <3>3
  <2>6. QED
    BY <1>1, <1>2, <2>2, <2>3, <2>4, <2>5
<1>7. QED
  BY <1>4, <1>5, <1>6

LEMMA ImmvibeStepKeepsInv ==
  ASSUME ImmvibeInv, Vibe!VibeNext
  PROVE  ImmvibeInv'
<1> USE DEF ImmvibeInv
<1>1. ASSUME Vibe!EndAttempts
      PROVE  ImmvibeInv'
  <2>1. PICK R \in SUBSET Requests : Vibe!Ends(R)
    BY <1>1 DEF Vibe!EndAttempts
  <2>2. /\ UNCHANGED <<patterned, repeating, halted, effect, polls, idles, told, sounding, plays>>
        /\ paused' = paused
    BY <1>1 DEF Vibe!EndAttempts, Vibe!ivtVars, Vibe!Ends
  <2>3. /\ phase' \in [Requests -> Phases]
        /\ \A q \in Requests : Held(q)' = Held(q)
        /\ \A q \in Requests : phase'[q] # "ending" => phase'[q] = phase[q]
    BY <2>1 DEF Vibe!Ends, Vibe!Held, Held, Phases
  <2>4. Owned'
    BY <2>2, <2>3 DEF Owned
  <2>5. \A q \in Requests : VibeData(q)'
    BY <2>2, <2>3 DEF VibeData, Fresh
  <2>6. QED
    BY <2>2, <2>3, <2>4, <2>5
<1>2. ASSUME NEW r \in Requests, Vibe!Prepare(r)
      PROVE  ImmvibeInv'
  <2>1. /\ UNCHANGED <<halted, effect, polls, idles, told, sounding, plays, paused>>
        /\ phase[r] = "none" /\ patterned' \in {patterned, patterned \cup {r}}
        /\ \E p \in {"prepared", "ending", "gone"} : phase' = [phase EXCEPT ![r] = p] /\
              (p = "gone" => patterned' = patterned)
    BY <1>2 DEF Vibe!Prepare, Vibe!Refused, Vibe!PreparesPrompt, Vibe!ivtVars
  <2>2. PICK p \in {"prepared", "ending", "gone"} :
          phase' = [phase EXCEPT ![r] = p] /\ (p = "gone" => patterned' = patterned)
    BY <2>1
  <2>3. /\ phase' \in [Requests -> Phases]
        /\ \A q \in Requests : Held(q) => Held(q)'
        /\ \A q \in Requests \ {r} : phase'[q] = phase[q] /\ (q \in patterned' <=> q \in patterned)
    BY <2>1, <2>2 DEF Held, Phases
  <2>4. Owned'
    BY <2>1, <2>3 DEF Owned
  <2>5. ASSUME NEW q \in Requests
        PROVE  VibeData(q)'
    <3>1. VibeData(q)
      OBVIOUS
    <3>2. CASE q # r
      BY <2>1, <2>3, <3>1, <3>2 DEF VibeData, Fresh, Held
    <3>3. CASE q = r
      <4>1. r \notin patterned /\ r \notin paused /\ Fresh(r) /\ r \notin halted
        BY <2>1, <3>1, <3>3 DEF VibeData
      <4>2. phase'[r] \in {"prepared", "ending", "gone"}
        BY <2>2
      <4>3. QED
        BY <2>1, <3>3, <4>1, <4>2 DEF VibeData, Fresh
    <3>4. QED
      BY <3>2, <3>3
  <2>6. patterned' \subseteq Requests
    BY <2>1
  <2>7. QED
    BY <2>1, <2>3, <2>4, <2>5, <2>6
<1>3. ASSUME NEW r \in Requests, Vibe!Start(r)
      PROVE  ImmvibeInv'
  <2>1. PICK p \in {"playing", "ending"} : phase' = [phase EXCEPT ![r] = p]
    BY <1>3 DEF Vibe!Start, Vibe!Plays
  <2>2. phase[r] = "prepared" /\ paused' = paused /\ Vibe!VibePlay(r)
    BY <1>3 DEF Vibe!Start, Vibe!Plays
  <2>3. /\ phase' \in [Requests -> Phases] /\ Held(r)
        /\ \A q \in Requests : Held(q)' = Held(q)
        /\ \A q \in Requests \ {r} : phase'[q] = phase[q]
        /\ phase'[r] # "prepared"
    BY <2>1, <2>2 DEF Held, Phases
  <2>4. VibeData(r)
    OBVIOUS
  <2>5. r \in patterned => Fresh(r) /\ (r \in paused <=> r \in halted)
    BY <2>2, <2>4 DEF VibeData
  <2>6. QED
    BY <2>2, <2>3, <2>5, VibePlayKeeps
<1>4. ASSUME NEW r \in Requests, Vibe!Pause(r)
      PROVE  ImmvibeInv'
  <2>1. /\ UNCHANGED <<patterned, repeating, effect, polls, idles, told, sounding, plays, phase>>
        /\ paused' = paused \cup {r} /\ r \notin paused /\ Held(r)
        /\ halted' = IF r \in patterned THEN halted \cup {r} ELSE halted
    BY <1>4 DEF Vibe!Pause, Vibe!Pauses, Vibe!Held, Held
  <2>2. Owned'
    BY <2>1 DEF Owned, Held
  <2>3. ASSUME NEW q \in Requests
        PROVE  VibeData(q)'
    <3>1. VibeData(q)
      OBVIOUS
    <3>2. CASE q # r
      BY <2>1, <3>1, <3>2 DEF VibeData, Fresh, Held
    <3>3. CASE q = r
      BY <2>1, <3>1, <3>3 DEF VibeData, Fresh, Held
    <3>4. QED
      BY <3>2, <3>3
  <2>4. QED
    BY <2>1, <2>2, <2>3
<1>5. ASSUME NEW r \in Requests, Vibe!Resume(r)
      PROVE  ImmvibeInv'
  <2>1. /\ phase' = phase /\ paused' = paused \ {r} /\ r \in paused /\ Held(r)
        /\ Vibe!VibePlay(r)
    BY <1>5 DEF Vibe!Resume, Vibe!Resumes, Vibe!Held, Held
  <2>2. \A q \in Requests : Held(q)' = Held(q)
    BY <2>1 DEF Held
  <2>3. VibeData(r)
    OBVIOUS
  <2>4. r \in patterned =>
          IF r \in halted
          THEN /\ phase[r] = "prepared" => Fresh(r)
               /\ ~(phase[r] = "playing" /\ polls[r] + idles[r] = 0 /\ r \notin told)
          ELSE Fresh(r) /\ phase[r] # "prepared"
    BY <2>1, <2>3 DEF VibeData
  <2>5. QED
    BY <2>1, <2>2, <2>4, VibePlayKeeps
<1>6. ASSUME NEW r \in Requests, Vibe!Stop(r)
      PROVE  ImmvibeInv'
  <2>1. /\ UNCHANGED <<patterned, effect, told, plays>>
        /\ phase[r] = "ending" /\ phase' = [phase EXCEPT ![r] = "gone"]
        /\ paused' = paused \ {r} /\ halted' = halted \ {r}
        /\ sounding' = sounding \ {effect[r]}
        /\ polls' = [polls EXCEPT ![r] = IF polls[r] > 0 THEN polls[r] - 1 ELSE 0]
        /\ idles' = [idles EXCEPT ![r] = IF idles[r] > 0 THEN idles[r] - 1 ELSE 0]
    BY <1>6 DEF Vibe!Stop, Vibe!Stops
  <2>2. /\ phase' \in [Requests -> Phases]
        /\ \A q \in Requests \ {r} : Held(q)' = Held(q) /\ phase'[q] = phase[q]
        /\ phase'[r] = "gone"
        /\ polls' \in [Requests -> Nat] /\ idles' \in [Requests -> Nat]
    BY <2>1 DEF Held, Phases
  <2>3. Owned'
    <3>1. ASSUME NEW k \in sounding'
          PROVE  \E q \in Requests : Held(q)' /\ effect'[q] = k
      <4>1. PICK q \in Requests : Held(q) /\ effect[q] = k
        BY <2>1 DEF Owned
      <4>2. q # r
        BY <2>1, <4>1
      <4>3. QED
        BY <2>1, <2>2, <4>1, <4>2
    <3>2. QED
      BY <3>1 DEF Owned
  <2>4. ASSUME NEW q \in Requests
        PROVE  VibeData(q)'
    <3>1. VibeData(q)
      OBVIOUS
    <3>2. CASE q # r
      <4>1. polls'[q] = polls[q] /\ idles'[q] = idles[q]
        BY <2>1, <3>2
      <4>2. QED
        BY <2>1, <2>2, <3>1, <3>2, <4>1 DEF VibeData, Fresh
    <3>3. CASE q = r
      <4>1. r \in patterned => polls'[r] = 0 /\ idles'[r] = 0
        BY <2>1, <3>1, <3>3 DEF VibeData
      <4>2. r \notin patterned => polls'[r] = 0
        BY <2>1, <3>1, <3>3 DEF VibeData
      <4>3. QED
        BY <2>1, <2>2, <3>1, <3>3, <4>1, <4>2 DEF VibeData
    <3>4. QED
      BY <3>2, <3>3
  <2>5. QED
    BY <2>1, <2>2, <2>3, <2>4
\* A callback, which may tell the core that the request is complete.
<1>7. ASSUME NEW r \in Requests,
             \/ Vibe!Completes(r) /\ told' = told \cup {r}
             \/ UNCHANGED <<phase, paused, told>>
      PROVE  /\ phase' \in [Requests -> Phases] /\ paused' = paused
             /\ \A q \in Requests : Held(q)' = Held(q)
             /\ \A q \in Requests : phase'[q] \in {phase[q], "ending"}
             /\ \A q \in Requests : phase[q] = "none" => phase'[q] = "none"
             /\ \A q \in Requests \ {r} : phase'[q] = phase[q] /\ (q \in told' <=> q \in told)
             /\ r \in told => r \in told'
  BY <1>7 DEF Vibe!Completes, Held, Phases
<1>8. ASSUME NEW r \in Requests, Vibe!Poll(r)
      PROVE  ImmvibeInv'
  <2>0. VibeData(r) /\ polls[r] > 0 /\ r \notin halted /\ polls[r] \in Nat /\ idles[r] \in Nat
    BY <1>8 DEF Vibe!Poll
  <2>1. /\ r \in patterned /\ Held(r) /\ r \notin paused /\ polls[r] = 1 /\ idles[r] = 0
        /\ phase[r] # "prepared" /\ phase[r] # "none"
    BY <2>0 DEF VibeData, Fresh
  <2>2. /\ UNCHANGED <<patterned, halted, idles, plays>>
        /\ \/ Vibe!Completes(r) /\ told' = told \cup {r}
           \/ UNCHANGED <<phase, paused, told>>
    BY <1>8 DEF Vibe!Poll, Vibe!Repeats, Vibe!Restarts, Vibe!contractVars
  <2>3. /\ phase' \in [Requests -> Phases] /\ paused' = paused
        /\ \A q \in Requests : Held(q)' = Held(q)
        /\ \A q \in Requests : phase'[q] \in {phase[q], "ending"}
        /\ \A q \in Requests : phase[q] = "none" => phase'[q] = "none"
        /\ \A q \in Requests \ {r} : phase'[q] = phase[q] /\ (q \in told' <=> q \in told)
        /\ r \in told => r \in told'
    BY <1>7, <2>2
  <2>4. /\ Owned' /\ sounding' \subseteq Effects /\ effect' \in [Requests -> Effects \cup {0}]
        /\ polls' \in [Requests -> Nat]
        /\ \A q \in Requests \ {r} : polls'[q] = polls[q] /\ effect'[q] = effect[q]
        /\ polls'[r] \in {0, 1} /\ (polls'[r] = 0 => r \in told')
    <3>1. CASE r \in repeating
      <4>1. PICK k \in Effects \cup {0} :
              /\ Vibe!Starts(sounding \ {effect[r]}, k)
              /\ effect' = [effect EXCEPT ![r] = k]
              /\ polls' = [polls EXCEPT ![r] = IF k = 0 THEN polls[r] - 1 ELSE polls[r]]
              /\ k = 0 => told' = told \cup {r}
        BY <1>8, <3>1 DEF Vibe!Poll, Vibe!Repeats, Vibe!Restarts
      <4>2. \A x \in sounding \ {effect[r]} :
              \E q \in Requests \ {r} : Held(q)' /\ effect[q] = x
        BY <2>3 DEF Owned
      <4>3. Held(r)' /\ sounding \ {effect[r]} \in SUBSET sounding
        BY <2>1, <2>3
      <4>4. Owned' /\ sounding' \subseteq Effects /\ effect' \in [Requests -> Effects \cup {0}]
        BY <4>1, <4>2, <4>3, StartedIsOwned
      <4>5. QED
        BY <2>1, <4>1, <4>4
    <3>2. CASE r \notin repeating
      <4>1. /\ polls' = [polls EXCEPT ![r] = polls[r] - 1] /\ told' = told \cup {r}
            /\ UNCHANGED <<effect, sounding>>
        BY <1>8, <3>2 DEF Vibe!Poll
      <4>2. Owned'
        BY <2>3, <4>1 DEF Owned
      <4>3. QED
        BY <2>1, <4>1, <4>2
    <3>3. QED
      BY <3>1, <3>2
  <2>5. ASSUME NEW q \in Requests
        PROVE  VibeData(q)'
    <3>1. VibeData(q)
      OBVIOUS
    <3>2. CASE q # r
      BY <2>2, <2>3, <2>4, <3>1, <3>2 DEF VibeData, Fresh
    <3>3. CASE q = r
      BY <2>0, <2>1, <2>2, <2>3, <2>4, <3>3 DEF VibeData
    <3>4. QED
      BY <3>2, <3>3
  <2>6. QED
    BY <2>2, <2>3, <2>4, <2>5
<1>9. ASSUME NEW r \in Requests, Vibe!Idle(r)
      PROVE  ImmvibeInv'
  <2>1. /\ idles[r] > 0 /\ idles' = [idles EXCEPT ![r] = idles[r] - 1]
        /\ Vibe!Completes(r) /\ told' = told \cup {r}
        /\ UNCHANGED <<patterned, halted, effect, polls, sounding, plays>>
    BY <1>9 DEF Vibe!Idle
  <2>2. /\ phase' \in [Requests -> Phases] /\ paused' = paused
        /\ \A q \in Requests : Held(q)' = Held(q)
        /\ \A q \in Requests : phase'[q] \in {phase[q], "ending"}
        /\ \A q \in Requests : phase[q] = "none" => phase'[q] = "none"
        /\ \A q \in Requests \ {r} : phase'[q] = phase[q] /\ (q \in told' <=> q \in told)
    BY <1>7, <2>1
  <2>3. /\ Owned' /\ idles' \in [Requests -> Nat]
    BY <2>1, <2>2 DEF Owned
  <2>4. ASSUME NEW q \in Requests
        PROVE  VibeData(q)'
    <3>1. VibeData(q)
      OBVIOUS
    <3>2. CASE q # r
      <4>1. idles'[q] = idles[q]
        BY <2>1, <3>2
      <4>2. QED
        BY <2>1, <2>2, <3>1, <3>2, <4>1 DEF VibeData, Fresh
    <3>3. CASE q = r
      <4>1. idles'[r] = idles[r] - 1 /\ idles[r] \in Nat /\ polls[r] \in Nat
            /\ r \in told' /\ ~Fresh(r) /\ phase[r] # "none"
        BY <2>1, <3>1, <3>3 DEF VibeData, Fresh
      <4>2. phase'[r] # "none" /\ (phase'[r] = "prepared" => phase[r] = "prepared")
        BY <2>1, <4>1 DEF Vibe!Completes
      <4>3. QED
        BY <2>1, <2>2, <3>1, <3>3, <4>1, <4>2 DEF VibeData
    <3>4. QED
      BY <3>2, <3>3
  <2>5. QED
    BY <2>1, <2>2, <2>3, <2>4
<1>10. ASSUME Vibe!Silence
       PROVE  ImmvibeInv'
  <2>1. /\ UNCHANGED <<phase, paused, patterned, halted, effect, polls, idles, told, plays>>
        /\ sounding' \subseteq sounding
    BY <1>10 DEF Vibe!Silence, Vibe!contractVars
  <2>2. Owned'
    BY <2>1 DEF Owned, Held
  <2>3. \A q \in Requests : VibeData(q)'
    BY <2>1 DEF VibeData, Fresh, Held
  <2>4. QED
    BY <2>1, <2>2, <2>3
<1>11. QED
  BY <1>1, <1>2, <1>3, <1>4, <1>5, <1>6, <1>8, <1>9, <1>10 DEF Vibe!VibeNext

LEMMA ImmvibeIsSafe ==
  ASSUME ImmvibeInv
  PROVE  Vibe!VibrationIsOwned /\ Vibe!VibrationIsWatched /\ Vibe!SourcesAreNamed
<1>1. Vibe!VibrationIsOwned
  BY DEF ImmvibeInv, Owned, Held, Vibe!Held, Vibe!VibrationIsOwned
<1>2. ASSUME NEW r \in patterned
      PROVE  /\ phase[r] = "playing" /\ r \notin paused => polls[r] + idles[r] > 0 \/ r \in told
             /\ polls[r] + idles[r] <= 1 /\ (polls[r] + idles[r] > 0 => Held(r))
  <2>1. r \in Requests /\ VibeData(r) /\ polls[r] \in Nat /\ idles[r] \in Nat
    BY DEF ImmvibeInv
  <2>2. QED
    BY <2>1 DEF VibeData
<1>3. QED
  BY <1>1, <1>2 DEF Vibe!VibrationIsWatched, Vibe!SourcesAreNamed, Held, Vibe!Held

-----------------------------------------------------------------------------
(* ffmemless.                                                               *)

LEMMA FfmNames ==
  /\ Requests \cap Ffm!Table = {} /\ "free" \notin Ffm!Table /\ "free" \notin Requests
  /\ -1 \notin Slots /\ Slots \subseteq Nat
<1>1. Ffm!Table = Names \cup {"default"}
  BY DEF Ffm!Table, Ffm!Default
<1>2. Requests \cap Ffm!Table = {} /\ "free" \notin Ffm!Table /\ "free" \notin Requests
  BY <1>1, SinksAssumption
<1>3. Slots \subseteq Nat
  BY SinksAssumption
<1>4. QED
  BY <1>2, <1>3

LEMMA FfmInit ==
  ASSUME Ffm!FfmInit, ContractInit
  PROVE  FfmInv
<1> USE DEF Ffm!FfmInit, ContractInit, Ffm!NoSlot, Ffm!Free, Ffm!Unset
<1>1. FfmShape
  BY DEF FfmShape, FfmEffect, Phases
<1>2. TableData
  BY FfmNames DEF TableData
<1>3. \A r \in Requests : FfmData(r)
  BY FfmNames DEF FfmData
<1>4. \A k \in Slots : slot[k] \notin Requests
  BY FfmNames
<1>5. QED
  BY <1>1, <1>2, <1>3, <1>4 DEF FfmInv

\* The setup leaves the requests alone.
LEMMA SetupKeepsRequests ==
  ASSUME FfmInv, UNCHANGED <<phase, paused, played, cacheEffects, copy, timers, poll, early, plays>>,
         \A k \in Slots : slot'[k] = slot[k] \/ slot'[k] \notin Requests
  PROVE  /\ \A r \in Requests : FfmData(r)'
         /\ cacheEffects' \/ \A k \in Slots : slot'[k] \notin Requests
<1>1. \A r \in Requests : FfmData(r)
  BY DEF FfmInv
<1>2. \A r \in Requests, k \in Slots : slot'[k] = r => slot[k] = r
  OBVIOUS
<1>3. \A r \in Requests : FfmData(r)'
  BY <1>1, <1>2 DEF FfmData, Held
<1>4. QED
  BY <1>3 DEF FfmInv

\* The requests leave the effects of the table alone; one request leaves the
\* others alone.
LEMMA RequestKeepsOthers ==
  ASSUME FfmInv, NEW r \in Requests,
         FfmShape', UNCHANGED <<cacheEffects, setup, toDo, table>>,
         \A k \in Slots : slot'[k] = slot[k] \/ (cacheEffects /\ slot'[k] \in {"free", r}),
         \A q \in Requests \ {r} :
           /\ copy'[q] = copy[q] /\ timers'[q] = timers[q] /\ poll'[q] = poll[q]
           /\ q \in early' <=> q \in early
           /\ Held(q) => Held(q)'
           /\ q \in played' <=> q \in played
           /\ q \in paused' <=> q \in paused,
         FfmData(r)'
  PROVE  FfmInv'
<1>1. /\ FfmShape /\ TableData /\ \A q \in Requests : FfmData(q)
      /\ cacheEffects \/ \A k \in Slots : slot[k] \notin Requests
  BY DEF FfmInv
<1>2. TableData'
  <2>1. \A k \in Slots : slot'[k] \in Ffm!Table => slot'[k] = slot[k]
    BY FfmNames
  <2>2. \A k \in Slots : ~cacheEffects => slot'[k] = slot[k]
    OBVIOUS
  <2>3. \A e \in Ffm!Table : table[e].id # -1 => table[e].id \in Slots
    BY <1>1 DEF FfmShape, FfmEffect
  <2>4. QED
    BY <1>1, <2>1, <2>2, <2>3 DEF TableData
<1>3. ASSUME NEW q \in Requests
      PROVE  FfmData(q)'
  <2>1. CASE q = r
    BY <2>1
  <2>2. CASE q # r
    <3>1. \A k \in Slots : slot'[k] = q => slot[k] = q
      BY <2>2, FfmNames
    <3>2. QED
      BY <1>1, <2>2, <3>1 DEF FfmData
  <2>3. QED
    BY <2>1, <2>2
<1>4. cacheEffects' \/ \A k \in Slots : slot'[k] \notin Requests
  BY <1>1
<1>5. QED
  BY <1>2, <1>3, <1>4 DEF FfmInv

\* The slot of the copy is erased: if the request is not early no slot holds it
\* any more.
LEMMA SilencedFrees ==
  ASSUME FfmInv, NEW r \in Requests, Ffm!Silenced(r)
  PROVE  /\ slot' \in [Slots -> Ffm!Table \cup Requests \cup {"free"}]
         /\ \A k \in Slots : slot'[k] = slot[k] \/ (cacheEffects /\ slot'[k] = "free")
         /\ r \notin early => \A k \in Slots : slot'[k] # r
<1>1. /\ FfmShape /\ FfmData(r)
      /\ cacheEffects \/ \A k \in Slots : slot[k] \notin Requests
  BY DEF FfmInv
<1>2. /\ slot' \in [Slots -> Ffm!Table \cup Requests \cup {"free"}]
      /\ \A k \in Slots : slot'[k] = slot[k] \/ (cacheEffects /\ slot'[k] = "free")
      /\ cacheEffects => \A k \in Slots : k = copy[r].cached => slot'[k] = "free"
  BY <1>1 DEF Ffm!Silenced, Ffm!Erased, Ffm!Free, FfmShape
<1>3. r \notin early => \A k \in Slots : slot'[k] # r
  BY <1>1, <1>2, FfmNames DEF FfmData
<1>4. QED
  BY <1>2, <1>3

\* A play of a request that has no timer and is in no slot, unless it is early.
LEMMA FfmPlayKeeps ==
  ASSUME FfmInv, NEW r \in Requests, phase' \in [Requests -> Phases], Held(r)',
         \A q \in Requests \ {r} :
           /\ Held(q) => Held(q)'
           /\ q \in early' <=> q \in early
           /\ q \in played' <=> q \in played
           /\ q \in paused' <=> q \in paused,
         r \in played',
         r \notin early' => /\ r \notin early /\ timers[r] = {} /\ r \notin paused'
                          /\ \A k \in Slots : slot[k] # r,
         NEW ok \in BOOLEAN, Ffm!FfmPlay(r, ok)
  PROVE  FfmInv'
<1>1. FfmShape /\ FfmData(r)
  BY DEF FfmInv
<1>2. /\ plays' = [plays EXCEPT ![r] = plays[r] + 1]
      /\ UNCHANGED <<cacheEffects, setup, toDo, table>>
  BY DEF Ffm!FfmPlay, Ffm!setupVars
<1>3. plays' \in [Requests -> Nat]
  BY <1>1, <1>2 DEF FfmShape
<1> DEFINE n == IF copy[r].timed THEN plays'[r] ELSE 0
           tick == IF n = 0 THEN timers ELSE [timers EXCEPT ![r] = timers[r] \cup {n}]
<1>4. n \in Nat /\ tick \in [Requests -> SUBSET Nat]
      /\ tick[r] \subseteq timers[r] \cup {n}
      /\ \A q \in Requests \ {r} : tick[q] = timers[q]
  <2>1. n \in Nat
    BY <1>3
  <2> HIDE DEF n
  <2>2. CASE n = 0
    BY <1>1, <2>1, <2>2 DEF FfmShape
  <2>3. CASE n # 0
    BY <1>1, <2>1, <2>3 DEF FfmShape
  <2>4. QED
    BY <2>2, <2>3
<1>5. CASE ~copy[r].repeats /\ Ffm!Silenced(r) /\ poll' = [poll EXCEPT ![r] = 0]
           /\ UNCHANGED <<copy, timers>>
  <2>1. /\ slot' \in [Slots -> Ffm!Table \cup Requests \cup {"free"}]
        /\ \A k \in Slots : slot'[k] = slot[k] \/ (cacheEffects /\ slot'[k] = "free")
    BY <1>5, SilencedFrees
  <2>2. FfmShape'
    BY <1>1, <1>2, <1>3, <1>5, <2>1 DEF FfmShape
  <2>3. FfmData(r)'
    BY <1>5, <2>1, FfmNames DEF FfmData
  <2>4. \A q \in Requests \ {r} :
          copy'[q] = copy[q] /\ timers'[q] = timers[q] /\ poll'[q] = poll[q]
    BY <1>1, <1>5 DEF FfmShape
  <2>5. QED
    BY <1>2, <2>1, <2>2, <2>3, <2>4, RequestKeepsOthers
<1>6. CASE timers' = tick /\ poll' = [poll EXCEPT ![r] = n] /\ UNCHANGED <<copy, slot>>
  <2> HIDE DEF tick, n
  <2>1. FfmShape'
    BY <1>1, <1>2, <1>3, <1>4, <1>6 DEF FfmShape
  <2>2. FfmData(r)'
    BY <1>1, <1>4, <1>6 DEF FfmData, FfmShape
  <2>3. \A q \in Requests \ {r} :
          copy'[q] = copy[q] /\ timers'[q] = timers[q] /\ poll'[q] = poll[q]
    BY <1>1, <1>4, <1>6 DEF FfmShape
  <2>4. QED
    BY <1>2, <1>6, <2>1, <2>2, <2>3, RequestKeepsOthers
<1>7. CASE /\ cacheEffects /\ timers' = tick /\ poll' = [poll EXCEPT ![r] = n]
           /\ \E k \in Slots : Ffm!Uploaded(slot, k, r) /\ copy' = [copy EXCEPT ![r].cached = k]
  <2> HIDE DEF tick, n
  <2>1. PICK k \in Slots : slot' = [slot EXCEPT ![k] = r] /\ copy' = [copy EXCEPT ![r].cached = k]
    BY <1>7 DEF Ffm!Uploaded
  <2>2. copy' \in [Requests -> FfmEffect] /\ copy'[r].cached = k
        /\ \A q \in Requests \ {r} : copy'[q] = copy[q]
    BY <1>1, <2>1 DEF FfmShape, FfmEffect
  <2>3. FfmShape'
    BY <1>1, <1>2, <1>3, <1>4, <1>7, <2>1, <2>2 DEF FfmShape
  <2>4. \A j \in Slots : slot'[j] = IF j = k THEN r ELSE slot[j]
    BY <1>1, <2>1 DEF FfmShape
  <2>5. FfmData(r)'
    BY <1>1, <1>4, <1>7, <2>2, <2>4 DEF FfmData, FfmShape
  <2>6. \A q \in Requests \ {r} : timers'[q] = timers[q] /\ poll'[q] = poll[q]
    BY <1>1, <1>4, <1>7 DEF FfmShape
  <2>7. QED
    BY <1>2, <1>7, <2>2, <2>3, <2>4, <2>5, <2>6, RequestKeepsOthers
<1>8. CASE /\ cacheEffects /\ copy' = [copy EXCEPT ![r].cached = Ffm!NoSlot]
           /\ poll' = [poll EXCEPT ![r] = 0] /\ UNCHANGED <<timers, slot>>
  <2>1. copy' \in [Requests -> FfmEffect]
        /\ \A q \in Requests \ {r} : copy'[q] = copy[q]
    BY <1>1, <1>8 DEF FfmShape, FfmEffect, Ffm!NoSlot
  <2>2. FfmShape'
    BY <1>1, <1>2, <1>3, <1>8, <2>1 DEF FfmShape
  <2>3. FfmData(r)'
    BY <1>1, <1>8 DEF FfmData, FfmShape
  <2>4. \A q \in Requests \ {r} : timers'[q] = timers[q] /\ poll'[q] = poll[q]
    BY <1>1, <1>8 DEF FfmShape
  <2>5. QED
    BY <1>2, <1>8, <2>1, <2>2, <2>3, <2>4, RequestKeepsOthers
<1>9. QED
  BY <1>5, <1>6, <1>7, <1>8 DEF Ffm!FfmPlay

\* The calls that silence the effect and name no timer any more.
LEMMA SilencingKeeps ==
  ASSUME FfmInv, NEW r \in Requests, Ffm!Silenced(r), phase' \in [Requests -> Phases],
         \A q \in Requests \ {r} :
           /\ Held(q) => Held(q)'
           /\ q \in played' <=> q \in played
           /\ q \in paused' <=> q \in paused,
         NEW T \in SUBSET Nat, r \notin early => T = {},
         timers' = [timers EXCEPT ![r] = T], poll' = [poll EXCEPT ![r] = 0],
         copy' \in [Requests -> FfmEffect], \A q \in Requests \ {r} : copy'[q] = copy[q],
         plays' \in [Requests -> Nat], UNCHANGED <<cacheEffects, setup, toDo, table, early>>
  PROVE  FfmInv'
<1>1. FfmShape
  BY DEF FfmInv
<1>2. /\ slot' \in [Slots -> Ffm!Table \cup Requests \cup {"free"}]
      /\ \A k \in Slots : slot'[k] = slot[k] \/ (cacheEffects /\ slot'[k] = "free")
      /\ r \notin early => \A k \in Slots : slot'[k] # r
  BY SilencedFrees
<1>3. /\ timers' \in [Requests -> SUBSET Nat] /\ poll' \in [Requests -> Nat]
      /\ timers'[r] = T
      /\ \A q \in Requests \ {r} : timers'[q] = timers[q] /\ poll'[q] = poll[q]
  BY <1>1 DEF FfmShape
<1>4. FfmShape'
  BY <1>1, <1>2, <1>3 DEF FfmShape
<1>5. FfmData(r)'
  BY <1>2, <1>3 DEF FfmData
<1>6. QED
  BY <1>2, <1>3, <1>4, <1>5, RequestKeepsOthers

LEMMA SetupStepKeeps ==
  ASSUME FfmInv, \/ Ffm!SetupDefault \/ Ffm!EndPass \/ \E e \in Ffm!Table : Ffm!SetupEffect(e)
  PROVE  FfmInv'
<1>1. FfmShape /\ TableData
  BY DEF FfmInv
<1>2. UNCHANGED <<phase, paused, played, cacheEffects, copy, timers, poll, early, plays>>
  BY DEF Ffm!SetupDefault, Ffm!EndPass, Ffm!SetupEffect, Ffm!contractVars, Ffm!copyVars
<1>3. SUFFICES /\ FfmShape' /\ TableData'
               /\ \A k \in Slots : slot'[k] = slot[k] \/ slot'[k] \notin Requests
  BY <1>2, SetupKeepsRequests DEF FfmInv
\* A slot is taken for an effect after its old one was given back.
<1>4. ASSUME NEW e \in Ffm!Table, NEW s, NEW k \in Slots,
             s = Ffm!Erased(table[e].id), Ffm!Uploaded(s, k, e), setup' # "default",
             NEW new \in FfmEffect, new.id = k, table' = [table EXCEPT ![e] = new]
      PROVE  /\ FfmShape' /\ TableData'
             /\ \A j \in Slots : slot'[j] = slot[j] \/ slot'[j] \notin Requests
  <2> DEFINE old == table[e].id
  <2>1. /\ s \in [Slots -> Ffm!Table \cup Requests \cup {"free"}]
        /\ \A j \in Slots : s[j] = IF j = old THEN "free" ELSE slot[j]
    BY <1>1, <1>4 DEF Ffm!Erased, Ffm!Free, FfmShape
  <2>2. slot' = [s EXCEPT ![k] = e] /\ s[k] = "free"
    BY <1>4 DEF Ffm!Uploaded, Ffm!Free
  <2>3. /\ slot' \in [Slots -> Ffm!Table \cup Requests \cup {"free"}]
        /\ \A j \in Slots :
             slot'[j] = IF j = k THEN e ELSE IF j = old THEN "free" ELSE slot[j]
    BY <2>1, <2>2
  <2>4. /\ table' \in [Ffm!Table -> FfmEffect] /\ table'[e].id = k
        /\ \A f \in Ffm!Table \ {e} : table'[f] = table[f]
    BY <1>1, <1>4 DEF FfmShape
  <2>5. FfmShape'
    BY <1>1, <1>2, <2>3, <2>4 DEF FfmShape
  <2>6. ASSUME NEW j \in Slots, slot'[j] \in Ffm!Table
        PROVE  table'[slot'[j]].id = j
    <3>1. CASE j = k
      BY <2>3, <2>4, <3>1
    <3>2. CASE j # k
      <4>1. j # old /\ slot'[j] = slot[j]
        BY <2>3, <2>6, <3>2, FfmNames
      <4>2. table[slot[j]].id = j
        BY <1>1, <2>6, <4>1 DEF TableData
      <4>3. slot[j] # e
        BY <4>1, <4>2
      <4>4. QED
        BY <2>4, <2>6, <4>1, <4>2, <4>3
    <3>3. QED
      BY <3>1, <3>2
  <2>7. ASSUME ~cacheEffects, NEW f \in Ffm!Table, table'[f].id # -1
        PROVE  slot'[table'[f].id] = f
    <3>1. CASE f = e
      BY <2>3, <2>4, <3>1
    <3>2. CASE f # e
      <4>1. table'[f] = table[f] /\ table[f].id \in Slots
        BY <1>1, <2>4, <2>7, <3>2 DEF FfmShape, FfmEffect
      <4>2. slot[table[f].id] = f
        BY <1>1, <2>7, <4>1 DEF TableData
      <4>3. table[f].id # old
        BY <1>1, <2>7, <3>2, <4>1, <4>2 DEF TableData
      <4>4. table[f].id # k
        <5>1. s[table[f].id] = f
          BY <2>1, <4>1, <4>2, <4>3
        <5>2. QED
          BY <2>2, <5>1, FfmNames
      <4>5. QED
        BY <2>3, <4>1, <4>2, <4>3, <4>4
    <3>3. QED
      BY <3>1, <3>2
  <2>8. TableData'
    BY <1>2, <1>4, <2>6, <2>7 DEF TableData
  <2>9. \A j \in Slots : slot'[j] = slot[j] \/ slot'[j] \notin Requests
    BY <2>3, FfmNames
  <2>10. QED
    BY <2>5, <2>8, <2>9
<1>5. CASE Ffm!SetupDefault
  <2>1. setup = "default"
    BY <1>5 DEF Ffm!SetupDefault
  <2>2. CASE setup' = "failed" /\ UNCHANGED <<table, slot>>
    BY <1>1, <1>2, <2>1, <2>2 DEF FfmShape, TableData
  <2>3. CASE /\ setup' = "ngfd"
             /\ \E k \in Slots :
                  /\ Ffm!Uploaded(slot, k, Ffm!Default)
                  /\ table' = [table EXCEPT ![Ffm!Default] =
                       [Ffm!Unset EXCEPT !.id = k, !.repeats = Ffm!Default \in Names]]
    <3>1. PICK k \in Slots :
            /\ Ffm!Uploaded(slot, k, Ffm!Default)
            /\ table' = [table EXCEPT ![Ffm!Default] =
                 [Ffm!Unset EXCEPT !.id = k, !.repeats = Ffm!Default \in Names]]
      BY <2>3
    <3>2. Ffm!Default \in Ffm!Table
      BY DEF Ffm!Table
    <3>3. table[Ffm!Default].id = -1
      BY <1>1, <2>1, <3>2 DEF TableData
    <3>4. slot = Ffm!Erased(table[Ffm!Default].id)
      BY <3>3, FfmNames DEF Ffm!Erased
    <3> DEFINE b == Ffm!Default \in Names
               new == [Ffm!Unset EXCEPT !.id = k, !.repeats = b]
    <3>5. b \in BOOLEAN
      <4>1. CASE Ffm!Default \in Names
        BY <4>1
      <4>2. CASE Ffm!Default \notin Names
        BY <4>2
      <4>3. QED
        BY <4>1, <4>2
    <3> HIDE DEF b
    <3>6. new \in FfmEffect /\ new.id = k
      BY <3>5 DEF FfmEffect, Ffm!Unset, Ffm!NoSlot
    <3>7. table' = [table EXCEPT ![Ffm!Default] = new]
      BY <3>1 DEF b
    <3> HIDE DEF new
    <3>8. QED
      BY <1>4, <2>3, <3>1, <3>2, <3>4, <3>6, <3>7
  <2>4. QED
    BY <1>5, <2>2, <2>3 DEF Ffm!SetupDefault
<1>6. CASE Ffm!EndPass
  <2>1. setup' # "default" /\ UNCHANGED <<table, slot>>
    BY <1>6 DEF Ffm!EndPass
  <2>2. QED
    BY <1>1, <1>2, <2>1 DEF FfmShape, TableData
<1>7. ASSUME NEW e \in Ffm!Table, Ffm!SetupEffect(e)
      PROVE  /\ FfmShape' /\ TableData'
             /\ \A k \in Slots : slot'[k] = slot[k] \/ slot'[k] \notin Requests
  <2>1. CASE UNCHANGED <<setup, table, slot>> /\ toDo' = toDo \ {e}
    BY <1>1, <1>2, <2>1 DEF FfmShape, TableData
  <2>2. CASE /\ setup' = setup /\ setup # "default"
             /\ \E k \in Slots :
                  /\ Ffm!Uploaded(Ffm!Erased(table[e].id), k, e)
                  /\ table' = [table EXCEPT ![e] =
                       [id |-> k, cached |-> IF cacheEffects THEN k ELSE Ffm!NoSlot,
                        repeats |-> TRUE, timed |-> FALSE]]
    <3>1. PICK k \in Slots :
            /\ Ffm!Uploaded(Ffm!Erased(table[e].id), k, e)
            /\ table' = [table EXCEPT ![e] =
                 [id |-> k, cached |-> IF cacheEffects THEN k ELSE Ffm!NoSlot,
                  repeats |-> TRUE, timed |-> FALSE]]
      BY <2>2
    <3>2. PICK new : new = [id |-> k, cached |-> IF cacheEffects THEN k ELSE Ffm!NoSlot,
                            repeats |-> TRUE, timed |-> FALSE]
      OBVIOUS
    <3>3. new \in FfmEffect /\ new.id = k
      BY <3>2 DEF FfmEffect, Ffm!NoSlot
    <3>4. QED
      BY <1>4, <2>2, <3>1, <3>2, <3>3
  <2>3. CASE /\ slot' = Ffm!Erased(table[e].id) /\ setup' # "default"
             /\ table' = [table EXCEPT ![e].id = Ffm!NoSlot, ![e].repeats = TRUE]
    <3> DEFINE old == table[e].id
    <3>1. /\ slot' \in [Slots -> Ffm!Table \cup Requests \cup {"free"}]
          /\ \A j \in Slots : slot'[j] = IF j = old THEN "free" ELSE slot[j]
      BY <1>1, <2>3 DEF Ffm!Erased, Ffm!Free, FfmShape
    <3> DEFINE n == [table[e] EXCEPT !.id = Ffm!NoSlot, !.repeats = TRUE]
    <3>2. n \in FfmEffect /\ n.id = -1
      BY <1>1 DEF FfmShape, FfmEffect, Ffm!NoSlot
    <3>3. table' = [table EXCEPT ![e] = n] /\ table \in [Ffm!Table -> FfmEffect]
      BY <1>1, <2>3 DEF FfmShape
    <3> HIDE DEF n
    <3>4. /\ table' \in [Ffm!Table -> FfmEffect] /\ table'[e].id = -1
          /\ \A f \in Ffm!Table \ {e} : table'[f] = table[f]
      BY <1>1, <3>2, <3>3
    <3>5. FfmShape'
      BY <1>1, <1>2, <3>1, <3>4 DEF FfmShape
    <3>6. ASSUME NEW j \in Slots, slot'[j] \in Ffm!Table
          PROVE  table'[slot'[j]].id = j
      <4>1. j # old /\ slot'[j] = slot[j]
        BY <3>1, <3>6, FfmNames
      <4>2. table[slot[j]].id = j
        BY <1>1, <3>6, <4>1 DEF TableData
      <4>3. slot[j] # e
        BY <4>1, <4>2
      <4>4. QED
        BY <3>4, <3>6, <4>1, <4>2, <4>3
    <3>7. ASSUME ~cacheEffects, NEW f \in Ffm!Table, table'[f].id # -1
          PROVE  slot'[table'[f].id] = f
      <4>1. f # e
        BY <3>4, <3>7
      <4>2. table'[f] = table[f] /\ table[f].id \in Slots
        BY <1>1, <3>4, <3>7, <4>1 DEF FfmShape, FfmEffect
      <4>3. slot[table[f].id] = f
        BY <1>1, <3>7, <4>2 DEF TableData
      <4>4. table[f].id # old
        BY <1>1, <3>7, <4>1, <4>2, <4>3 DEF TableData
      <4>5. QED
        BY <3>1, <4>2, <4>3, <4>4
    <3>8. TableData'
      BY <1>2, <2>3, <3>6, <3>7 DEF TableData
    <3>9. QED
      BY <3>1, <3>5, <3>8, FfmNames
  <2>4. setup # "default"
    BY <1>1, <1>7 DEF Ffm!SetupEffect, TableData
  <2>5. QED
    BY <1>7, <2>1, <2>2, <2>3, <2>4 DEF Ffm!SetupEffect
<1>8. QED
  BY <1>5, <1>6, <1>7

LEMMA FfmStepKeepsInv ==
  ASSUME FfmInv, Ffm!FfmNext
  PROVE  FfmInv'
<1>1. /\ FfmShape /\ TableData /\ \A q \in Requests : FfmData(q)
      /\ cacheEffects \/ \A k \in Slots : slot[k] \notin Requests
  BY DEF FfmInv
<1>2. ASSUME Ffm!EndAttempts
      PROVE  FfmInv'
  <2>1. PICK R \in SUBSET Requests : Ffm!Ends(R)
    BY <1>2 DEF Ffm!EndAttempts
  <2>2. UNCHANGED <<cacheEffects, setup, toDo, table, copy, slot, timers, poll, early, plays>>
    BY <1>2 DEF Ffm!EndAttempts, Ffm!ffmVars, Ffm!setupVars, Ffm!copyVars
  <2>3. /\ phase' \in [Requests -> Phases] /\ paused' = paused /\ played' = played
        /\ \A q \in Requests : Held(q)' = Held(q)
    BY <1>1, <2>1 DEF Ffm!Ends, Ffm!Held, Held, Phases, FfmShape
  <2>4. FfmShape' /\ TableData' /\ \A q \in Requests : FfmData(q)'
    BY <1>1, <2>2, <2>3 DEF FfmShape, TableData, FfmData
  <2>5. QED
    BY <1>1, <2>2, <2>4 DEF FfmInv
<1>3. ASSUME NEW r \in Requests, Ffm!Prepare(r)
      PROVE  FfmInv'
  <2>1. /\ UNCHANGED <<cacheEffects, setup, toDo, table, slot, timers, poll, early, plays, paused, played>>
        /\ phase[r] = "none"
        /\ \E p \in {"prepared", "ending"} : phase' = [phase EXCEPT ![r] = p]
    BY <1>3 DEF Ffm!Prepare, Ffm!PreparesPrompt, Ffm!setupVars
  <2>2. /\ phase' \in [Requests -> Phases] /\ \A q \in Requests : Held(q) => Held(q)'
    BY <1>1, <2>1 DEF Held, Phases, FfmShape
  <2>3. PICK e \in Ffm!Table :
          LET d == [table[e] EXCEPT !.id = Ffm!NoSlot]
          IN  copy' \in {[copy EXCEPT ![r] = c] : c \in
                {d, [d EXCEPT !.repeats = TRUE],
                 [d EXCEPT !.repeats = TRUE, !.timed = TRUE]}}
    BY <1>3 DEF Ffm!Prepare
  <2>4. PICK c : /\ copy' = [copy EXCEPT ![r] = c]
                 /\ \/ c = [table[e] EXCEPT !.id = Ffm!NoSlot]
                    \/ c = [table[e] EXCEPT !.id = Ffm!NoSlot, !.repeats = TRUE]
                    \/ c = [table[e] EXCEPT !.id = Ffm!NoSlot, !.repeats = TRUE, !.timed = TRUE]
    BY <2>3
  <2>5. c \in FfmEffect
    <3>1. table[e] \in FfmEffect
      BY <1>1 DEF FfmShape
    <3>2. QED
      BY <2>4, <3>1 DEF FfmEffect, Ffm!NoSlot
  <2>6. FfmShape' /\ \A q \in Requests \ {r} : copy'[q] = copy[q]
    BY <1>1, <2>1, <2>2, <2>4, <2>5 DEF FfmShape
  <2>7. FfmData(r)'
    BY <1>1, <2>1 DEF FfmData, Held
  <2>8. QED
    BY <2>1, <2>2, <2>6, <2>7, RequestKeepsOthers
<1>4. ASSUME NEW r \in Requests, Ffm!Start(r)
      PROVE  FfmInv'
  <2>1. PICK p \in {"playing", "ending"} : phase' = [phase EXCEPT ![r] = p]
    BY <1>4 DEF Ffm!Start, Ffm!Plays
  <2>2. /\ phase[r] = "prepared" /\ paused' = paused /\ played' = played \cup {r}
        /\ early' = IF r \in paused \cup played THEN early \cup {r} ELSE early
    BY <1>4 DEF Ffm!Start, Ffm!Plays
  <2>3. PICK ok \in BOOLEAN : Ffm!FfmPlay(r, ok)
    BY <1>4 DEF Ffm!Start
  <2>4. /\ phase' \in [Requests -> Phases] /\ Held(r)'
        /\ \A q \in Requests : Held(q) => Held(q)'
    BY <1>1, <2>1, <2>2 DEF Held, Phases, FfmShape
  <2>5. r \notin early' => /\ r \notin early /\ timers[r] = {} /\ r \notin paused'
                         /\ \A k \in Slots : slot[k] # r
    BY <1>1, <2>2 DEF FfmData
  <2>6. QED
    BY <2>2, <2>3, <2>4, <2>5, FfmPlayKeeps
<1>5. ASSUME NEW r \in Requests, Ffm!Pause(r)
      PROVE  FfmInv'
  <2>1. /\ UNCHANGED <<cacheEffects, setup, toDo, table, copy, early, plays, phase, played>>
        /\ paused' = paused \cup {r} /\ Ffm!Silenced(r)
        /\ timers' = [timers EXCEPT ![r] = timers[r] \ {poll[r]}]
        /\ poll' = [poll EXCEPT ![r] = 0]
    BY <1>5 DEF Ffm!Pause, Ffm!Pauses, Ffm!setupVars
  <2>2. timers[r] \ {poll[r]} \in SUBSET Nat /\ (r \notin early => timers[r] \ {poll[r]} = {})
    BY <1>1 DEF FfmShape, FfmData
  <2>3. \A q \in Requests : Held(q) => Held(q)'
    BY <2>1 DEF Held
  <2>4. QED
    BY <1>1, <2>1, <2>2, <2>3, SilencingKeeps DEF FfmShape
<1>6. ASSUME NEW r \in Requests, Ffm!Resume(r)
      PROVE  FfmInv'
  <2>1. /\ phase' = phase /\ Held(r) /\ r \in paused /\ paused' = paused \ {r}
        /\ played' \in {played, played \cup {r}} /\ r \in played' /\ early' = early
    BY <1>6 DEF Ffm!Resume, Ffm!Resumes, Ffm!Held, Held
  <2>2. PICK ok \in BOOLEAN : Ffm!FfmPlay(r, ok)
    BY <1>6 DEF Ffm!Resume
  <2>3. phase' \in [Requests -> Phases] /\ \A q \in Requests : Held(q) => Held(q)'
    BY <1>1, <2>1 DEF Held, FfmShape
  <2>4. r \notin early' => /\ r \notin early /\ timers[r] = {} /\ r \notin paused'
                         /\ \A k \in Slots : slot[k] # r
    BY <1>1, <2>1 DEF FfmData
  <2>5. QED
    BY <2>1, <2>2, <2>3, <2>4, FfmPlayKeeps
<1>7. ASSUME NEW r \in Requests, Ffm!Stop(r)
      PROVE  FfmInv'
  <2>1. /\ UNCHANGED <<cacheEffects, setup, toDo, table, early>>
        /\ phase' = [phase EXCEPT ![r] = "gone"] /\ Ffm!Silenced(r)
        /\ paused' = paused \ {r} /\ played' = played \ {r}
        /\ timers' = [timers EXCEPT ![r] = timers[r] \ {poll[r]}]
        /\ poll' = [poll EXCEPT ![r] = 0]
        /\ copy' = [copy EXCEPT ![r] = Ffm!Unset] /\ plays' = [plays EXCEPT ![r] = 0]
    BY <1>7 DEF Ffm!Stop, Ffm!Stops, Ffm!setupVars
  <2>2. timers[r] \ {poll[r]} \in SUBSET Nat /\ (r \notin early => timers[r] \ {poll[r]} = {})
    BY <1>1 DEF FfmShape, FfmData
  <2>3. /\ phase' \in [Requests -> Phases]
        /\ \A q \in Requests \ {r} : Held(q) => Held(q)'
    BY <1>1, <2>1 DEF Held, Phases, FfmShape
  <2>4. /\ copy' \in [Requests -> FfmEffect] /\ \A q \in Requests \ {r} : copy'[q] = copy[q]
        /\ plays' \in [Requests -> Nat]
    BY <1>1, <2>1 DEF FfmShape, FfmEffect, Ffm!Unset, Ffm!NoSlot
  <2>5. QED
    BY <2>1, <2>2, <2>3, <2>4, SilencingKeeps
<1>8. ASSUME NEW r \in Requests, Ffm!PlaybackDone(r)
      PROVE  FfmInv'
  <2> DEFINE k == Ffm!Min(timers[r])
  <2>1. /\ UNCHANGED <<cacheEffects, setup, toDo, table, copy, early, plays, paused, played>>
        /\ timers[r] # {} /\ Ffm!Silenced(r)
        /\ timers' = [timers EXCEPT ![r] = timers[r] \ {k}]
        /\ poll' = [poll EXCEPT ![r] = 0]
        /\ \/ phase' = phase
           \/ phase[r] = "playing" /\ phase' = [phase EXCEPT ![r] = "ending"]
    BY <1>8 DEF Ffm!PlaybackDone, Ffm!Completes, Ffm!setupVars
  <2>2. r \notin early => timers[r] = {poll[r]} /\ poll[r] \in Nat
    BY <1>1, <2>1 DEF FfmShape, FfmData
  <2>3. r \notin early => k = poll[r]
    BY <2>2 DEF Ffm!Min
  <2> HIDE DEF k
  <2>4. timers[r] \ {k} \in SUBSET Nat /\ (r \notin early => timers[r] \ {k} = {})
    BY <1>1, <2>2, <2>3 DEF FfmShape
  <2>5. /\ phase' \in [Requests -> Phases]
        /\ \A q \in Requests : Held(q) => Held(q)'
    BY <1>1, <2>1 DEF Held, Phases, FfmShape
  <2>6. QED
    BY <1>1, <2>1, <2>4, <2>5, SilencingKeeps DEF FfmShape
<1>9. QED
  BY <1>2, <1>3, <1>4, <1>5, <1>6, <1>7, <1>8, SetupStepKeeps DEF Ffm!FfmNext

LEMMA FfmIsSafe ==
  ASSUME FfmInv
  PROVE  Ffm!SlotsAreAccounted /\ Ffm!TimersAreNamed
BY DEF FfmInv, TableData, FfmData, Held, Ffm!Held, Ffm!NoSlot, Ffm!SlotsAreAccounted,
       Ffm!TimersAreNamed

-----------------------------------------------------------------------------
(* mce.                                                                     *)

\* The calls that wait are pairs, and so are the messages.
LEMMA PairFacts ==
  ASSUME NEW A, NEW B, NEW s \in Seq(A \X B), s # <<>>
  PROVE  /\ Head(s) = s[1] /\ s[1] = <<s[1][1], s[1][2]>>
         /\ s[1][1] \in A /\ s[1][2] \in B
         /\ Tail(s) \in Seq(A \X B) /\ 1 \in DOMAIN s
BY ElementOfSeq

\* What a call that is added means for pattern p,
LEMMA Sent ==
  ASSUME MceShape, NEW p, NEW call \in {"activate", "deactivate"}, NEW w \in Patterns,
         toMce' = Append(toMce, <<call, w>>)
  PROVE  /\ toMce' \in Seq(Calls)
         /\ \A c : \A i : i \in Waiting(c, p)' <=>
              i \in Waiting(c, p) \/ (i = Len(toMce) + 1 /\ c = call /\ p = w)
<1>1. toMce \in Seq(Calls)
  BY DEF MceShape
<1>2. /\ toMce' \in Seq(Calls)
      /\ DOMAIN toMce' = 1..(Len(toMce) + 1) /\ DOMAIN toMce = 1..Len(toMce)
      /\ Len(toMce) \in Nat
      /\ \A i \in 1..Len(toMce) : toMce'[i] = toMce[i]
      /\ toMce'[Len(toMce) + 1] = <<call, w>>
  <2>1. <<call, w>> \in Calls
    BY DEF Calls
  <2>2. QED
    BY <1>1, <2>1
<1>3. ASSUME NEW c, NEW i
      PROVE  i \in Waiting(c, p)' <=>
               i \in Waiting(c, p) \/ (i = Len(toMce) + 1 /\ c = call /\ p = w)
  BY <1>2 DEF Waiting
<1>4. QED
  BY <1>2, <1>3

\* and one that is taken.
LEMMA Taken ==
  ASSUME MceShape, NEW p, toMce # <<>>, toMce' = Tail(toMce)
  PROVE  /\ toMce' \in Seq(Calls)
         /\ \A c : \A i : i \in Waiting(c, p)' <=>
              i \in Nat /\ i # 0 /\ i + 1 \in Waiting(c, p)
         /\ \A c : \A i \in Waiting(c, p) : i \in Nat /\ (i = 1 <=> i - 1 \notin Waiting(c, p)')
         /\ \A c : 1 \in Waiting(c, p) <=> Head(toMce) = <<c, p>>
<1>1. toMce \in Seq(Calls)
  BY DEF MceShape
<1>2. /\ toMce' \in Seq(Calls)
      /\ DOMAIN toMce' = 1..(Len(toMce) - 1) /\ DOMAIN toMce = 1..Len(toMce)
      /\ Len(toMce) \in Nat /\ Len(toMce) # 0
      /\ \A i \in 1..(Len(toMce) - 1) : toMce'[i] = toMce[i + 1]
      /\ Head(toMce) = toMce[1]
  BY <1>1
<1>3. ASSUME NEW c, NEW i
      PROVE  i \in Waiting(c, p)' <=> i \in Nat /\ i # 0 /\ i + 1 \in Waiting(c, p)
  BY <1>2 DEF Waiting
<1>4. ASSUME NEW c, NEW i \in Waiting(c, p)
      PROVE  i \in Nat /\ (i = 1 <=> i - 1 \notin Waiting(c, p)')
  BY <1>2, <1>3 DEF Waiting
<1>5. ASSUME NEW c
      PROVE  1 \in Waiting(c, p) <=> Head(toMce) = <<c, p>>
  BY <1>2 DEF Waiting
<1>6. QED
  BY <1>2, <1>3, <1>4, <1>5

\* What waits for p is the same, but for its places.
SameWaits(p) ==
  /\ Waiting("deactivate", p)' = {} <=> Waiting("deactivate", p) = {}
  /\ Waiting("activate", p)' = {} <=> Waiting("activate", p) = {}
  /\ Once(p) => Once(p)'
  /\ PutOutAfter(p) => PutOutAfter(p)'

LEMMA SentForAnother ==
  ASSUME MceShape, NEW p, NEW call \in {"activate", "deactivate"}, NEW w \in Patterns, w # p,
         toMce' = Append(toMce, <<call, w>>)
  PROVE  SameWaits(p)
<1>1. ASSUME NEW c
      PROVE  Waiting(c, p)' = Waiting(c, p)
  <2>1. \A i : i \in Waiting(c, p)' <=> i \in Waiting(c, p)
    BY Sent
  <2>2. QED
    BY <2>1
<1>2. QED
  BY <1>1 DEF SameWaits, Once, PutOutAfter

LEMMA TakenForAnother ==
  ASSUME MceShape, NEW p, toMce # <<>>, toMce' = Tail(toMce), Head(toMce)[2] # p
  PROVE  SameWaits(p)
<1>1. \A c : Head(toMce) # <<c, p>>
  OBVIOUS
<1>2. \A c : 1 \notin Waiting(c, p)
  BY <1>1, Taken
<1>3. \A c : \A i \in Waiting(c, p) : i \in Nat /\ i - 1 \in Waiting(c, p)'
  BY <1>2, Taken
<1>4. \A c : \A i \in Waiting(c, p)' : i \in Nat /\ i + 1 \in Waiting(c, p)
  BY Taken
<1>5. \A c : Waiting(c, p)' = {} <=> Waiting(c, p) = {}
  BY <1>3, <1>4
<1>6. Once(p) => Once(p)'
  BY <1>4 DEF Once
<1>7. PutOutAfter(p) => PutOutAfter(p)'
  <2>1. SUFFICES ASSUME PutOutAfter(p), NEW i \in Waiting("activate", p)'
                 PROVE  \E j \in Waiting("deactivate", p)' : i < j
    BY DEF PutOutAfter
  <2>2. PICK j \in Waiting("deactivate", p) : i + 1 < j
    BY <1>4, <2>1 DEF PutOutAfter
  <2>3. j \in Nat /\ i \in Nat /\ j - 1 \in Waiting("deactivate", p)'
    BY <1>3, <1>4
  <2>4. i < j - 1
    BY <2>2, <2>3
  <2>5. QED
    BY <2>3, <2>4
<1>8. QED
  BY <1>5, <1>6, <1>7 DEF SameWaits

LEMMA MceInit ==
  ASSUME Mce!MceInit, ContractInit
  PROVE  MceInv
<1>1. /\ phase = [r \in Requests |-> "none"] /\ plays = [r \in Requests |-> 0]
      /\ wanted \in [Requests -> Patterns \cup {"no pattern"}]
      /\ pattern = [r \in Requests |-> "no pattern"]
      /\ active = <<>> /\ toMce = <<>> /\ fromMce = <<>> /\ lit = {}
  BY DEF Mce!MceInit, ContractInit, Mce!NoPattern
<1>2. DOMAIN <<>> = {} /\ \A S : <<>> \in Seq(S)
  OBVIOUS
<1>3. MceShape
  <2>1. \A r \in Requests : pattern[r] \in {"no pattern", wanted[r]}
    BY <1>1
  <2>2. phase \in [Requests -> Phases] /\ plays \in [Requests -> Nat]
        /\ pattern \in [Requests -> Patterns \cup {"no pattern"}]
    BY <1>1 DEF Phases
  <2>3. QED
    BY <1>1, <1>2, <2>1, <2>2 DEF MceShape
<1>4. ListIsHeld
  BY <1>1, <1>2 DEF ListIsHeld
<1>5. ASSUME NEW p
      PROVE  Dark(p) /\ ~EndIsTold(p) /\ \A c : Waiting(c, p) = {}
  BY <1>1, <1>2 DEF Waiting, Dark, EndIsTold
<1>6. ASSUME NEW r \in Requests, NEW p \in Patterns
      PROVE  LightIsFollowed(r, p)
  <2>1. phase[r] = "none" /\ plays[r] = 0
    BY <1>1
  <2>2. QED
    BY <1>5, <2>1 DEF LightIsFollowed, Once
<1>7. QED
  BY <1>3, <1>4, <1>6 DEF MceInv

\* What keeps the light of a request followed.
LEMMA LightStays ==
  ASSUME NEW r \in Requests, NEW p, LightIsFollowed(r, p), SameWaits(p),
         phase'[r] = "gone" <=> phase[r] = "gone", plays'[r] = plays[r],
         p \in lit' <=> p \in lit, EndIsTold(p)' => EndIsTold(p),
         pattern'[r] = pattern[r],
         Listed(r) => Listed(r)' \/ phase[r] = "gone" \/ Dark(p)
  PROVE  LightIsFollowed(r, p)'
<1>1. Dark(p)' <=> Dark(p)
  BY DEF Dark, SameWaits
<1>2. QED
  BY <1>1 DEF LightIsFollowed, SameWaits

\* The facts of the shape that are needed without the sequences of pairs,
LEMMA MceTypes ==
  ASSUME MceShape
  PROVE  /\ plays \in [Requests -> Nat] /\ lit \subseteq Patterns
         /\ wanted \in [Requests -> Patterns \cup {"no pattern"}]
         /\ pattern \in [Requests -> Patterns \cup {"no pattern"}]
         /\ \A r \in Requests : pattern[r] \in {"no pattern", wanted[r]}
         /\ active \in Seq(Requests) /\ DOMAIN active = 1..Len(active) /\ Len(active) \in Nat
         /\ \A i \in DOMAIN active : active[i] \in Requests
<1>1. active \in Seq(Requests)
  BY DEF MceShape
<1>2. /\ DOMAIN active = 1..Len(active) /\ Len(active) \in Nat
      /\ \A i \in DOMAIN active : active[i] \in Requests
  BY ONLY <1>1, ElementOfSeq
<1>3. QED
  BY <1>1, <1>2 DEF MceShape

\* and the shape of the next state from its parts.
LEMMA ShapeStays ==
  ASSUME MceShape, phase' \in [Requests -> Phases], plays' \in [Requests -> Nat],
         wanted' = wanted, pattern' \in [Requests -> Patterns \cup {"no pattern"}],
         \A r \in Requests : pattern'[r] \in {"no pattern", wanted[r]},
         active' \in Seq(Requests), lit' \subseteq Patterns,
         toMce' \in Seq(Calls), fromMce' \in Seq(Messages)
  PROVE  MceShape'
BY DEF MceShape

\* A call of the core that asks mce for nothing.
LEMMA QuietCallKeeps ==
  ASSUME MceInv, phase' \in [Requests -> Phases],
         UNCHANGED <<wanted, pattern, playing, active, toMce, fromMce, lit, plays>>,
         \A q \in Requests : Held(q) => Held(q)',
         \A q \in Requests : phase'[q] = "gone" <=> phase[q] = "gone"
  PROVE  MceInv'
<1>1. MceShape'
  BY DEF MceInv, MceShape
<1>2. ListIsHeld'
  <2>1. \A i \in DOMAIN active : active[i] \in Requests
    BY MceTypes DEF MceInv
  <2>2. QED
    BY <2>1 DEF MceInv, ListIsHeld
<1>3. ASSUME NEW r \in Requests, NEW p \in Patterns, LightIsFollowed(r, p)
      PROVE  LightIsFollowed(r, p)'
  <2>1. SameWaits(p) /\ (EndIsTold(p)' <=> EndIsTold(p)) /\ (Listed(r)' <=> Listed(r))
    BY DEF SameWaits, Waiting, Once, PutOutAfter, EndIsTold, Listed
  <2>2. QED
    BY <1>3, <2>1, LightStays
<1>4. QED
  BY <1>1, <1>2, <1>3 DEF MceInv, Alone

LEMMA LightUpKeeps ==
  ASSUME MceInv, NEW q \in Requests, phase' \in [Requests -> Phases], Held(q), Held(q)',
         \A s \in Requests : Held(s) => Held(s)',
         \A s \in Requests : phase'[s] = "gone" <=> phase[s] = "gone",
         Mce!LightUp(q)
  PROVE  MceInv'
<1>1. MceShape /\ ListIsHeld
  BY DEF MceInv
<1>2. /\ plays' = [plays EXCEPT ![q] = plays[q] + 1]
      /\ UNCHANGED <<wanted, fromMce, lit>>
  BY DEF Mce!LightUp
<1>3. /\ lit \subseteq Patterns
      /\ wanted \in [Requests -> Patterns \cup {"no pattern"}]
      /\ pattern \in [Requests -> Patterns \cup {"no pattern"}]
      /\ \A r \in Requests : pattern[r] \in {"no pattern", wanted[r]}
  BY <1>1, MceTypes
<1>10. active \in Seq(Requests) /\ \A i \in DOMAIN active : active[i] \in Requests
  BY <1>1, MceTypes
<1>11. plays \in [Requests -> Nat]
  BY <1>1, MceTypes
<1>4. \A p : EndIsTold(p)' <=> EndIsTold(p)
  BY <1>2 DEF EndIsTold
<1>5. plays' \in [Requests -> Nat] /\ plays'[q] = plays[q] + 1
      /\ \A s \in Requests \ {q} : plays'[s] = plays[s]
  BY ONLY <1>2, <1>11, q \in Requests
<1>6. \A s \in Requests : plays'[s] <= 1 => plays[s] <= 1
  BY ONLY <1>5, <1>11, q \in Requests
<1>7. CASE wanted[q] = "no pattern"
  <2>1. UNCHANGED <<pattern, active, toMce>>
    BY <1>7 DEF Mce!LightUp, Mce!NoPattern
  <2>2. MceShape'
    BY <1>1, <1>2, <1>5, <2>1 DEF MceShape
  <2>3. ListIsHeld'
    BY <1>1, <1>10, <2>1 DEF ListIsHeld
  <2>4. ASSUME NEW r \in Requests, NEW p \in Patterns, wanted[r] = p, LightIsFollowed(r, p)
        PROVE  LightIsFollowed(r, p)'
    <3>1. SameWaits(p) /\ (Listed(r)' <=> Listed(r))
      BY <2>1 DEF SameWaits, Waiting, Once, PutOutAfter, Listed
    <3>2. r # q
      BY <1>7, <2>4, SinksAssumption
    <3>3. plays'[r] = plays[r]
      BY <1>5, <3>2
    <3>4. QED
      BY <1>2, <1>4, <2>1, <2>4, <3>1, <3>3, LightStays
  <2>5. QED
    BY <1>2, <1>6, <2>2, <2>3, <2>4 DEF MceInv, Alone
<1>8. CASE wanted[q] # "no pattern"
  <2>1. /\ pattern' = [pattern EXCEPT ![q] = wanted[q]]
        /\ active' = Append(active, q)
        /\ toMce' = Append(toMce, <<"activate", wanted[q]>>)
    BY <1>8 DEF Mce!LightUp, Mce!NoPattern
  <2>2. PICK w \in Patterns : w = wanted[q]
    BY <1>3, <1>8
  <2>3. /\ active' \in Seq(Requests) /\ DOMAIN active' = DOMAIN active \cup {Len(active) + 1}
        /\ \A i \in DOMAIN active : active'[i] = active[i]
        /\ active'[Len(active) + 1] = q
    BY ONLY <1>10, <2>1, q \in Requests, AppendProperties
  <2>4. toMce' \in Seq(Calls)
    BY <1>1, <2>1, <2>2, Sent
  <2>5. pattern' \in [Requests -> Patterns \cup {"no pattern"}]
        /\ pattern'[q] = w /\ \A s \in Requests \ {q} : pattern'[s] = pattern[s]
    BY <1>3, <2>1, <2>2
  <2>6. MceShape'
    <3>1. \A r \in Requests : pattern'[r] \in {"no pattern", wanted[r]}
      BY <1>3, <2>2, <2>5
    <3>2. fromMce' \in Seq(Messages) /\ lit' \subseteq Patterns
      BY <1>1, <1>2, <1>3 DEF MceShape
    <3>3. QED
      BY <1>1, <1>2, <1>5, <2>3, <2>4, <2>5, <3>1, <3>2, ShapeStays
  <2>7. ListIsHeld'
    <3>1. ASSUME NEW i \in DOMAIN active', NEW e, e = active'[i]
          PROVE  Held(e)' /\ pattern'[e] \in Patterns
      <4>1. CASE i = Len(active) + 1
        BY <2>3, <2>5, <3>1, <4>1
      <4>2. CASE i # Len(active) + 1
        <5>1. i \in DOMAIN active /\ active[i] = e /\ e \in Requests
          BY <1>10, <2>3, <3>1, <4>2
        <5>2. Held(e) /\ pattern[e] \in Patterns
          BY <1>1, <5>1 DEF ListIsHeld
        <5>3. QED
          BY <2>5, <5>1, <5>2
      <4>3. QED
        BY <4>1, <4>2
    <3>2. QED
      BY <3>1 DEF ListIsHeld, Held
  <2>8. ASSUME NEW r \in Requests, NEW p \in Patterns, wanted[r] = p, Alone(r), plays'[r] <= 1
        PROVE  LightIsFollowed(r, p)'
    <3>0. LightIsFollowed(r, p)
      BY <1>6, <2>8 DEF MceInv
    <3>1. CASE r # q
      <4>1. plays'[r] = plays[r] /\ w # p
        BY <1>5, <2>2, <2>8, <3>1 DEF Alone
      <4>3. SameWaits(p)
        BY <1>1, <2>1, <2>2, <4>1, SentForAnother
      <4>4. Listed(r) => Listed(r)'
        BY <2>3 DEF Listed
      <4>5. QED
        BY <1>2, <1>4, <2>5, <3>0, <3>1, <4>1, <4>3, <4>4, LightStays
    <3>2. CASE r = q
      <4>1. plays[r] = 0 /\ plays'[r] = 1 /\ p = w
        <5>1. plays[q] \in Nat /\ plays'[q] = plays[q] + 1
          BY <1>5, <1>11
        <5>2. plays'[q] <= 1
          BY <2>8, <3>2
        <5>3. plays[q] = 0 /\ plays'[q] = 1
          BY ONLY <5>1, <5>2
        <5>4. QED
          BY <2>2, <2>8, <3>2, <5>3
      <4>2. phase[r] # "gone" /\ phase'[r] # "gone"
        BY <3>2 DEF Held
      <4>3. Dark(p) /\ ~EndIsTold(p) /\ Waiting("deactivate", p) = {}
        BY <3>0, <4>1, <4>2 DEF LightIsFollowed
      <4>4. \A c : \A i : i \in Waiting(c, p)' <=>
              i \in Waiting(c, p) \/ (i = Len(toMce) + 1 /\ c = "activate" /\ p = w)
        BY <1>1, <2>1, <2>2, Sent
      <4>5. Waiting("deactivate", p)' = {} /\ Once(p)'
        BY <4>3, <4>4 DEF Once, Dark
      <4>6. Listed(r)'
        <5>1. Len(active) + 1 \in DOMAIN active'
          BY <2>3
        <5>2. QED
          BY <2>3, <3>2, <5>1 DEF Listed
      <4>7. p \notin lit' /\ ~EndIsTold(p)' /\ pattern'[r] = p
        BY <1>2, <1>4, <2>5, <3>2, <4>1, <4>3 DEF Dark
      <4>8. QED
        BY <4>1, <4>2, <4>5, <4>6, <4>7 DEF LightIsFollowed
    <3>3. QED
      BY <3>1, <3>2
  <2>9. QED
    BY <1>2, <2>6, <2>7, <2>8 DEF MceInv, Alone
<1>9. QED
  BY <1>7, <1>8

\* The stop: what is removed is removed with all its places, and the pattern is
\* put out while the list still names it.
LEMMA StopKeeps ==
  ASSUME MceInv, NEW q \in Requests, Mce!Stop(q)
  PROVE  MceInv'
<1>1. MceShape /\ ListIsHeld
  BY DEF MceInv
<1>2. /\ phase[q] = "ending" /\ phase' = [phase EXCEPT ![q] = "gone"]
      /\ UNCHANGED <<wanted, fromMce, lit, plays>>
      /\ active' = Mce!Without(q)
      /\ pattern' = [pattern EXCEPT ![q] = "no pattern"]
  BY DEF Mce!Stop, Mce!Stops, Mce!NoPattern
<1>3. /\ wanted \in [Requests -> Patterns \cup {"no pattern"}]
      /\ pattern \in [Requests -> Patterns \cup {"no pattern"}]
      /\ \A r \in Requests : pattern[r] \in {"no pattern", wanted[r]}
      /\ lit \subseteq Patterns
  BY <1>1, MceTypes
<1>4. active \in Seq(Requests) /\ \A i \in DOMAIN active : active[i] \in Requests
  BY <1>1, MceTypes
<1>5. /\ active' \in Seq(Requests)
      /\ \A i \in DOMAIN active' :
           active'[i] # q /\ \E j \in DOMAIN active : active'[i] = active[j]
      /\ \A j \in DOMAIN active : active[j] # q => \E i \in DOMAIN active' : active'[i] = active[j]
  <2>1. active \in Seq(Requests)
    BY <1>4
  <2>2. /\ Mce!Without(q) \in Seq(Requests)
        /\ \A i \in DOMAIN Mce!Without(q) :
             Mce!Without(q)[i] # q /\ \E j \in DOMAIN active : Mce!Without(q)[i] = active[j]
        /\ \A j \in DOMAIN active : active[j] # q =>
             \E i \in DOMAIN Mce!Without(q) : Mce!Without(q)[i] = active[j]
    BY ONLY <2>1, WithoutFacts
  <2>3. active' = Mce!Without(q)
    BY <1>2
  <2>4. QED
    BY ONLY <2>2, <2>3
<1>6. phase' \in [Requests -> Phases] /\ phase'[q] = "gone"
      /\ \A r \in Requests \ {q} : phase'[r] = phase[r]
  BY <1>1, <1>2 DEF MceShape, Phases
<1>7. pattern' \in [Requests -> Patterns \cup {"no pattern"}] /\ pattern'[q] = "no pattern"
      /\ \A r \in Requests \ {q} : pattern'[r] = pattern[r]
  BY <1>2, <1>3
<1>9. \/ /\ toMce' = toMce
         /\ pattern[q] = "no pattern" \/ ~ \E i \in DOMAIN active : pattern[active[i]] = pattern[q]
      \/ pattern[q] # "no pattern" /\ toMce' = Append(toMce, <<"deactivate", pattern[q]>>)
  BY DEF Mce!Stop, Mce!Places, Mce!NoPattern
<1>10. toMce' \in Seq(Calls)
  <2>1. CASE toMce' = toMce
    BY <1>1, <2>1 DEF MceShape
  <2>2. CASE pattern[q] # "no pattern" /\ toMce' = Append(toMce, <<"deactivate", pattern[q]>>)
    <3>1. PICK w \in Patterns : w = pattern[q]
      BY <1>3, <2>2
    <3>2. QED
      BY <1>1, <2>2, <3>1, Sent
  <2>3. QED
    BY <1>9, <2>1, <2>2
<1>11. MceShape'
  <2>1. \A r \in Requests : pattern'[r] \in {"no pattern", wanted[r]}
    BY <1>3, <1>7
  <2>2. plays' \in [Requests -> Nat] /\ fromMce' \in Seq(Messages)
    BY <1>1, <1>2 DEF MceShape
  <2>3. QED
    BY <1>1, <1>2, <1>3, <1>5, <1>6, <1>7, <1>10, <2>1, <2>2, ShapeStays
<1>12. ListIsHeld'
  <2>1. ASSUME NEW i \in DOMAIN active', NEW e, e = active'[i]
        PROVE  Held(e)' /\ pattern'[e] \in Patterns
    <3>1. PICK j \in DOMAIN active : active[j] = e /\ e # q
      BY <1>5, <2>1
    <3>2. e \in Requests /\ Held(e) /\ pattern[e] \in Patterns
      BY <1>1, <1>4, <3>1 DEF ListIsHeld
    <3>3. QED
      BY <1>6, <1>7, <3>1, <3>2 DEF Held
  <2>2. QED
    BY <2>1 DEF ListIsHeld, Held
<1>13. ASSUME NEW r \in Requests, NEW p \in Patterns, wanted[r] = p, Alone(r), plays[r] <= 1
       PROVE  LightIsFollowed(r, p)'
  <2>1. LightIsFollowed(r, p)
    BY <1>13 DEF MceInv
  <2>2. EndIsTold(p)' <=> EndIsTold(p)
    BY <1>2 DEF EndIsTold
  <2>3. CASE r # q
    <3>1. pattern[q] # p
      <4>1. wanted[q] # p
        BY <1>13, <2>3 DEF Alone
      <4>2. pattern[q] \in {"no pattern", wanted[q]}
        BY <1>3
      <4>3. QED
        BY <1>13, <4>1, <4>2, SinksAssumption
    <3>2. SameWaits(p)
      <4>1. CASE toMce' = toMce
        BY <4>1 DEF SameWaits, Waiting, Once, PutOutAfter
      <4>2. CASE pattern[q] # "no pattern" /\ toMce' = Append(toMce, <<"deactivate", pattern[q]>>)
        <5>1. PICK w \in Patterns : w = pattern[q]
          BY <1>3, <4>2
        <5>2. QED
          BY <1>1, <3>1, <4>2, <5>1, SentForAnother
      <4>3. QED
        BY <1>9, <4>1, <4>2
    <3>3. Listed(r) => Listed(r)'
      BY <1>5, <2>3 DEF Listed
    <3>4. QED
      BY <1>2, <1>6, <1>7, <2>1, <2>2, <2>3, <3>2, <3>3, LightStays
  <2>4. CASE r = q
    <3>1. phase[r] # "gone" /\ phase'[r] = "gone" /\ plays'[r] = plays[r] /\ lit' = lit
      BY <1>2, <1>6, <2>4
    <3>2. ASSUME toMce' = Append(toMce, <<"deactivate", p>>)
          PROVE  /\ Waiting("activate", p)' = Waiting("activate", p)
                 /\ Waiting("deactivate", p)' # {} /\ PutOutAfter(p)'
      <4>1. \A c : \A i : i \in Waiting(c, p)' <=>
              i \in Waiting(c, p) \/ (i = Len(toMce) + 1 /\ c = "deactivate")
        BY <1>1, <3>2, Sent
      <4>2. \A i \in Waiting("activate", p) : i < Len(toMce) + 1
        <5>1. toMce \in Seq(Calls)
          BY <1>1 DEF MceShape
        <5>2. QED
          BY <5>1 DEF Waiting
      <4>3. \A i : i \in Waiting("activate", p)' <=> i \in Waiting("activate", p)
        BY <4>1
      <4>4. Len(toMce) + 1 \in Waiting("deactivate", p)'
        BY <4>1
      <4>5. PutOutAfter(p)'
        BY <4>2, <4>3, <4>4 DEF PutOutAfter
      <4>6. QED
        BY <4>3, <4>4, <4>5
    <3>3. ASSUME Dark(p)
          PROVE  p \notin lit' /\ Waiting("activate", p)' = {} /\ PutOutAfter(p)'
      <4>1. p \notin lit /\ Waiting("activate", p) = {}
        BY <3>3 DEF Dark
      <4>2. CASE toMce' = toMce
        BY <3>1, <4>1, <4>2 DEF Waiting, PutOutAfter
      <4>3. CASE pattern[q] # "no pattern" /\ toMce' = Append(toMce, <<"deactivate", pattern[q]>>)
        <5>1. pattern[q] = p
          BY <1>3, <1>13, <2>4, <4>3
        <5>2. QED
          BY <3>1, <3>2, <4>1, <4>3, <5>1
      <4>4. QED
        BY <1>9, <4>2, <4>3
    <3>4. plays[r] = 0 => Dark(p)' /\ ~EndIsTold(p)'
      BY <2>1, <2>2, <3>3 DEF LightIsFollowed, Dark
    <3>5. (p \in lit' => Waiting("deactivate", p)' # {}) /\ PutOutAfter(p)'
      <4>1. CASE Dark(p)
        BY <3>3, <4>1
      <4>2. CASE ~Dark(p)
        <5>1. plays[r] = 1 /\ pattern[r] = p /\ Listed(r)
          <6>1. plays[r] \in Nat /\ plays[r] # 0
            BY <1>1, <2>1, <4>2, MceTypes DEF LightIsFollowed
          <6>2. plays[r] = 1
            BY ONLY <6>1, <1>13
          <6>3. QED
            BY <2>1, <3>1, <4>2, <6>2 DEF LightIsFollowed
        <5>2. pattern[q] # "no pattern"
          BY <1>13, <2>4, <5>1, SinksAssumption
        <5>3. \E i \in DOMAIN active : pattern[active[i]] = pattern[q]
          BY <2>4, <5>1 DEF Listed
        <5>4. toMce' = Append(toMce, <<"deactivate", p>>)
          BY <1>9, <2>4, <5>1, <5>2, <5>3
        <5>5. QED
          BY <3>2, <5>4
      <4>3. QED
        BY <4>1, <4>2
    <3>6. QED
      BY <3>1, <3>4, <3>5 DEF LightIsFollowed
  <2>5. QED
    BY <2>3, <2>4
<1>14. QED
  BY <1>2, <1>11, <1>12, <1>13 DEF MceInv, Alone

\* The signal that the pattern has ended: what it removes from the list is dark.
LEMMA HearKeeps ==
  ASSUME MceInv, Mce!Hear
  PROVE  MceInv'
<1>1. MceShape /\ ListIsHeld
  BY DEF MceInv
<1>2. /\ fromMce # <<>> /\ fromMce' = Tail(fromMce)
      /\ UNCHANGED <<wanted, pattern, toMce, lit, plays>>
  BY DEF Mce!Hear
<1>3. /\ pattern \in [Requests -> Patterns \cup {"no pattern"}]
      /\ \A r \in Requests : pattern[r] \in {"no pattern", wanted[r]}
      /\ lit \subseteq Patterns /\ plays \in [Requests -> Nat]
  BY <1>1, MceTypes
<1>4. active \in Seq(Requests) /\ \A i \in DOMAIN active : active[i] \in Requests
  BY <1>1, MceTypes
<1>5. /\ fromMce' \in Seq(Messages) /\ Head(fromMce) = fromMce[1] /\ 1 \in DOMAIN fromMce
      /\ \E k \in {"ack", "deactivated"}, w \in Patterns : fromMce[1] = <<k, w>>
      /\ \A i \in DOMAIN fromMce' : i + 1 \in DOMAIN fromMce /\ fromMce'[i] = fromMce[i + 1]
  <2>1. fromMce \in Seq(Messages)
    BY <1>1 DEF MceShape
  <2>2. /\ fromMce' \in Seq(Messages) /\ Head(fromMce) = fromMce[1] /\ 1 \in DOMAIN fromMce
        /\ fromMce[1] \in Messages
        /\ \A i \in DOMAIN fromMce' : i + 1 \in DOMAIN fromMce /\ fromMce'[i] = fromMce[i + 1]
    BY ONLY <2>1, <1>2, ElementOfSeq
  <2>3. QED
    BY <2>2 DEF Messages
<1>6. \A p : EndIsTold(p)' => EndIsTold(p)
  BY <1>5 DEF EndIsTold
<1>7. PICK k \in {"ack", "deactivated"}, w \in Patterns : Head(fromMce) = <<k, w>>
  BY <1>5
<1>8. \/ active' = active /\ phase' = phase
      \/ /\ k = "deactivated"
         /\ \E e \in Requests : pattern[e] = w /\ active' = Mce!Without(e) /\ Mce!Completes(e)
  <2>1. CASE k = "ack"
    BY <1>7, <2>1 DEF Mce!Hear, Mce!Acknowledged, Mce!contractVars
  <2>2. CASE k # "ack"
    <3> DEFINE I == {i \in Mce!Places(w) : active[i] \in playing}
    <3>1. CASE I = {}
      BY <1>7, <2>2, <3>1 DEF Mce!Hear, Mce!Ended, Mce!contractVars
    <3>2. CASE I # {}
      <4>1. I \subseteq Nat
        BY <1>4 DEF Mce!Places
      <4>2. Mce!Min(I) \in I
        <5> HIDE DEF I
        <5>1. \E x \in I : \A y \in I : x <= y
          BY <3>2, <4>1, LeastExists
        <5>2. QED
          BY <5>1, Zenon DEF Mce!Min
      <4>3. active' = Mce!Without(active[Mce!Min(I)]) /\ Mce!Completes(active[Mce!Min(I)])
        <5>1. Mce!Ended(w)
          BY <1>7, <2>2 DEF Mce!Hear
        <5>2. QED
          BY <3>2, <5>1, Zenon DEF Mce!Ended
      <4>4. active[Mce!Min(I)] \in Requests /\ pattern[active[Mce!Min(I)]] = w
        BY <1>4, <4>2 DEF Mce!Places
      <4>5. k = "deactivated"
        BY <2>2
      <4> HIDE DEF I
      <4>6. QED
        BY <4>3, <4>4, <4>5
    <3>3. QED
      BY <3>1, <3>2
  <2>3. QED
    BY <2>1, <2>2
<1>9. /\ phase' \in [Requests -> Phases]
      /\ \A r \in Requests : (Held(r) => Held(r)') /\ (phase'[r] = "gone" <=> phase[r] = "gone")
  BY <1>1, <1>8 DEF Mce!Completes, MceShape, Phases, Held
<1>10. /\ active' \in Seq(Requests)
       /\ \A i \in DOMAIN active' : \E j \in DOMAIN active : active'[i] = active[j]
  <2>1. CASE active' = active
    BY <1>4, <2>1
  <2>2. CASE \E e \in Requests : active' = Mce!Without(e)
    BY <1>4, <2>2, WithoutFacts
  <2>3. QED
    BY <1>8, <2>1, <2>2
<1>11. MceShape'
  <2>1. toMce' \in Seq(Calls)
    BY <1>1, <1>2 DEF MceShape
  <2>2. QED
    BY <1>1, <1>2, <1>3, <1>5, <1>9, <1>10, <2>1, ShapeStays
<1>12. ListIsHeld'
  <2>1. ASSUME NEW i \in DOMAIN active', NEW e, e = active'[i]
        PROVE  Held(e)' /\ pattern'[e] \in Patterns
    <3>1. PICK j \in DOMAIN active : active[j] = e
      BY <1>10, <2>1
    <3>2. e \in Requests /\ Held(e) /\ pattern[e] \in Patterns
      BY <1>1, <1>4, <3>1 DEF ListIsHeld
    <3>3. QED
      BY <1>2, <1>9, <3>2
  <2>2. QED
    BY <2>1 DEF ListIsHeld, Held
<1>13. ASSUME NEW r \in Requests, NEW p \in Patterns, wanted[r] = p, Alone(r), plays[r] <= 1
       PROVE  LightIsFollowed(r, p)'
  <2>1. LightIsFollowed(r, p)
    BY <1>13 DEF MceInv
  <2>2. SameWaits(p)
    BY <1>2 DEF SameWaits, Waiting, Once, PutOutAfter
  <2>3. ASSUME Listed(r), ~Listed(r)'
        PROVE  phase[r] = "gone" \/ Dark(p)
    <3>1. PICK e \in Requests : k = "deactivated" /\ pattern[e] = w /\ active' = Mce!Without(e)
      BY <1>8, <2>3 DEF Listed
    <3>2. e = r
      BY <1>4, <2>3, <3>1, WithoutFacts DEF Listed
    <3>3. w = p
      BY <1>3, <1>13, <3>1, <3>2, SinksAssumption
    <3>4. EndIsTold(p)
      BY <1>5, <1>7, <3>1, <3>3 DEF EndIsTold
    <3>5. QED
      BY <2>1, <3>4 DEF LightIsFollowed
  <2>4. QED
    BY <1>2, <1>6, <1>9, <2>1, <2>2, <2>3, LightStays
<1>14. QED
  BY <1>2, <1>11, <1>12, <1>13 DEF MceInv, Alone

\* A call that is taken leaves the others in their order.
LEMMA TakenKeepsOrder ==
  ASSUME MceShape, NEW p, toMce # <<>>, toMce' = Tail(toMce), PutOutAfter(p)
  PROVE  PutOutAfter(p)' /\ (1 \in Waiting("activate", p) => Waiting("deactivate", p)' # {})
<1>1. \A c : \A i \in Waiting(c, p) : i \in Nat /\ i # 0
  <2>1. toMce \in Seq(Calls)
    BY DEF MceShape
  <2>2. QED
    BY <2>1 DEF Waiting
<1>2. ASSUME NEW i \in Waiting("activate", p)
      PROVE  \E j \in Waiting("deactivate", p)' : i < j + 1 /\ j \in Nat
  <2>1. PICK j \in Waiting("deactivate", p) : i < j
    BY <1>2 DEF PutOutAfter
  <2>2. i \in Nat /\ j \in Nat /\ i # 0
    BY <1>1
  <2>3. j # 1 /\ j - 1 \in Nat /\ i < (j - 1) + 1
    BY <2>1, <2>2
  <2>4. j - 1 \in Waiting("deactivate", p)'
    BY <2>3, Taken
  <2>5. QED
    BY <2>3, <2>4
<1>3. ASSUME NEW i \in Waiting("activate", p)'
      PROVE  \E j \in Waiting("deactivate", p)' : i < j
  <2>1. i \in Nat /\ i + 1 \in Waiting("activate", p)
    BY Taken
  <2>2. PICK j \in Waiting("deactivate", p)' : i + 1 < j + 1 /\ j \in Nat
    BY <1>2, <2>1
  <2>3. i < j
    BY <2>1, <2>2
  <2>4. QED
    BY <2>3
<1>4. QED
  BY <1>2, <1>3 DEF PutOutAfter

\* The steps of mce change neither the requests nor the list.
LEMMA LedStepKeeps ==
  ASSUME MceInv, UNCHANGED <<phase, wanted, pattern, active, plays>>,
         toMce' \in Seq(Calls), fromMce' \in Seq(Messages), lit' \subseteq Patterns,
         \A r \in Requests, p \in Patterns :
           wanted[r] = p /\ plays[r] <= 1 /\ LightIsFollowed(r, p) => LightIsFollowed(r, p)'
  PROVE  MceInv'
<1>1. MceShape /\ ListIsHeld
  BY DEF MceInv
<1>2. active \in Seq(Requests) /\ \A i \in DOMAIN active : active[i] \in Requests
  BY <1>1, MceTypes
<1>3. /\ phase \in [Requests -> Phases] /\ plays \in [Requests -> Nat]
      /\ pattern \in [Requests -> Patterns \cup {"no pattern"}]
      /\ \A r \in Requests : pattern[r] \in {"no pattern", wanted[r]}
  BY <1>1 DEF MceShape
<1>4. MceShape'
  BY <1>1, <1>2, <1>3, ShapeStays
<1>5. ListIsHeld'
  BY <1>1, <1>2 DEF ListIsHeld, Held
<1>6. QED
  BY <1>4, <1>5 DEF MceInv, Alone

\* A message that is added.
LEMMA Told ==
  ASSUME MceShape, NEW k \in {"ack", "deactivated"}, NEW w \in Patterns,
         fromMce' = Append(fromMce, <<k, w>>)
  PROVE  /\ fromMce' \in Seq(Messages)
         /\ \A p : EndIsTold(p)' <=> EndIsTold(p) \/ (k = "deactivated" /\ w = p)
<1>1. fromMce \in Seq(Messages) /\ <<k, w>> \in Messages
  BY DEF MceShape, Messages
<1>2. /\ fromMce' \in Seq(Messages) /\ DOMAIN fromMce' = DOMAIN fromMce \cup {Len(fromMce) + 1}
      /\ \A i \in DOMAIN fromMce : fromMce'[i] = fromMce[i]
      /\ fromMce'[Len(fromMce) + 1] = <<k, w>>
  BY ONLY <1>1, AppendProperties, fromMce' = Append(fromMce, <<k, w>>)
<1>3. ASSUME NEW p
      PROVE  EndIsTold(p)' <=> EndIsTold(p) \/ (k = "deactivated" /\ w = p)
  <2>1. <<k, w>> = <<"deactivated", p>> <=> k = "deactivated" /\ w = p
    OBVIOUS
  <2> DEFINE m == <<"deactivated", p>>
  <2>2. (\E i \in DOMAIN fromMce' : fromMce'[i] = m) <=>
          (\E i \in DOMAIN fromMce : fromMce[i] = m) \/ <<k, w>> = m
    <3> HIDE DEF m
    <3>1. QED
      BY ONLY <1>2
  <2>3. QED
    BY <2>1, <2>2 DEF EndIsTold
<1>4. QED
  BY <1>2, <1>3

LEMMA LightsKeeps ==
  ASSUME MceInv, Mce!Lights
  PROVE  MceInv'
<1>1. MceShape
  BY DEF MceInv
<1>2. /\ toMce # <<>> /\ toMce' = Tail(toMce) /\ Head(toMce)[1] = "activate"
      /\ lit' \in {lit, lit \cup {Head(toMce)[2]}}
      /\ fromMce' = Append(fromMce, <<"ack", Head(toMce)[2]>>)
      /\ UNCHANGED <<phase, wanted, pattern, active, plays>>
  BY DEF Mce!Lights, Mce!contractVars
<1>3. PICK w \in Patterns : w = Head(toMce)[2] /\ Head(toMce) = <<"activate", w>>
  <2>1. toMce \in Seq({"activate", "deactivate"} \X Patterns)
    BY <1>1 DEF MceShape, Calls
  <2>2. QED
    BY ONLY <1>2, <2>1, PairFacts
<1>4. lit \subseteq Patterns
  BY <1>1, MceTypes
<1>5. toMce' \in Seq(Calls)
  BY <1>1, <1>2, Taken
<1>6. fromMce' \in Seq(Messages) /\ \A p : EndIsTold(p)' <=> EndIsTold(p)
  BY <1>1, <1>2, <1>3, Told
<1>7. ASSUME NEW r \in Requests, NEW p \in Patterns, LightIsFollowed(r, p)
      PROVE  LightIsFollowed(r, p)'
  <2>1. CASE w # p
    <3>1. SameWaits(p)
      BY <1>1, <1>2, <1>3, <2>1, TakenForAnother
    <3>2. p \in lit' <=> p \in lit
      BY <1>2, <1>3, <2>1
    <3>3. Listed(r) => Listed(r)'
      BY <1>2 DEF Listed
    <3>4. QED
      BY <1>2, <1>6, <1>7, <3>1, <3>2, <3>3, LightStays
  <2>2. CASE w = p
    <3>1. 1 \in Waiting("activate", p) /\ ~Dark(p) /\ plays[r] # 0
      <4>1. 1 \in Waiting("activate", p)
        BY <1>1, <1>2, <1>3, <2>2, Taken
      <4>2. QED
        BY <1>7, <4>1 DEF Dark, LightIsFollowed
    <3>2. CASE phase[r] # "gone"
      <4>1. \A i \in Waiting("activate", p) : i = 1
        BY <1>7, <3>1, <3>2 DEF LightIsFollowed, Once
      <4>2. \A c : \A i \in Waiting(c, p)' : i \in Nat /\ i # 0 /\ i + 1 \in Waiting(c, p)
        BY <1>1, <1>2, Taken
      <4>3. (Waiting("deactivate", p) = {} /\ pattern[r] = p) \/ plays[r] # 1
        BY <1>7, <3>2 DEF LightIsFollowed
      <4>4. Waiting("deactivate", p)' = {}
        BY <1>7, <3>2, <4>2 DEF LightIsFollowed
      <4>5. Waiting("activate", p)' = {}
        <5>1. ASSUME NEW i \in Waiting("activate", p)'
              PROVE  FALSE
          <6>1. i \in Nat /\ i # 0 /\ i + 1 = 1
            BY <4>1, <4>2
          <6>2. QED
            BY <6>1
        <5>2. QED
          BY <5>1
      <4>6. ~EndIsTold(p)'
        BY <1>6, <1>7, <3>1, <3>2 DEF LightIsFollowed
      <4>7. plays[r] = 1 => pattern[r] = p /\ Listed(r)'
        BY <1>2, <1>7, <3>1, <3>2 DEF LightIsFollowed, Listed
      <4>8. QED
        BY <1>2, <3>1, <3>2, <4>4, <4>5, <4>6, <4>7 DEF LightIsFollowed, Once
    <3>3. CASE phase[r] = "gone"
      <4>1. PutOutAfter(p)' /\ Waiting("deactivate", p)' # {}
        BY <1>1, <1>2, <1>7, <3>1, <3>3, TakenKeepsOrder DEF LightIsFollowed
      <4>2. QED
        BY <1>2, <3>1, <3>3, <4>1 DEF LightIsFollowed
    <3>4. QED
      BY <3>2, <3>3
  <2>3. QED
    BY <2>1, <2>2
<1>8. lit' \subseteq Patterns
  BY <1>2, <1>3, <1>4
<1>9. QED
  BY <1>2, <1>5, <1>6, <1>7, <1>8, LedStepKeeps

\* Pattern p goes dark: what is said of another pattern stays,
LEMMA PutOutStays ==
  ASSUME MceShape, NEW w \in Patterns, NEW r \in Requests, NEW p, LightIsFollowed(r, p), p # w,
         Mce!PutOut(w), SameWaits(p)
  PROVE  LightIsFollowed(r, p)'
<1>1. /\ lit' = lit \ {w} /\ UNCHANGED <<phase, wanted, pattern, active, plays>>
      /\ fromMce' = fromMce \/ fromMce' = Append(fromMce, <<"deactivated", w>>)
  BY DEF Mce!PutOut, Mce!contractVars
<1>2. EndIsTold(p)' <=> EndIsTold(p)
  <2>1. CASE fromMce' = fromMce
    BY <2>1 DEF EndIsTold
  <2>2. CASE fromMce' = Append(fromMce, <<"deactivated", w>>)
    BY <2>2, Told
  <2>3. QED
    BY <1>1, <2>1, <2>2
<1>3. Listed(r) => Listed(r)'
  BY <1>1 DEF Listed
<1>4. QED
  BY <1>1, <1>2, <1>3, LightStays

\* and it is told if it was lit.
LEMMA PutOutTypes ==
  ASSUME MceShape, NEW w \in Patterns, Mce!PutOut(w)
  PROVE  /\ UNCHANGED <<phase, wanted, pattern, active, plays>>
         /\ lit' \subseteq Patterns /\ lit' = lit \ {w}
         /\ fromMce' \in Seq(Messages)
         /\ w \notin lit => fromMce' = fromMce
<1>1. lit \subseteq Patterns /\ fromMce \in Seq(Messages)
  BY DEF MceShape
<1>2. fromMce' = Append(fromMce, <<"deactivated", w>>) => fromMce' \in Seq(Messages)
  BY Told
<1>3. QED
  BY <1>1, <1>2 DEF Mce!PutOut, Mce!contractVars

LEMMA PutsOutKeeps ==
  ASSUME MceInv, Mce!PutsOut
  PROVE  MceInv'
<1>1. MceShape
  BY DEF MceInv
<1>2. /\ toMce # <<>> /\ toMce' = Tail(toMce) /\ Head(toMce)[1] = "deactivate"
      /\ Mce!PutOut(Head(toMce)[2])
  BY DEF Mce!PutsOut
<1>3. PICK w \in Patterns : w = Head(toMce)[2] /\ Head(toMce) = <<"deactivate", w>>
  <2>1. toMce \in Seq({"activate", "deactivate"} \X Patterns)
    BY <1>1 DEF MceShape, Calls
  <2>2. QED
    BY ONLY <1>2, <2>1, PairFacts
<1>4. Mce!PutOut(w)
  BY <1>2, <1>3
<1>5. /\ UNCHANGED <<phase, wanted, pattern, active, plays>>
      /\ lit' \subseteq Patterns /\ lit' = lit \ {w} /\ fromMce' \in Seq(Messages)
      /\ w \notin lit => fromMce' = fromMce
  BY <1>1, <1>4, PutOutTypes
<1>6. toMce' \in Seq(Calls)
  BY <1>1, <1>2, Taken
<1>7. ASSUME NEW r \in Requests, NEW p \in Patterns, LightIsFollowed(r, p)
      PROVE  LightIsFollowed(r, p)'
  <2>1. CASE w # p
    <3>1. SameWaits(p)
      BY <1>1, <1>2, <1>3, <2>1, TakenForAnother
    <3>2. QED
      BY <1>1, <1>4, <1>7, <2>1, <3>1, PutOutStays
  <2>2. CASE w = p
    <3>1. Waiting("deactivate", p) # {} /\ phase[r] = "gone"
      <4>1. 1 \in Waiting("deactivate", p)
        BY <1>1, <1>2, <1>3, <2>2, Taken
      <4>2. QED
        BY <1>7, <4>1 DEF LightIsFollowed
    <3>2. PutOutAfter(p)' /\ p \notin lit'
      BY <1>1, <1>2, <1>5, <1>7, <2>2, <3>1, TakenKeepsOrder DEF LightIsFollowed
    <3>3. plays[r] = 0 => Dark(p)' /\ ~EndIsTold(p)'
      <4>1. Waiting("activate", p) = {} => Waiting("activate", p)' = {}
        BY <1>1, <1>2, Taken
      <4>2. QED
        BY <1>5, <1>7, <2>2, <3>2, <4>1 DEF LightIsFollowed, Dark, EndIsTold
    <3>4. QED
      BY <1>5, <3>1, <3>2, <3>3 DEF LightIsFollowed
  <2>3. QED
    BY <2>1, <2>2
<1>8. QED
  BY <1>5, <1>6, <1>7, LedStepKeeps

LEMMA LightEndsKeeps ==
  ASSUME MceInv, Mce!LightEnds
  PROVE  MceInv'
<1>1. MceShape
  BY DEF MceInv
<1>2. PICK w \in lit : Mce!PutOut(w) /\ toMce' = toMce
  BY DEF Mce!LightEnds
<1>3. w \in Patterns /\ toMce' \in Seq(Calls)
  BY <1>1, <1>2 DEF MceShape
<1>4. /\ UNCHANGED <<phase, wanted, pattern, active, plays>>
      /\ lit' \subseteq Patterns /\ lit' = lit \ {w} /\ fromMce' \in Seq(Messages)
  BY <1>1, <1>2, <1>3, PutOutTypes
<1>5. ASSUME NEW p
      PROVE  /\ \A c : Waiting(c, p)' = Waiting(c, p)
             /\ SameWaits(p) /\ (PutOutAfter(p)' <=> PutOutAfter(p)) /\ (Once(p)' <=> Once(p))
  BY <1>2 DEF Waiting, SameWaits, Once, PutOutAfter
<1>6. ASSUME NEW r \in Requests, NEW p \in Patterns, LightIsFollowed(r, p)
      PROVE  LightIsFollowed(r, p)'
  <2>1. CASE w # p
    BY <1>1, <1>2, <1>3, <1>5, <1>6, <2>1, PutOutStays
  <2>2. CASE w = p
    <3>1. plays[r] # 0 /\ p \notin lit'
      BY <1>2, <1>4, <1>6, <2>2 DEF LightIsFollowed, Dark
    <3>2. phase[r] # "gone" => Dark(p)'
      BY <1>2, <1>5, <1>6, <2>2, <3>1 DEF LightIsFollowed, Dark
    <3>3. QED
      BY <1>4, <1>5, <1>6, <3>1, <3>2 DEF LightIsFollowed
  <2>3. QED
    BY <2>1, <2>2
<1>7. QED
  BY <1>3, <1>4, <1>6, LedStepKeeps

LEMMA MceStepKeepsInv ==
  ASSUME MceInv, Mce!MceNext
  PROVE  MceInv'
<1>1. phase \in [Requests -> Phases]
  BY DEF MceInv, MceShape
<1>2. ASSUME Mce!EndAttempts
      PROVE  MceInv'
  <2>1. PICK R \in SUBSET Requests : Mce!Ends(R)
    BY <1>2 DEF Mce!EndAttempts
  <2>2. UNCHANGED <<wanted, pattern, playing, active, toMce, fromMce, lit, plays>>
    BY <1>2 DEF Mce!EndAttempts, Mce!ledVars
  <2>3. /\ phase' \in [Requests -> Phases]
        /\ \A q \in Requests : (Held(q) => Held(q)') /\ (phase'[q] = "gone" <=> phase[q] = "gone")
    BY <1>1, <2>1 DEF Mce!Ends, Mce!Held, Held, Phases
  <2>4. QED
    BY <2>2, <2>3, QuietCallKeeps
<1>3. ASSUME NEW r \in Requests, Mce!Prepare(r)
      PROVE  MceInv'
  <2>1. UNCHANGED <<wanted, pattern, playing, active, toMce, fromMce, lit, plays>>
    BY <1>3 DEF Mce!Prepare, Mce!ledVars
  <2>2. /\ phase' \in [Requests -> Phases]
        /\ \A q \in Requests : (Held(q) => Held(q)') /\ (phase'[q] = "gone" <=> phase[q] = "gone")
    BY <1>1, <1>3 DEF Mce!Prepare, Mce!PreparesPrompt, Held, Phases
  <2>3. QED
    BY <2>1, <2>2, QuietCallKeeps
<1>4. ASSUME NEW r \in Requests, Mce!Start(r)
      PROVE  MceInv'
  <2>1. /\ phase' \in [Requests -> Phases] /\ Held(r) /\ Held(r)'
        /\ \A q \in Requests : (Held(q) => Held(q)') /\ (phase'[q] = "gone" <=> phase[q] = "gone")
    BY <1>1, <1>4 DEF Mce!Start, Mce!Plays, Held, Phases
  <2>2. Mce!LightUp(r)
    BY <1>4 DEF Mce!Start
  <2>3. QED
    BY <2>1, <2>2, LightUpKeeps
<1>5. ASSUME NEW r \in Requests, Mce!Pause(r)
      PROVE  MceInv'
  <2>1. UNCHANGED <<wanted, pattern, playing, active, toMce, fromMce, lit, plays>> /\ phase' = phase
    BY <1>5 DEF Mce!Pause, Mce!Pauses, Mce!ledVars
  <2>2. \A q \in Requests : (Held(q) => Held(q)') /\ (phase'[q] = "gone" <=> phase[q] = "gone")
    BY <2>1 DEF Held
  <2>3. QED
    BY <1>1, <2>1, <2>2, QuietCallKeeps
<1>6. ASSUME NEW r \in Requests, Mce!Resume(r)
      PROVE  MceInv'
  <2>1. Held(r) /\ phase' = phase /\ Mce!LightUp(r)
    BY <1>6 DEF Mce!Resume, Mce!Resumes, Mce!Held, Held
  <2>2. \A q \in Requests : (Held(q) => Held(q)') /\ (phase'[q] = "gone" <=> phase[q] = "gone")
    BY <2>1 DEF Held
  <2>3. QED
    BY <1>1, <2>1, <2>2, LightUpKeeps
<1>7. QED
  BY <1>2, <1>3, <1>4, <1>5, <1>6, HearKeeps, LightsKeeps, PutsOutKeeps, LightEndsKeeps, StopKeeps
     DEF Mce!MceNext

\* The two properties of the LED sink.
LEMMA MceIsSafe ==
  ASSUME MceInv
  PROVE  Mce!ListedAreHeld /\ Mce!LightGoesOut
<1>1. MceShape /\ ListIsHeld
  BY DEF MceInv
<1>2. Mce!ListedAreHeld
  BY <1>1 DEF ListIsHeld, Mce!ListedAreHeld, Mce!Held, Held
<1>3. Mce!LightGoesOut
  <2>1. SUFFICES ASSUME NEW r \in Requests, phase[r] = "gone", plays[r] <= 1, toMce = <<>>,
                        \A q \in Requests \ {r} : wanted[q] # wanted[r]
                 PROVE  wanted[r] \notin lit
    BY DEF Mce!LightGoesOut
  <2>2. lit \subseteq Patterns
    BY <1>1, MceTypes
  <2>3. CASE wanted[r] \notin Patterns
    BY <2>2, <2>3
  <2>4. CASE wanted[r] \in Patterns
    <3>1. PICK p \in Patterns : p = wanted[r]
      BY <2>4
    <3>2. LightIsFollowed(r, p)
      BY <2>1, <3>1 DEF MceInv, Alone
    <3>3. Waiting("deactivate", p) = {}
      <4>1. DOMAIN <<>> = {}
        OBVIOUS
      <4>2. QED
        BY <2>1, <4>1 DEF Waiting
    <3>4. QED
      BY <2>1, <3>1, <3>2, <3>3 DEF LightIsFollowed
  <2>5. QED
    BY <2>3, <2>4
<1>4. QED
  BY <1>2, <1>3

-----------------------------------------------------------------------------
(* All of them: one device is chosen, and a step is one of it.              *)

LEMMA SinksInvInit ==
  ASSUME Init
  PROVE  SinksInv
<1>1. ContractInit /\ device \in Devices
  BY DEF Init, Mce!MceInit, Vibe!VibeInit, Canberra!Init, Canberra!ContractInit, ContractInit
<1>2. Canberra!Init /\ Mce!MceInit /\ Vibe!VibeInit /\ Ffm!FfmInit /\ Tone!ToneInit
  BY DEF Init
<1>3. QED
  BY <1>1, <1>2, CanberraInit, MceInit, ImmvibeInit, FfmInit, TonegenInit DEF SinksInv

LEMMA SinksInvStays ==
  ASSUME SinksInv, UNCHANGED vars
  PROVE  SinksInv'
<1>1. /\ UNCHANGED <<device, phase, paused, played, plays, timers>>
      /\ UNCHANGED canberraVars /\ UNCHANGED mceVars /\ UNCHANGED immvibeVars
      /\ UNCHANGED ffmemlessVars /\ UNCHANGED tonegenVars
  BY DEF vars, contractVars
<1>2. \A r : Held(r)' <=> Held(r)
  BY <1>1 DEF Held
<1>3. CanberraInv => CanberraInv'
  BY <1>1 DEF canberraVars, CanberraInv, Cache, Datum, Held
<1>4. MceInv => MceInv'
  <2>1. UNCHANGED <<wanted, pattern, playing, active, toMce, fromMce, lit, plays>> /\ phase' = phase
    BY <1>1 DEF mceVars
  <2>2. MceInv => phase' \in [Requests -> Phases]
    BY <2>1 DEF MceInv, MceShape
  <2>3. QED
    BY <1>2, <2>1, <2>2, QuietCallKeeps
<1>5. ImmvibeInv => ImmvibeInv'
  BY <1>1 DEF immvibeVars, ImmvibeInv, Owned, VibeData, Fresh, Held
<1>6. FfmInv => FfmInv'
  BY <1>1 DEF ffmemlessVars, FfmInv, FfmShape, TableData, FfmData, Held
<1>7. TonegenInv => TonegenInv'
  BY <1>1 DEF tonegenVars, TonegenInv, ToneParts, ToneStream, Wanted, Held
<1>8. QED
  BY <1>1, <1>3, <1>4, <1>5, <1>6, <1>7 DEF SinksInv

LEMMA SinksInvStep ==
  ASSUME SinksInv, [Next]_vars
  PROVE  SinksInv'
<1>1. ASSUME CanberraStep
      PROVE  SinksInv'
  <2>1. device = "canberra" /\ device' = device /\ Canberra!Next
    BY <1>1 DEF CanberraStep
  <2>2. QED
    BY <2>1, CanberraStepKeepsInv DEF SinksInv
<1>2. ASSUME MceStep
      PROVE  SinksInv'
  <2>1. device = "mce" /\ device' = device /\ Mce!MceNext
    BY <1>2 DEF MceStep
  <2>2. QED
    BY <2>1, MceStepKeepsInv DEF SinksInv
<1>3. ASSUME ImmvibeStep
      PROVE  SinksInv'
  <2>1. device = "immvibe" /\ device' = device /\ Vibe!VibeNext
    BY <1>3 DEF ImmvibeStep
  <2>2. QED
    BY <2>1, ImmvibeStepKeepsInv DEF SinksInv
<1>4. ASSUME FfmemlessStep
      PROVE  SinksInv'
  <2>1. device = "ffmemless" /\ device' = device /\ Ffm!FfmNext
    BY <1>4 DEF FfmemlessStep
  <2>2. QED
    BY <2>1, FfmStepKeepsInv DEF SinksInv
<1>5. ASSUME TonegenStep
      PROVE  SinksInv'
  <2>1. device = "tonegen" /\ device' = device /\ Tone!ToneNext
    BY <1>5 DEF TonegenStep
  <2>2. QED
    BY <2>1, TonegenStepKeepsInv DEF SinksInv
<1>6. QED
  BY <1>1, <1>2, <1>3, <1>4, <1>5, SinksInvStays DEF Next

\* What is known of the sinks holds whichever of them is there, and whatever
\* calls of the core, of timers and of what they drive meet in it.
THEOREM Invariance == Spec => []SinksInv
<1>1. Init => SinksInv
  BY SinksInvInit
<1>2. SinksInv /\ [Next]_vars => SinksInv'
  BY SinksInvStep
<1>3. QED
  BY <1>1, <1>2, PTL DEF Spec

\* No timer of canberra or of ffmemless, no source of immvibe and no entry of
\* the LED sink's list outlives the data of its request, at whatever point the
\* stop frees it.  Requests that canberra played twice, or that ffmemless was
\* told to pause or resume before it had started them, are excepted.
THEOREM TimersDieWithTheirData == Spec => []NothingOutlivesItsData
<1>1. SinksInv => NothingOutlivesItsData
  BY CanberraIsSafe, MceIsSafe, FfmIsSafe, ImmvibeIsSafe DEF SinksInv, NothingOutlivesItsData
<1>2. QED
  BY <1>1, Invariance, PTL

\* The list of cached samples of canberra never names a sample that the present
\* connection has not cached, in whatever order connections are lost and made.
THEOREM CacheFollowsTheConnection == Spec => []CacheIsCurrent
<1>1. SinksInv => CacheIsCurrent
  BY CanberraIsSafe DEF SinksInv, CacheIsCurrent
<1>2. QED
  BY <1>1, Invariance, PTL

\* An LED that one request alone has lit, once, is put out when the request is
\* gone and mce has taken its calls; what vibrates belongs to a request that is
\* held, and a pattern that was started is polled to its end.
THEOREM WhatIsStartedEnds == Spec => []EffectsEnd
<1>1. SinksInv => EffectsEnd
  BY MceIsSafe, ImmvibeIsSafe DEF SinksInv, EffectsEnd
<1>2. QED
  BY <1>1, Invariance, PTL

\* Every slot of the kernel holds an effect of the table or of a request that is
\* held, through the two passes of the setup, late data and stops; requests that
\* were paused or resumed before they were started are excepted.
THEOREM SlotsAreNotLost == Spec => []SlotsAreAccounted
<1>1. SinksInv => SlotsAreAccounted
  BY FfmIsSafe DEF SinksInv, SlotsAreAccounted
<1>2. QED
  BY <1>1, Invariance, PTL

\* A stream of the tone generator with tones belongs to a request that is held,
\* unless the indicator was stopped before its stream was ready, and lives on a
\* connection that is there.
THEOREM TonesBelongToRequests == Spec => []TonesHaveRequests
<1>1. SinksInv => TonesHaveRequests
  BY TonegenIsSafe DEF SinksInv, TonesHaveRequests
<1>2. QED
  BY <1>1, Invariance, PTL

\* When telephony is muted there is a DTMF tone or a timer that will release it,
\* except where a tone without volume or a destroyed stream had asked for it.
THEOREM MuteHasAnEnd == Spec => []MuteIsReleased
<1>1. SinksInv => MuteIsReleased
  BY TonegenIsSafe DEF SinksInv, MuteIsReleased
<1>2. QED
  BY <1>1, Invariance, PTL

=============================================================================
