------------------------- MODULE StreamRestoreProofs -------------------------
(***************************************************************************)
(* Theorems about the connection of StreamRestore, the volumes of its      *)
(* roles and its transforms, for every set of streams, of addresses, of    *)
(* keys and of parameters, and every number of restarts of PulseAudio.     *)
(***************************************************************************)
EXTENDS StreamRestore, FiniteSetTheorems, SequenceTheorems, WellFoundedInduction, TLAPS

-----------------------------------------------------------------------------
(* The connection.                                                         *)

\* While the plugin is loaded the timer runs, or a call for the address is
\* pending, or there is a connection, and never two of them.
OneThingAtATime ==
  stage \in {"loaded", "running"} =>
    \/ retry /\ ~asking /\ bus = None
    \/ ~retry /\ asking /\ bus = None
    \/ ~retry /\ ~asking /\ bus \in {"up", "dead"}

\* The inductive invariant: nothing was started before the plugin is loaded,
\* nothing of the plugin runs after it was unloaded, a connection that is up
\* is one to the PulseAudio that is there.
LinkInv ==
  /\ stage \in {"loading", "loaded", "running", "unloaded"}
  /\ retry \in BOOLEAN /\ asking \in BOOLEAN
  /\ address \in Addresses \cup {None} /\ server \in Addresses \cup {None}
  /\ stage = "loading"  => ~retry /\ ~asking /\ bus = None
  /\ stage = "unloaded" => ~retry /\ bus = None
  /\ bus = "up" => server # None
  /\ OneThingAtATime

LEMMA LinkInitHolds == LinkInit => LinkInv
BY DEF LinkInit, LinkInv, OneThingAtATime, None

\* A try to connect leaves the timer, a call or a connection, whichever way
\* it ends.
LEMMA ConnectKeeps ==
  ASSUME LinkInv, NEW dies \in BOOLEAN, Connect(dies), ~asking,
         stage' \in {"loaded", "running"}
  PROVE  LinkInv'
<1>1. Target \in Addresses \cup {None} /\ address' = Target
  BY LinkAssumption DEF Connect, LinkInv, Target
<1>2. CASE AskAddress
  <2>1. /\ bus' = None /\ server' = server
        /\ \/ asking' = TRUE /\ retry' = FALSE
           \/ asking' = FALSE /\ retry' = TRUE
    <3>1. asking = FALSE
      BY DEF LinkInv
    <3>2. QED
      BY <1>2, <3>1 DEF AskAddress
  <2>2. QED
    BY <1>1, <2>1 DEF LinkInv, OneThingAtATime, None
<1>3. CASE FailToOpen
  BY <1>1, <1>3 DEF FailToOpen, LinkInv, OneThingAtATime, None
<1>4. CASE Open(dies)
  BY <1>1, <1>4 DEF Open, LinkInv, OneThingAtATime, None
<1>5. QED
  BY <1>2, <1>3, <1>4 DEF Connect

LEMMA LinkNextKeeps == LinkInv /\ [LinkNext]_link => LinkInv'
<1> SUFFICES ASSUME LinkInv, [LinkNext]_link
             PROVE  LinkInv'
  OBVIOUS
<1>1. CASE LinkLoad
  BY <1>1, ConnectKeeps DEF LinkLoad, LinkInv
<1>2. CASE LinkAddressReply
  BY <1>2 DEF LinkAddressReply, LinkInv, OneThingAtATime, None
<1>3. CASE LinkDisconnected
  BY <1>3 DEF LinkDisconnected, LinkInv, OneThingAtATime, None
<1>4. CASE LinkUnload
  BY <1>4 DEF LinkUnload, LinkInv, OneThingAtATime, None
<1>5. CASE PulseGoes
  BY <1>5 DEF PulseGoes, LinkInv, OneThingAtATime, None
<1>6. CASE \E dies \in BOOLEAN : LinkRetry(dies)
  <2>1. PICK dies \in BOOLEAN : LinkRetry(dies)
    BY <1>6
  <2>2. stage \in {"loaded", "running"} /\ ~asking /\ stage' = stage
    BY <2>1 DEF LinkRetry, LinkInv, OneThingAtATime
  <2>3. QED
    BY <2>1, <2>2, ConnectKeeps DEF LinkRetry
<1>7. CASE \E a \in Addresses : PulseComes(a)
  BY <1>7, LinkAssumption DEF PulseComes, LinkInv, OneThingAtATime, None
<1>8. CASE stage = "loaded" /\ stage' = "running"
             /\ UNCHANGED <<retry, asking, address, bus, server, restarts>>
  BY <1>8 DEF LinkInv, OneThingAtATime
<1>9. CASE UNCHANGED link
  BY <1>9 DEF link, LinkInv, OneThingAtATime
<1>10. QED
  BY <1>1, <1>2, <1>3, <1>4, <1>5, <1>6, <1>7, <1>8, <1>9 DEF LinkNext

\* Whatever else the plugin does, it does to the connection what PulseLink
\* says.
LEMMA LinkSteps == [Next]_vars => [LinkNext]_link
<1>1. Load \/ AddressReply \/ Disconnected \/ Unload \/ PulseStops => LinkNext
  BY DEF Load, AddressReply, Disconnected, Unload, PulseStops, LinkNext
<1>2. InitDone => LinkNext
  BY DEF InitDone, LinkNext
<1>3. RetryTimeout => LinkNext
  BY DEF RetryTimeout, LinkNext
<1>4. (\E a \in Addresses : PulseStarts(a)) => LinkNext
  BY DEF PulseStarts, LinkNext
<1>5. ReceiveSignal => UNCHANGED link
  BY DEF ReceiveSignal
<1>6. \A k \in Keys, v \in Values : ChangeKey(k, v) => UNCHANGED link
  BY DEF ChangeKey
<1>7. \A r \in Routes : ChangeRoute(r) => UNCHANGED link
  BY DEF ChangeRoute
<1>8. \A s \in Subscribed : OthersRemove(s) => UNCHANGED link
  BY DEF OthersRemove
<1>9. \A s \in Subscribed, mix \in Mixes : OthersSet(s, mix) => UNCHANGED link
  BY DEF OthersSet
<1>10. UNCHANGED vars => UNCHANGED link
  BY DEF vars
<1>11. QED
  BY <1>1, <1>2, <1>3, <1>4, <1>5, <1>6, <1>7, <1>8, <1>9, <1>10 DEF Next

LEMMA LinkInvHolds == Spec => []LinkInv
<1>1. Init => LinkInv
  BY LinkInitHolds DEF Init
<1>2. LinkInv /\ [Next]_vars => LinkInv'
  BY LinkSteps, LinkNextKeeps
<1>3. QED
  BY <1>1, <1>2, PTL DEF Spec

\* volume-controller.c never waits for nothing, and never tries twice at once:
\* retry_timeout_cb, get_address_reply_cb and filter_cb each leave exactly one
\* thing that can wake the volume controller up.
THEOREM NeverStuck == Spec => []OneThingAtATime
BY LinkInvHolds, PTL DEF LinkInv

\* The plugin with its volumes implements the connection alone: every step is
\* one of PulseLink or leaves the connection as it is.
THEOREM ImplementsLink == Spec => LinkInit /\ [][LinkNext]_link
<1>1. Init => LinkInit
  BY DEF Init
<1>2. QED
  BY <1>1, LinkSteps, PTL DEF Spec

-----------------------------------------------------------------------------
(* The loops: each step of them exists.                                    *)

LEMMA LeastExists ==
  ASSUME NEW S, S \subseteq Nat, S # {}
  PROVE  \E x \in S : \A y \in S : x <= y
<1>1. PICK x \in S : \A y \in S : ~ (<<y, x>> \in OpToRel(<, Nat))
  BY ONLY S # {}, S \subseteq Nat, WFMin, NatLessThanWellFounded, Zenon
<1>2. \A y \in S : y < x => <<y, x>> \in OpToRel(<, Nat)
  BY <1>1 DEF OpToRel
<1>3. \A y \in S : ~ (y < x)
  BY <1>1, <1>2, Zenon
<1>4. QED
  BY ONLY <1>3, S \subseteq Nat, x \in S

LEMMA SetInduction ==
  ASSUME NEW T, 0 \in T, \A n \in Nat : n \in T => n + 1 \in T
  PROVE  Nat \subseteq T
<1> DEFINE Rest == Nat \ T
<1>1. SUFFICES ASSUME Rest # {}
               PROVE  FALSE
  OBVIOUS
<1>2. PICK x \in Rest : \A y \in Rest : x <= y
  <2>1. Rest \subseteq Nat
    OBVIOUS
  <2> HIDE DEF Rest
  <2>2. QED
    BY <1>1, <2>1, LeastExists
<1>3. x # 0 /\ x - 1 \in Nat /\ x - 1 \notin T
  BY <1>2
<1>4. QED
  BY <1>2, <1>3

\* The world w after the first m roles of s saw the value v of the key k.
SeenBy(w, s, k, v, m, f) ==
  f = [n \in 0..m |-> IF n = 0 THEN w ELSE RoleSees(f[n - 1], s[n], k, v)]

LEMMA SeenByExists ==
  ASSUME NEW w, NEW s, Len(s) \in Nat, NEW k, NEW v
  PROVE  \E f : SeenBy(w, s, k, v, Len(s), f)
<1> DEFINE T == {m \in Nat : \E f : SeenBy(w, s, k, v, m, f)}
<1>1. 0 \in T
  <2>1. SeenBy(w, s, k, v, 0, [n \in 0..0 |-> w])
    BY DEF SeenBy
  <2>2. QED
    BY <2>1
<1>2. ASSUME NEW m \in Nat, m \in T
      PROVE  m + 1 \in T
  <2>1. PICK f : SeenBy(w, s, k, v, m, f)
    BY <1>2
  <2> DEFINE last == RoleSees(f[m], s[m + 1], k, v)
             g    == [n \in 0..(m + 1) |-> IF n = m + 1 THEN last ELSE f[n]]
  <2>2. ASSUME NEW n \in 0..(m + 1)
        PROVE  g[n] = IF n = 0 THEN w ELSE RoleSees(g[n - 1], s[n], k, v)
    <3>1. CASE n = m + 1
      <4>1. n # 0 /\ n - 1 = m /\ n - 1 \in 0..(m + 1) /\ n - 1 # m + 1
        BY <3>1
      <4>2. g[n - 1] = f[m] /\ g[n] = last
        BY <3>1, <4>1
      <4>3. QED
        BY <3>1, <4>1, <4>2
    <3>2. CASE n # m + 1
      <4>1. n \in 0..m /\ g[n] = f[n] /\ (n # 0 => g[n - 1] = f[n - 1])
        BY <3>2
      <4>2. f[n] = IF n = 0 THEN w ELSE RoleSees(f[n - 1], s[n], k, v)
        BY <2>1, <4>1 DEF SeenBy
      <4>3. QED
        BY <4>1, <4>2
    <3>3. QED
      BY <3>1, <3>2
  <2> HIDE DEF last
  <2>3. SeenBy(w, s, k, v, m + 1, g)
    BY <2>2 DEF SeenBy
  <2>4. QED
    BY <2>3
<1>3. Nat \subseteq T
  <2> HIDE DEF T
  <2>1. QED
    BY <1>1, <1>2, SetInduction
<1>4. QED
  BY <1>3

\* The world w after the first m keys of s were seen.
SeenOf(w, s, m, f) ==
  f = [n \in 0..m |-> IF n = 0 THEN w ELSE SeesKey(f[n - 1], s[n])]

LEMMA SeenOfExists ==
  ASSUME NEW w, NEW s, Len(s) \in Nat
  PROVE  \E f : SeenOf(w, s, Len(s), f)
<1> DEFINE T == {m \in Nat : \E f : SeenOf(w, s, m, f)}
<1>1. 0 \in T
  <2>1. SeenOf(w, s, 0, [n \in 0..0 |-> w])
    BY DEF SeenOf
  <2>2. QED
    BY <2>1
<1>2. ASSUME NEW m \in Nat, m \in T
      PROVE  m + 1 \in T
  <2>1. PICK f : SeenOf(w, s, m, f)
    BY <1>2
  <2> DEFINE last == SeesKey(f[m], s[m + 1])
             g    == [n \in 0..(m + 1) |-> IF n = m + 1 THEN last ELSE f[n]]
  <2>2. ASSUME NEW n \in 0..(m + 1)
        PROVE  g[n] = IF n = 0 THEN w ELSE SeesKey(g[n - 1], s[n])
    <3>1. CASE n = m + 1
      <4>1. n # 0 /\ n - 1 = m /\ n - 1 \in 0..(m + 1) /\ n - 1 # m + 1
        BY <3>1
      <4>2. g[n - 1] = f[m] /\ g[n] = last
        BY <3>1, <4>1
      <4>3. QED
        BY <3>1, <4>1, <4>2
    <3>2. CASE n # m + 1
      <4>1. n \in 0..m /\ g[n] = f[n] /\ (n # 0 => g[n - 1] = f[n - 1])
        BY <3>2
      <4>2. f[n] = IF n = 0 THEN w ELSE SeesKey(f[n - 1], s[n])
        BY <2>1, <4>1 DEF SeenOf
      <4>3. QED
        BY <4>1, <4>2
    <3>3. QED
      BY <3>1, <3>2
  <2> HIDE DEF last
  <2>3. SeenOf(w, s, m + 1, g)
    BY <2>2 DEF SeenOf
  <2>4. QED
    BY <2>3
<1>3. Nat \subseteq T
  <2> HIDE DEF T
  <2>1. QED
    BY <1>1, <1>2, SetInduction
<1>4. QED
  BY <1>3

\* The world w after the first m things that s names in the queue were done.
ServedOf(w, s, q, d, m, f) ==
  f = [n \in 0..m |-> IF n = 0 THEN w ELSE ServeNext(f[n - 1], q, d, s[n])]

LEMMA ServedOfExists ==
  ASSUME NEW w, NEW s, Len(s) \in Nat, NEW q, NEW d
  PROVE  \E f : ServedOf(w, s, q, d, Len(s), f)
<1> DEFINE T == {m \in Nat : \E f : ServedOf(w, s, q, d, m, f)}
<1>1. 0 \in T
  <2>1. ServedOf(w, s, q, d, 0, [n \in 0..0 |-> w])
    BY DEF ServedOf
  <2>2. QED
    BY <2>1
<1>2. ASSUME NEW m \in Nat, m \in T
      PROVE  m + 1 \in T
  <2>1. PICK f : ServedOf(w, s, q, d, m, f)
    BY <1>2
  <2> DEFINE last == ServeNext(f[m], q, d, s[m + 1])
             g    == [n \in 0..(m + 1) |-> IF n = m + 1 THEN last ELSE f[n]]
  <2>2. ASSUME NEW n \in 0..(m + 1)
        PROVE  g[n] = IF n = 0 THEN w ELSE ServeNext(g[n - 1], q, d, s[n])
    <3>1. CASE n = m + 1
      <4>1. n # 0 /\ n - 1 = m /\ n - 1 \in 0..(m + 1) /\ n - 1 # m + 1
        BY <3>1
      <4>2. g[n - 1] = f[m] /\ g[n] = last
        BY <3>1, <4>1
      <4>3. QED
        BY <3>1, <4>1, <4>2
    <3>2. CASE n # m + 1
      <4>1. n \in 0..m /\ g[n] = f[n] /\ (n # 0 => g[n - 1] = f[n - 1])
        BY <3>2
      <4>2. f[n] = IF n = 0 THEN w ELSE ServeNext(f[n - 1], q, d, s[n])
        BY <2>1, <4>1 DEF ServedOf
      <4>3. QED
        BY <4>1, <4>2
    <3>3. QED
      BY <3>1, <3>2
  <2> HIDE DEF last
  <2>3. ServedOf(w, s, q, d, m + 1, g)
    BY <2>2 DEF ServedOf
  <2>4. QED
    BY <2>3
<1>3. Nat \subseteq T
  <2> HIDE DEF T
  <2>1. QED
    BY <1>1, <1>2, SetInduction
<1>4. QED
  BY <1>3

\* The world w after the first m parameters of s were read.
ReadOf(w, s, m, f) ==
  f = [n \in 0..m |-> IF n = 0 THEN w ELSE ReadParam(f[n - 1], s[n])]

LEMMA ReadOfExists ==
  ASSUME NEW w, NEW s, Len(s) \in Nat
  PROVE  \E f : ReadOf(w, s, Len(s), f)
<1> DEFINE T == {m \in Nat : \E f : ReadOf(w, s, m, f)}
<1>1. 0 \in T
  <2>1. ReadOf(w, s, 0, [n \in 0..0 |-> w])
    BY DEF ReadOf
  <2>2. QED
    BY <2>1
<1>2. ASSUME NEW m \in Nat, m \in T
      PROVE  m + 1 \in T
  <2>1. PICK f : ReadOf(w, s, m, f)
    BY <1>2
  <2> DEFINE last == ReadParam(f[m], s[m + 1])
             g    == [n \in 0..(m + 1) |-> IF n = m + 1 THEN last ELSE f[n]]
  <2>2. ASSUME NEW n \in 0..(m + 1)
        PROVE  g[n] = IF n = 0 THEN w ELSE ReadParam(g[n - 1], s[n])
    <3>1. CASE n = m + 1
      <4>1. n # 0 /\ n - 1 = m /\ n - 1 \in 0..(m + 1) /\ n - 1 # m + 1
        BY <3>1
      <4>2. g[n - 1] = f[m] /\ g[n] = last
        BY <3>1, <4>1
      <4>3. QED
        BY <3>1, <4>1, <4>2
    <3>2. CASE n # m + 1
      <4>1. n \in 0..m /\ g[n] = f[n] /\ (n # 0 => g[n - 1] = f[n - 1])
        BY <3>2
      <4>2. f[n] = IF n = 0 THEN w ELSE ReadParam(f[n - 1], s[n])
        BY <2>1, <4>1 DEF ReadOf
      <4>3. QED
        BY <4>1, <4>2
    <3>3. QED
      BY <3>1, <3>2
  <2> HIDE DEF last
  <2>3. ReadOf(w, s, m + 1, g)
    BY <2>2 DEF ReadOf
  <2>4. QED
    BY <2>3
<1>3. Nat \subseteq T
  <2> HIDE DEF T
  <2>1. QED
    BY <1>1, <1>2, SetInduction
<1>4. QED
  BY <1>3

-----------------------------------------------------------------------------
(* What is true of the roles, in a world and while something waits.        *)

IsList(q) == q \in Seq(Range(q))

Fields ==
  {"bus", "queue", "items", "objectMap", "freedKeys", "complete", "queueSubscribe",
   "heeded", "signals", "level", "path", "next", "route", "values", "known", "roles",
   "lost", "reordered", "rerouted", "missed"}

IsFunction(f, D) == f = [x \in D |-> f[x]]

IsWorld(w) ==
  /\ DOMAIN w = Fields
  /\ DOMAIN w.heeded = {"entries", "paths"}
  /\ DOMAIN w.level = Streams /\ DOMAIN w.path = Streams
  /\ DOMAIN w.roles = DOMAIN Roles
  /\ \A r \in DOMAIN Roles : DOMAIN w.roles[r] = {"vals", "volume"}
  /\ \A r \in DOMAIN Roles : IsFunction(w.roles[r].vals, DOMAIN Roles[r])
  /\ IsList(w.queue)
  /\ w.known \in Seq(DOMAIN Roles)
  /\ DOMAIN w.items \subseteq Subscribed
  /\ \A m \in w.objectMap : m[2] \in Subscribed

\* A volume for the role waits in the queue, behind the first k.
Waits(q, k, r, i) ==
  i \in (k + 1)..Len(q) /\ q[i].op = "set" /\ q[i].stream = r

NothingWaits(q, k, r) == \A i \in (k + 1)..Len(q) : ~Waits(q, k, r, i)

OnlyWaits(q, k, r, v) ==
  \E i \in (k + 1)..Len(q) :
    /\ Waits(q, k, r, i) /\ q[i].volume = v
    /\ \A j \in (k + 1)..Len(q) : Waits(q, k, r, j) => j = i

\* PulseAudio has this volume for the role, or it is the one that waits.
Holds(w, q, k, r, v) ==
  r \notin w.reordered =>
    \/ NothingWaits(q, k, r) /\ (r \notin w.lost => w.level[r] = <<ToPa(v)>>)
    \/ OnlyWaits(q, k, r, v)

Unsent(w, q, k, r) == NothingWaits(q, k, r) /\ r \in w.lost

\* The volume of the role is what its rules make of what it holds for them.
Computed(w, q, k, r) ==
  \/ r \in w.rerouted
  \/ w.roles[r].volume = RoleVolume(Roles[r], w.roles[r].vals, w.route)
  \/ Unsent(w, q, k, r)

\* A role holds nothing for a rule, or the value of its key.
Saw(w, r, i) ==
  Roles[r][i].key \in DOMAIN w.values /\ w.roles[r].vals[i] = w.values[Roles[r][i].key]
SawSome(w, r) ==
  \A i \in DOMAIN Roles[r] :
    w.roles[r].vals[i] = 0 \/ (r \in Range(w.known) /\ Saw(w, r, i))
SawAll(w, r) ==
  \A i \in DOMAIN Roles[r] :
    Saw(w, r, i) \/ (Roles[r][i].key \notin DOMAIN w.values /\ w.roles[r].vals[i] = 0)

SetsFirst(q) ==
  \A i, j \in 1..Len(q) : i < j /\ q[j].op = "set" => q[i].op = "set"

Sound(w, q, k) ==
  \A r \in DOMAIN Roles :
    Holds(w, q, k, r, w.roles[r].volume) /\ Computed(w, q, k, r)

\* Between two calls of the main loop.
AtRest(w) ==
  /\ IsWorld(w)
  /\ SetsFirst(w.queue)
  /\ w.bus # None => w.queue = <<>>
  /\ Sound(w, w.queue, 0)

-----------------------------------------------------------------------------
(* What the calls leave alone.                                             *)

\* The roles, and what they follow, are as before.
SameRoles(x, w) ==
  /\ x.roles = w.roles /\ x.known = w.known /\ x.values = w.values
  /\ x.route = w.route /\ x.rerouted = w.rerouted

SameQueue(x, w) == x.bus = w.bus /\ x.queue = w.queue

\* What is said of the volume of the role in PulseAudio is as before.
SameVolume(x, w, r) ==
  /\ x.level[r] = w.level[r]
  /\ r \in x.lost <=> r \in w.lost
  /\ r \in x.reordered <=> r \in w.reordered

\* Whatever volume the role has, or waits for it, it is as before.
KeepsRole(x, w, r) ==
  /\ \A v : Holds(w, w.queue, 0, r, v) => Holds(x, x.queue, 0, r, v)
  /\ Unsent(w, w.queue, 0, r) => Unsent(x, x.queue, 0, r)

LEMMA SetLevelFrame ==
  ASSUME NEW w, IsWorld(w), NEW s, NEW c
  PROVE  LET x == SetLevel(w, s, c)
         IN  /\ IsWorld(x) /\ SameRoles(x, w) /\ SameQueue(x, w)
             /\ x.lost = w.lost /\ x.reordered = w.reordered
             /\ \A r \in Streams : x.level[r] = IF r = s THEN c ELSE w.level[r]
<1> DEFINE new   == w.path[s] = NoPath
           deaf  == w.level[s] # c /\ ~Hears(w, s)
           after == [w EXCEPT !.level[s] = c,
                              !.path[s]  = IF new THEN w.next ELSE @,
                              !.next     = IF new THEN @ + 1 ELSE @,
                              !.missed   = IF s \in Subscribed /\ deaf
                                           THEN @ \cup {s} ELSE @]
           Good(x) == /\ IsWorld(x) /\ SameRoles(x, w) /\ SameQueue(x, w)
                      /\ x.lost = w.lost /\ x.reordered = w.reordered
                      /\ \A r \in Streams : x.level[r] = IF r = s THEN c ELSE w.level[r]
<1>1. Good(after)
  <2> HIDE DEF new, deaf
  <2>1. QED
    BY DEF IsWorld, Fields, SameRoles, SameQueue
<1>2. ASSUME NEW kind, NEW p, NEW d
      PROVE  Good(Send(after, kind, p, d))
  <2> HIDE DEF after
  <2>1. QED
    BY <1>1 DEF Send, IsWorld, Fields, SameRoles, SameQueue
<1>3. SetLevel(w, s, c) \in {after, Send(after, "new", w.next, c),
                             Send(after, "volume", w.path[s], c)}
  BY DEF SetLevel
<1> HIDE DEF after
<1>4. QED
  BY <1>1, <1>2, <1>3

LEMMA AddEntryFrame ==
  ASSUME NEW w, IsWorld(w), NEW s, NEW v
  PROVE  LET x == AddEntry(w, s, v)
         IN  /\ IsWorld(x) /\ SameRoles(x, w) /\ SameQueue(x, w)
             /\ \A r \in Streams : r # s => SameVolume(x, w, r)
             /\ x.reordered = w.reordered
             /\ s \in Streams => (s \notin x.lost => x.level[s] = <<ToPa(v)>>)
<1> DEFINE y == SetLevel(w, s, <<ToPa(v)>>)
<1>1. /\ IsWorld(y) /\ SameRoles(y, w) /\ SameQueue(y, w)
      /\ y.lost = w.lost /\ y.reordered = w.reordered
      /\ \A r \in Streams : y.level[r] = IF r = s THEN <<ToPa(v)>> ELSE w.level[r]
  BY SetLevelFrame
<1> HIDE DEF y
<1>2. CASE Alive(w)
  <2>1. AddEntry(w, s, v) = [y EXCEPT !.lost = @ \ {s}]
    BY <1>2 DEF AddEntry, y
  <2>2. QED
    BY <1>1, <2>1 DEF IsWorld, Fields, SameRoles, SameQueue, SameVolume
<1>3. CASE ~Alive(w)
  <2>1. AddEntry(w, s, v) = [w EXCEPT !.lost = @ \cup {s}]
    BY <1>3 DEF AddEntry
  <2>2. QED
    BY <2>1 DEF IsWorld, Fields, SameRoles, SameQueue, SameVolume
<1>4. QED
  BY <1>2, <1>3

\* p is the list q with one more in front of it.
Longer(p, e, q) ==
  /\ IsList(p) /\ Len(p) = Len(q) + 1 /\ Len(q) \in Nat /\ p[1] = e
  /\ \A i \in 1..Len(q) : p[i + 1] = q[i]
  /\ \A i \in 1..Len(p) : i = 1 \/ (i - 1 \in 1..Len(q) /\ p[i] = q[i - 1])

LEMMA InFront ==
  ASSUME NEW q, IsList(q), NEW e
  PROVE  Longer(<<e>> \o q, e, q)
<1> DEFINE p == <<e>> \o q
           S == Range(q) \cup {e}
<1>1. q \in Seq(Range(q)) /\ Len(q) \in Nat /\ DOMAIN q = 1..Len(q)
  BY DEF IsList
<1>2. \A i \in 1..Len(q) : q[i] \in S
  BY <1>1 DEF Range
<1>3. q \in Seq(S)
  <2> HIDE DEF S
  <2>1. q = [i \in 1..Len(q) |-> q[i]]
    BY <1>1
  <2>2. QED
    BY <1>1, <1>2, <2>1
<1>4. <<e>> \in Seq(S)
  OBVIOUS
<1> HIDE DEF S
<1>5. p \in Seq(S) /\ Len(p) = Len(q) + 1 /\ p[1] = e /\ \A i \in 1..Len(q) : p[i + 1] = q[i]
  BY <1>1, <1>3, <1>4
<1> HIDE DEF p
<1>6. \A i \in 1..Len(p) : i = 1 \/ (i - 1 \in 1..Len(q) /\ p[i] = q[i - 1])
  <2>1. ASSUME NEW i \in 1..Len(p), i # 1
        PROVE  i - 1 \in 1..Len(q) /\ p[i] = q[i - 1]
    <3>1. i - 1 \in 1..Len(q) /\ (i - 1) + 1 = i
      BY <1>1, <1>5, <2>1
    <3>2. QED
      BY <1>5, <3>1
  <2>2. QED
    BY <2>1
<1>7. IsList(p)
  <2>1. DOMAIN p = 1..Len(p) /\ p = [i \in 1..Len(p) |-> p[i]] /\ Len(p) \in Nat
    BY ONLY <1>5
  <2>2. \A i \in 1..Len(p) : p[i] \in Range(p)
    BY <2>1 DEF Range
  <2> DEFINE T == Range(p)
  <2>3. \A i \in 1..Len(p) : p[i] \in T
    BY <2>2
  <2> HIDE DEF T
  <2>4. p \in Seq(T)
    BY ONLY <2>1, <2>3
  <2>5. QED
    BY <2>4 DEF IsList, T
<1>8. QED
  BY <1>1, <1>5, <1>6, <1>7 DEF Longer, p

\* p is the list q with one more behind it.
LongerBehind(p, e, q) ==
  /\ IsList(p) /\ Len(p) = Len(q) + 1 /\ Len(q) \in Nat /\ p[Len(q) + 1] = e
  /\ \A i \in 1..Len(q) : p[i] = q[i]

LEMMA Behind ==
  ASSUME NEW q, IsList(q), NEW e
  PROVE  LongerBehind(Append(q, e), e, q)
<1> DEFINE p == Append(q, e)
           S == Range(q) \cup {e}
<1>1. q \in Seq(Range(q)) /\ Len(q) \in Nat /\ DOMAIN q = 1..Len(q)
  BY DEF IsList
<1>2. \A i \in 1..Len(q) : q[i] \in S
  BY <1>1 DEF Range
<1>3. q \in Seq(S) /\ e \in S
  <2>0. e \in S
    OBVIOUS
  <2> HIDE DEF S
  <2>1. q = [i \in 1..Len(q) |-> q[i]]
    BY <1>1
  <2>2. QED
    BY <1>1, <1>2, <2>0, <2>1
<1> HIDE DEF S
<1>5. p \in Seq(S) /\ Len(p) = Len(q) + 1 /\ p[Len(q) + 1] = e /\ \A i \in 1..Len(q) : p[i] = q[i]
  BY <1>1, <1>3
<1> HIDE DEF p
<1>7. IsList(p)
  <2>1. DOMAIN p = 1..Len(p) /\ p = [i \in 1..Len(p) |-> p[i]] /\ Len(p) \in Nat
    BY ONLY <1>5
  <2>2. \A i \in 1..Len(p) : p[i] \in Range(p)
    BY <2>1 DEF Range
  <2> DEFINE T == Range(p)
  <2>3. \A i \in 1..Len(p) : p[i] \in T
    BY <2>2
  <2> HIDE DEF T
  <2>4. p \in Seq(T)
    BY ONLY <2>1, <2>3
  <2>5. QED
    BY <2>4 DEF IsList, T
<1>8. QED
  BY <1>1, <1>5, <1>7 DEF LongerBehind, p

LEMMA QueueSetFrame ==
  ASSUME NEW w, IsWorld(w), SetsFirst(w.queue), NEW s, NEW v
  PROVE  LET x == QueueSet(w, s, v)
         IN  /\ IsWorld(x) /\ SameRoles(x, w) /\ x.bus = w.bus /\ SetsFirst(x.queue)
             /\ \A r \in Streams : r # s => KeepsRole(x, w, r)
             /\ Holds(x, x.queue, 0, s, v)
<1> DEFINE waits == \E i \in DOMAIN w.queue : w.queue[i].op = "set" /\ w.queue[i].stream = s
           e == [op |-> "set", stream |-> s, volume |-> v]
           p == <<e>> \o w.queue
           x == QueueSet(w, s, v)
           n == Len(w.queue)
<1>1. x = [w EXCEPT !.queue = p, !.reordered = IF waits THEN @ \cup {s} ELSE @ \ {s}]
  BY DEF QueueSet
<1>2. e.op = "set" /\ e.stream = s /\ e.volume = v
  OBVIOUS
<1> HIDE DEF e
<1>0. IsList(w.queue)
  BY DEF IsWorld
<1> HIDE DEF waits, x, n
<1>a. Longer(p, e, w.queue)
  BY <1>0, InFront
<1> HIDE DEF p
<1>3. /\ IsList(p) /\ Len(p) = n + 1 /\ n \in Nat /\ p[1] = e
      /\ \A i \in 1..n : p[i + 1] = w.queue[i]
      /\ \A i \in 1..Len(p) : i = 1 \/ (i - 1 \in 1..n /\ p[i] = w.queue[i - 1])
  BY <1>a DEF n, Longer
<1>4. waits <=> \E i \in 1..n : w.queue[i].op = "set" /\ w.queue[i].stream = s
  BY <1>0 DEF IsList, waits, n
<1>5. /\ IsWorld(x) /\ SameRoles(x, w) /\ x.bus = w.bus /\ x.queue = p
      /\ x.level = w.level /\ x.lost = w.lost
      /\ x.reordered = IF waits THEN w.reordered \cup {s} ELSE w.reordered \ {s}
  BY <1>1, <1>3 DEF IsWorld, Fields, SameRoles
<1>6. SetsFirst(p)
  <2>1. SUFFICES ASSUME NEW i \in 1..Len(p), NEW j \in 1..Len(p), i < j, p[j].op = "set"
                 PROVE  p[i].op = "set"
    BY DEF SetsFirst
  <2>2. CASE i = 1
    BY <1>2, <1>3, <2>2
  <2>3. CASE i # 1
    <3>1. j # 1 /\ i - 1 < j - 1
      BY <1>3, <2>1, <2>3
    <3>2. i - 1 \in 1..n /\ p[i] = w.queue[i - 1] /\ j - 1 \in 1..n /\ p[j] = w.queue[j - 1]
      BY <1>3, <2>3, <3>1
    <3>3. QED
      BY <2>1, <3>1, <3>2 DEF SetsFirst, n
  <2>4. QED
    BY <2>2, <2>3
<1>7. ASSUME NEW r \in Streams, r # s
      PROVE  KeepsRole(x, w, r)
  <2>1. \A i \in 1..n : Waits(w.queue, 0, r, i) <=> Waits(p, 0, r, i + 1)
    BY <1>3 DEF Waits, n
  <2>2. ~Waits(p, 0, r, 1)
    BY <1>2, <1>3, <1>7 DEF Waits
  <2>3. NothingWaits(w.queue, 0, r) => NothingWaits(p, 0, r)
    <3>1. SUFFICES ASSUME NothingWaits(w.queue, 0, r), NEW i \in 1..Len(p), Waits(p, 0, r, i)
                   PROVE  FALSE
      BY DEF NothingWaits
    <3>2. i # 1
      BY <2>2, <3>1
    <3>3. i - 1 \in 1..n /\ (i - 1) + 1 = i
      BY <1>3, <3>2
    <3>4. Waits(w.queue, 0, r, i - 1)
      BY <2>1, <3>1, <3>3
    <3>5. QED
      BY <3>1, <3>3, <3>4 DEF NothingWaits, n
  <2>4. ASSUME NEW u, OnlyWaits(w.queue, 0, r, u)
        PROVE  OnlyWaits(p, 0, r, u)
    <3>1. PICK i \in 1..n : /\ Waits(w.queue, 0, r, i) /\ w.queue[i].volume = u
                            /\ \A j \in 1..n : Waits(w.queue, 0, r, j) => j = i
      BY <2>4 DEF OnlyWaits, n
    <3>2. i + 1 \in 1..Len(p) /\ p[i + 1].volume = u /\ Waits(p, 0, r, i + 1)
      BY <1>3, <2>1, <3>1
    <3>3. ASSUME NEW j \in 1..Len(p), Waits(p, 0, r, j)
          PROVE  j = i + 1
      <4>1. j # 1
        BY <2>2, <3>3
      <4>2. j - 1 \in 1..n /\ (j - 1) + 1 = j
        BY <1>3, <4>1
      <4>3. Waits(w.queue, 0, r, j - 1)
        BY <2>1, <3>3, <4>2
      <4>4. j - 1 = i
        BY <3>1, <4>2, <4>3
      <4>5. QED
        BY <4>4
    <3>4. QED
      BY <3>2, <3>3 DEF OnlyWaits
  <2>5. r \in x.reordered <=> r \in w.reordered
    BY <1>5, <1>7
  <2>6. QED
    BY <1>5, <2>3, <2>4, <2>5 DEF KeepsRole, Holds, Unsent
<1>8. Holds(x, p, 0, s, v)
  <2>1. SUFFICES ASSUME ~waits
                 PROVE  OnlyWaits(p, 0, s, v)
    BY <1>5 DEF Holds
  <2>2. 1 \in 1..Len(p) /\ Waits(p, 0, s, 1) /\ p[1].volume = v
    BY <1>2, <1>3 DEF Waits
  <2>3. ASSUME NEW j \in 1..Len(p), Waits(p, 0, s, j)
        PROVE  j = 1
    BY <1>3, <1>4, <2>1, <2>3 DEF Waits
  <2>4. QED
    BY <2>2, <2>3 DEF OnlyWaits
<1>9. QED
  BY <1>5, <1>6, <1>7, <1>8 DEF x

LEMMA EmptyQueue ==
  /\ SetsFirst(<<>>)
  /\ \A k, r : k \in Nat => NothingWaits(<<>>, k, r)
BY DEF SetsFirst, NothingWaits, Waits

LEMMA UpdateFrame ==
  ASSUME NEW w, IsWorld(w), SetsFirst(w.queue), w.bus # None => w.queue = <<>>,
         NEW s, NEW v
  PROVE  LET x == Update(w, s, v)
         IN  /\ IsWorld(x) /\ SameRoles(x, w) /\ x.bus = w.bus /\ SetsFirst(x.queue)
             /\ x.bus # None => x.queue = <<>>
             /\ \A r \in Streams : r # s => KeepsRole(x, w, r)
             /\ s \in Streams => Holds(x, x.queue, 0, s, v)
<1> DEFINE x == Update(w, s, v)
<1>1. CASE w.bus = None
  <2>1. x = QueueSet(w, s, v)
    BY <1>1 DEF Update
  <2>2. QED
    BY <1>1, <2>1, QueueSetFrame
<1>2. CASE w.bus # None
  <2> DEFINE y == AddEntry(w, s, v)
  <2>1. x = [y EXCEPT !.reordered = @ \ {s}]
    BY <1>2 DEF Update
  <2>2. /\ IsWorld(y) /\ SameRoles(y, w) /\ SameQueue(y, w)
        /\ \A r \in Streams : r # s => SameVolume(y, w, r)
        /\ s \in Streams => (s \notin y.lost => y.level[s] = <<ToPa(v)>>)
    BY AddEntryFrame
  <2> HIDE DEF y, x
  <2>3. /\ IsWorld(x) /\ SameRoles(x, w) /\ SameQueue(x, w)
        /\ \A r \in Streams : r # s => SameVolume(x, w, r)
        /\ x.lost = y.lost /\ x.level = y.level
    BY <2>1, <2>2 DEF IsWorld, Fields, SameRoles, SameQueue, SameVolume
  <2>4. x.queue = <<>> /\ w.queue = <<>> /\ x.bus = w.bus
    BY <1>2, <2>3 DEF SameQueue
  <2>5. \A r \in Streams : r # s => KeepsRole(x, w, r)
    BY <2>3, <2>4, EmptyQueue DEF KeepsRole, Holds, Unsent, SameVolume, OnlyWaits, Waits
  <2>6. s \in Streams => Holds(x, x.queue, 0, s, v)
    BY <2>2, <2>3, <2>4, EmptyQueue DEF Holds
  <2>7. QED
    BY <2>3, <2>4, <2>5, <2>6, EmptyQueue DEF x
<1>3. QED
  BY <1>1, <1>2

\* Nothing changes for any role.
Quiet(x, w) ==
  /\ IsWorld(x) /\ SameRoles(x, w) /\ SameQueue(x, w)
  /\ x.level = w.level /\ x.lost = w.lost /\ x.reordered = w.reordered

-----------------------------------------------------------------------------
(* A key changes, and the roles that follow it see it.                     *)

\* What role r holds after it sees the value v of the key k.
Seen(x, w, r, k, v) ==
  \A i \in DOMAIN Roles[r] :
    x.roles[r].vals[i] = IF Roles[r][i].key = k THEN v ELSE w.roles[r].vals[i]

SameSetting(x, w) ==
  x.bus = w.bus /\ x.known = w.known /\ x.values = w.values /\ x.route = w.route

LEMMA RoleSeesKeeps ==
  ASSUME NEW w, AtRest(w), NEW r \in DOMAIN Roles, NEW k, NEW v
  PROVE  LET x == RoleSees(w, r, k, v)
         IN  /\ AtRest(x) /\ SameSetting(x, w) /\ Seen(x, w, r, k, v)
             /\ \A o \in DOMAIN Roles : o # r => x.roles[o] = w.roles[o]
<1> DEFINE vals   == [i \in DOMAIN Roles[r] |->
                        IF Roles[r][i].key = k THEN v ELSE w.roles[r].vals[i]]
           volume == RoleVolume(Roles[r], vals, w.route)
           role   == [vals |-> vals, volume |-> volume]
           after  == [w EXCEPT !.roles[r] = role, !.rerouted = @ \ {r}]
           x      == RoleSees(w, r, k, v)
           Good   == /\ AtRest(x) /\ SameSetting(x, w) /\ Seen(x, w, r, k, v)
                     /\ \A o \in DOMAIN Roles : o # r => x.roles[o] = w.roles[o]
<1>1. x = IF vals = w.roles[r].vals THEN w
          ELSE IF volume = w.roles[r].volume THEN after
          ELSE Update(after, r, volume)
  BY DEF RoleSees
<1>2. \A i \in DOMAIN Roles[r] :
        vals[i] = IF Roles[r][i].key = k THEN v ELSE w.roles[r].vals[i]
  OBVIOUS
<1>a. IsFunction(vals, DOMAIN Roles[r])
  BY DEF IsFunction
<1>3. ASSUME vals = w.roles[r].vals
      PROVE  Good
  <2>1. x = w
    BY <1>1, <1>3
  <2> HIDE DEF x, vals
  <2>2. QED
    BY <1>2, <1>3, <2>1 DEF SameSetting, Seen
<1> HIDE DEF vals
<1>4. role.vals = vals /\ role.volume = volume /\ DOMAIN role = {"vals", "volume"}
  OBVIOUS
<1> HIDE DEF role, x
<1>5. /\ IsWorld(after) /\ SameSetting(after, w) /\ SetsFirst(after.queue)
      /\ after.queue = w.queue /\ after.level = w.level
      /\ after.lost = w.lost /\ after.reordered = w.reordered
      /\ after.roles[r] = role /\ after.rerouted = w.rerouted \ {r}
      /\ \A o \in DOMAIN Roles : o # r => after.roles[o] = w.roles[o]
  BY <1>a, <1>4 DEF AtRest, IsWorld, Fields, SameSetting
<1> HIDE DEF after
<1>6. \A s, u : Holds(w, w.queue, 0, s, u) => Holds(after, after.queue, 0, s, u)
  BY <1>5 DEF Holds
<1>7. Computed(after, after.queue, 0, r)
  BY <1>4, <1>5 DEF Computed, SameSetting
<1>8. \A o \in DOMAIN Roles : o # r => Computed(after, after.queue, 0, o)
  BY <1>5 DEF Computed, SameSetting, AtRest, Sound, Unsent
<1>9. ASSUME vals # w.roles[r].vals, volume = w.roles[r].volume
      PROVE  Good
  <2>1. x = after
    BY <1>1, <1>9
  <2>2. \A o \in DOMAIN Roles : Holds(after, after.queue, 0, o, after.roles[o].volume)
    BY <1>4, <1>5, <1>6, <1>9 DEF AtRest, Sound
  <2>3. AtRest(after)
    BY <1>5, <1>7, <1>8, <2>2 DEF AtRest, Sound, SameSetting
  <2>4. QED
    BY <1>2, <1>4, <1>5, <2>1, <2>3 DEF Seen
<1>10. ASSUME vals # w.roles[r].vals, volume # w.roles[r].volume
       PROVE  Good
  <2>1. x = Update(after, r, volume)
    BY <1>1, <1>10
  <2>2. after.bus # None => after.queue = <<>>
    BY <1>5 DEF AtRest, SameSetting
  <2>3. r \in Streams /\ DOMAIN Roles \subseteq Streams
    BY StreamRestoreAssumption
  <2> HIDE DEF volume
  <2>4. /\ IsWorld(x) /\ SameRoles(x, after) /\ x.bus = after.bus /\ SetsFirst(x.queue)
        /\ x.bus # None => x.queue = <<>>
        /\ \A o \in Streams : o # r => KeepsRole(x, after, o)
        /\ Holds(x, x.queue, 0, r, volume)
    BY <1>5, <2>1, <2>2, <2>3, UpdateFrame
  <2>5. \A o \in DOMAIN Roles : Holds(x, x.queue, 0, o, x.roles[o].volume)
    <3>1. ASSUME NEW o \in DOMAIN Roles, o # r
          PROVE  Holds(x, x.queue, 0, o, w.roles[o].volume)
      <4>1. Holds(after, after.queue, 0, o, w.roles[o].volume)
        BY <1>6 DEF AtRest, Sound
      <4>2. QED
        BY <2>3, <2>4, <3>1, <4>1 DEF KeepsRole
    <3>2. QED
      BY <1>4, <1>5, <2>4, <3>1 DEF SameRoles
  <2>6. \A o \in DOMAIN Roles : Computed(x, x.queue, 0, o)
    <3>1. Computed(x, x.queue, 0, r)
      BY <1>4, <1>5, <2>4 DEF Computed, SameRoles, SameSetting, volume
    <3>2. ASSUME NEW o \in DOMAIN Roles, o # r
          PROVE  Computed(x, x.queue, 0, o)
      <4>1. Computed(after, after.queue, 0, o)
        BY <1>8, <3>2
      <4>2. Unsent(after, after.queue, 0, o) => Unsent(x, x.queue, 0, o)
        BY <2>3, <2>4, <3>2 DEF KeepsRole
      <4>3. QED
        BY <2>4, <4>1, <4>2 DEF Computed, SameRoles
    <3>3. QED
      BY <3>1, <3>2
  <2>7. AtRest(x)
    BY <2>4, <2>5, <2>6 DEF AtRest, Sound
  <2>8. QED
    BY <1>2, <1>4, <1>5, <2>4, <2>7 DEF Seen, SameRoles, SameSetting
<1>11. Good
  BY <1>3, <1>9, <1>10
<1>12. QED
  BY <1>11 DEF x

-----------------------------------------------------------------------------
(* A key changes for all of the roles.                                     *)

\* What the first m roles of those known saw, and the others did not.
SeenFirst(x, w, k, v, m) ==
  \A r \in DOMAIN Roles :
    /\ (\E j \in 1..m : w.known[j] = r) => Seen(x, w, r, k, v)
    /\ ~(\E j \in 1..m : w.known[j] = r) => x.roles[r] = w.roles[r]

LEMMA KeyChangesKeeps ==
  ASSUME NEW w, AtRest(w), NEW k, NEW v
  PROVE  LET x == KeyChanges(w, k, v)
         IN  /\ AtRest(x) /\ SameSetting(x, w)
             /\ SeenFirst(x, w, k, v, Len(w.known))
<1> DEFINE s == w.known
           n == Len(s)
           g == CHOOSE h : SeenBy(w, s, k, v, Len(s), h)
           P(m) == AtRest(g[m]) /\ SameSetting(g[m], w) /\ SeenFirst(g[m], w, k, v, m)
           T == {m \in Nat : m <= n => P(m)}
<1>0. s \in Seq(DOMAIN Roles) /\ n \in Nat /\ \A i \in 1..n : s[i] \in DOMAIN Roles
  BY DEF AtRest, IsWorld
<1>1. SeenBy(w, s, k, v, Len(s), g)
  BY <1>0, SeenByExists, Zenon
<1>2. KeyChanges(w, k, v) = g[n]
  BY DEF KeyChanges, Through, SeenBy
<1> HIDE DEF g
<1>3. \A m \in 0..n : g[m] = IF m = 0 THEN w ELSE RoleSees(g[m - 1], s[m], k, v)
  BY <1>1 DEF SeenBy
<1>4. 0 \in T
  <2>1. g[0] = w
    BY <1>0, <1>3
  <2>2. QED
    BY <2>1 DEF SameSetting, SeenFirst
<1> HIDE DEF s, n
<1>5. ASSUME NEW m \in Nat, m \in T
      PROVE  m + 1 \in T
  <2>1. SUFFICES ASSUME m + 1 <= n
                 PROVE  P(m + 1)
    OBVIOUS
  <2>2. P(m) /\ s[m + 1] \in DOMAIN Roles /\ m + 1 \in 1..n
    BY <1>0, <1>5, <2>1
  <2>3. g[m + 1] = RoleSees(g[m], s[m + 1], k, v)
    BY <1>0, <1>3, <2>2
  <2> DEFINE y == g[m]
             x == g[m + 1]
             r == s[m + 1]
  <2>4. /\ AtRest(x) /\ SameSetting(x, y) /\ Seen(x, y, r, k, v)
        /\ \A o \in DOMAIN Roles : o # r => x.roles[o] = y.roles[o]
    BY <2>2, <2>3, RoleSeesKeeps
  <2> HIDE DEF x, y
  <2>5. \A o : (\E j \in 1..(m + 1) : s[j] = o) <=> (o = r \/ \E j \in 1..m : s[j] = o)
    BY <2>2
  <2>6. SeenFirst(y, w, k, v, m) /\ r \in DOMAIN Roles
    BY <2>2 DEF y
  <2> HIDE DEF r
  <2>7. Seen(x, w, r, k, v)
    BY <2>4, <2>6 DEF Seen, SeenFirst, s
  <2>8. \A o \in DOMAIN Roles : o # r /\ Seen(y, w, o, k, v) => Seen(x, w, o, k, v)
    BY <2>4 DEF Seen
  <2>9. SeenFirst(x, w, k, v, m + 1)
    BY <2>4, <2>5, <2>6, <2>7, <2>8 DEF SeenFirst, s
  <2>10. SameSetting(x, w)
    BY <2>2, <2>4 DEF SameSetting, y
  <2>11. QED
    BY <2>4, <2>9, <2>10 DEF x
<1>6. Nat \subseteq T
  <2> HIDE DEF T
  <2>1. QED
    BY <1>4, <1>5, SetInduction
<1>7. P(n)
  <2>1. n \in T
    BY <1>0, <1>6
  <2>2. QED
    BY <1>0, <2>1
<1>8. QED
  BY <1>2, <1>7 DEF n, s

\* Between two calls, and each role holds what it saw.
InRest(w) == AtRest(w) /\ \A r \in DOMAIN Roles : SawSome(w, r)

\* The connection and the route are as before, and roles that saw everything
\* still do.
Moves(x, w) ==
  /\ x.bus = w.bus /\ x.known = w.known /\ x.route = w.route
  /\ (Range(w.known) = DOMAIN Roles /\ \A r \in DOMAIN Roles : SawAll(w, r))
       => \A r \in DOMAIN Roles : SawAll(x, r)

LEMMA KnownAre ==
  ASSUME NEW w, IsWorld(w), NEW r
  PROVE  r \in Range(w.known) <=> \E j \in 1..Len(w.known) : w.known[j] = r
BY DEF IsWorld, Range

LEMMA SetContextKeeps ==
  ASSUME NEW w, InRest(w), NEW k, NEW v
  PROVE  InRest(SetContext(w, k, v)) /\ Moves(SetContext(w, k, v), w)
<1> DEFINE values == [y \in DOMAIN w.values \cup {k} |-> IF y = k THEN v ELSE w.values[y]]
           u == [w EXCEPT !.values = values]
           x == KeyChanges(u, k, v)
<1>1. SetContext(w, k, v) = x
  BY DEF SetContext
<1>2. /\ DOMAIN values = DOMAIN w.values \cup {k} /\ values[k] = v
      /\ \A y \in DOMAIN w.values : y # k => values[y] = w.values[y]
  OBVIOUS
<1> HIDE DEF values
<1>3. /\ AtRest(u) /\ u.values = values /\ u.roles = w.roles
      /\ u.bus = w.bus /\ u.known = w.known /\ u.route = w.route
  <2>1. /\ IsWorld(u) /\ SameQueue(u, w) /\ u.level = w.level /\ u.lost = w.lost
        /\ u.reordered = w.reordered /\ u.rerouted = w.rerouted
        /\ u.values = values /\ u.roles = w.roles /\ u.known = w.known /\ u.route = w.route
    BY DEF InRest, AtRest, IsWorld, Fields, SameQueue
  <2> HIDE DEF u
  <2>2. Sound(u, u.queue, 0)
    BY <2>1 DEF InRest, AtRest, Sound, Holds, Computed, Unsent, SameQueue
  <2>3. QED
    BY <2>1, <2>2 DEF InRest, AtRest, SameQueue
<1> HIDE DEF u
<1>4. AtRest(x) /\ SameSetting(x, u) /\ SeenFirst(x, u, k, v, Len(u.known))
  BY <1>3, KeyChangesKeeps
<1> HIDE DEF x
<1>5. \A r \in DOMAIN Roles :
        /\ r \in Range(w.known) => Seen(x, w, r, k, v)
        /\ r \notin Range(w.known) => x.roles[r] = w.roles[r]
  BY <1>3, <1>4, KnownAre DEF SeenFirst, Seen, InRest, AtRest
<1>6. x.values = values /\ x.known = w.known /\ x.bus = w.bus /\ x.route = w.route
  BY <1>3, <1>4 DEF SameSetting
<1>7. ASSUME NEW r \in DOMAIN Roles, NEW i \in DOMAIN Roles[r], r \in Range(w.known)
      PROVE  /\ x.roles[r].vals[i] = IF Roles[r][i].key = k THEN v ELSE w.roles[r].vals[i]
             /\ Roles[r][i].key = k => Saw(x, r, i)
             /\ Saw(w, r, i) => Saw(x, r, i)
  BY <1>2, <1>5, <1>6, <1>7 DEF Seen, Saw
<1>8. ASSUME NEW r \in DOMAIN Roles
      PROVE  SawSome(x, r)
  <2>1. SawSome(w, r)
    BY DEF InRest
  <2>2. CASE r \in Range(w.known)
    BY <1>6, <1>7, <2>1, <2>2 DEF SawSome
  <2>3. CASE r \notin Range(w.known)
    BY <1>5, <1>6, <2>1, <2>3 DEF SawSome
  <2>4. QED
    BY <2>2, <2>3
<1>9. ASSUME Range(w.known) = DOMAIN Roles, NEW r \in DOMAIN Roles, SawAll(w, r)
      PROVE  SawAll(x, r)
  <2>1. SUFFICES ASSUME NEW i \in DOMAIN Roles[r], Roles[r][i].key # k, ~Saw(w, r, i)
                 PROVE  Roles[r][i].key \notin DOMAIN x.values /\ x.roles[r].vals[i] = 0
    BY <1>7, <1>9 DEF SawAll
  <2>2. Roles[r][i].key \notin DOMAIN w.values /\ w.roles[r].vals[i] = 0
    BY <1>9, <2>1 DEF SawAll
  <2>3. QED
    BY <1>2, <1>6, <1>7, <1>9, <2>1, <2>2
<1>10. QED
  BY <1>1, <1>4, <1>6, <1>8, <1>9 DEF InRest, Moves

LEMMA QuietKeeps ==
  ASSUME NEW w, InRest(w), NEW x, Quiet(x, w)
  PROVE  InRest(x) /\ Moves(x, w)
<1>1. /\ IsWorld(x) /\ x.queue = w.queue /\ x.bus = w.bus /\ x.level = w.level
      /\ x.lost = w.lost /\ x.reordered = w.reordered /\ x.rerouted = w.rerouted
      /\ x.roles = w.roles /\ x.known = w.known /\ x.values = w.values /\ x.route = w.route
  BY DEF Quiet, SameRoles, SameQueue
<1>2. AtRest(x)
  BY <1>1 DEF InRest, AtRest, Sound, Holds, Computed, Unsent
<1>3. \A r \in DOMAIN Roles : (SawSome(w, r) => SawSome(x, r)) /\ (SawAll(w, r) => SawAll(x, r))
  BY <1>1 DEF SawSome, SawAll, Saw
<1>4. QED
  BY <1>1, <1>2, <1>3 DEF InRest, Moves

LEMMA OtherUpdateKeeps ==
  ASSUME NEW w, InRest(w), NEW s, s \notin DOMAIN Roles, NEW v
  PROVE  InRest(Update(w, s, v)) /\ Moves(Update(w, s, v), w)
<1> DEFINE x == Update(w, s, v)
<1>1. /\ IsWorld(x) /\ SameRoles(x, w) /\ x.bus = w.bus /\ SetsFirst(x.queue)
      /\ x.bus # None => x.queue = <<>>
      /\ \A r \in Streams : r # s => KeepsRole(x, w, r)
  BY UpdateFrame DEF InRest, AtRest
<1> HIDE DEF x
<1>2. \A r \in DOMAIN Roles : KeepsRole(x, w, r)
  BY <1>1, StreamRestoreAssumption
<1>3. Sound(x, x.queue, 0)
  BY <1>1, <1>2 DEF InRest, AtRest, Sound, KeepsRole, Computed, SameRoles
<1>4. \A r \in DOMAIN Roles : (SawSome(w, r) => SawSome(x, r)) /\ (SawAll(w, r) => SawAll(x, r))
  BY <1>1 DEF SawSome, SawAll, Saw, SameRoles
<1>5. QED
  BY <1>1, <1>3, <1>4 DEF InRest, AtRest, Moves, SameRoles, x

-----------------------------------------------------------------------------
(* Transforms.                                                             *)

LEMMA TransformOfIs ==
  ASSUME NEW s \in Subscribed
  PROVE  TransformOf(s) \in Transforms /\ TransformOf(s).src = s
BY DEF TransformOf, Subscribed

LEMMA VolumeChangedKeeps ==
  ASSUME RolesAreOwn, NEW w, InRest(w), NEW s \in Subscribed, NEW v
  PROVE  InRest(VolumeChanged(w, s, v)) /\ Moves(VolumeChanged(w, s, v), w)
<1> DEFINE t == TransformOf(s)
<1>1. t \in Transforms
  BY TransformOfIs
<1>2. CASE t.toContext
  BY <1>2, SetContextKeeps DEF VolumeChanged
<1>3. CASE ~t.toContext
  <2>1. t.dst \notin DOMAIN Roles
    BY <1>1, <1>3 DEF RolesAreOwn
  <2>2. QED
    BY <1>3, <2>1, OtherUpdateKeeps DEF VolumeChanged
<1>4. QED
  BY <1>2, <1>3

LEMMA HeardQuiet ==
  ASSUME NEW w, IsWorld(w), NEW s, NEW c
  PROVE  Quiet(Heard(w, s, c), w)
BY DEF Heard, Quiet, IsWorld, Fields, SameRoles, SameQueue

LEMMA ItemIsSubscribed ==
  ASSUME NEW w, IsWorld(w), NEW p, ItemAt(w, p) # None
  PROVE  ItemAt(w, p) \in Subscribed
BY DEF ItemAt, IsWorld

LEMMA MovesOn ==
  ASSUME NEW w, NEW y, NEW x, Moves(y, w), Moves(x, y)
  PROVE  Moves(x, w)
BY DEF Moves

LEMMA GetEntryVolumeKeeps ==
  ASSUME RolesAreOwn, NEW w, InRest(w), NEW s
  PROVE  InRest(GetEntryVolume(w, s)) /\ Moves(GetEntryVolume(w, s), w)
<1> DEFINE p    == ObjectPath(w, s)
           item == ItemAt(w, p)
           y    == Heard(w, item, w.level[s])
           v    == FromPa(Queried(w.level[s]))
<1>1. CASE p = NoPath \/ item = None
  <2>1. GetEntryVolume(w, s) = w
    BY <1>1 DEF GetEntryVolume
  <2>2. QED
    BY <2>1 DEF Moves
<1>2. CASE ~(p = NoPath \/ item = None)
  <2>1. GetEntryVolume(w, s) = VolumeChanged(y, item, v)
    BY <1>2 DEF GetEntryVolume
  <2>2. item \in Subscribed
    BY <1>2, ItemIsSubscribed DEF InRest, AtRest
  <2> HIDE DEF item, v
  <2>3. InRest(y) /\ Moves(y, w)
    BY HeardQuiet, QuietKeeps DEF InRest, AtRest
  <2> HIDE DEF y
  <2>4. InRest(VolumeChanged(y, item, v)) /\ Moves(VolumeChanged(y, item, v), y)
    BY <2>2, <2>3, VolumeChangedKeeps
  <2>5. QED
    BY <2>1, <2>3, <2>4, MovesOn
<1>3. QED
  BY <1>1, <1>2

-----------------------------------------------------------------------------
(* Calls that change nothing for the roles.                                *)

LEMMA UpdateObjectMapQuiet ==
  ASSUME NEW w, IsWorld(w)
  PROVE  Quiet(UpdateObjectMap(w), w)
<1> DEFINE items == [s \in DOMAIN w.items |->
                       IF w.items[s] = NoPath THEN ObjectPath(w, s) ELSE w.items[s]]
           known == {s \in DOMAIN items : items[s] # NoPath}
           map   == {<<items[s], s>> : s \in known}
           paths == IF Alive(w) THEN {items[s] : s \in known} ELSE w.heeded.paths
           x     == [w EXCEPT !.items = items, !.objectMap = map, !.freedKeys = FALSE,
                              !.complete = known = DOMAIN items, !.heeded.paths = paths]
<1>1. UpdateObjectMap(w) = IF w.bus = None THEN w ELSE x
  BY DEF UpdateObjectMap
<1>2. Quiet(w, w)
  BY DEF Quiet, SameRoles, SameQueue
<1>3. DOMAIN items \subseteq Subscribed
  BY DEF IsWorld
<1> HIDE DEF items
<1>4. \A m \in map : m[2] \in Subscribed
  <2>1. known \subseteq Subscribed
    BY <1>3
  <2> HIDE DEF known
  <2>2. QED
    BY <2>1
<1> HIDE DEF map, known, paths
<1>5. Quiet(x, w)
  BY <1>3, <1>4 DEF Quiet, IsWorld, Fields, SameRoles, SameQueue
<1>6. QED
  BY <1>1, <1>2, <1>5

LEMMA QuietQuiet ==
  ASSUME NEW w, NEW y, NEW x, Quiet(y, w), Quiet(x, y)
  PROVE  Quiet(x, w)
BY DEF Quiet, SameRoles, SameQueue

LEMMA ListenQuiet ==
  ASSUME NEW w, IsWorld(w)
  PROVE  Quiet(ListenForEntries(w), w)
BY DEF ListenForEntries, Quiet, IsWorld, Fields, SameRoles, SameQueue

LEMMA SubscribeQuiet ==
  ASSUME NEW w, IsWorld(w), NEW s \in Subscribed
  PROVE  Quiet(Subscribe(w, s), w)
<1> DEFINE items == [x \in DOMAIN w.items \cup {s} |-> IF x = s THEN NoPath ELSE w.items[x]]
           added == [w EXCEPT !.items = items]
           asked == [added EXCEPT !.queueSubscribe = TRUE]
           first == DOMAIN w.items = {}
           heard == IF first THEN ListenForEntries(added) ELSE added
<1>1. Subscribe(w, s) = IF w.bus = None THEN asked ELSE UpdateObjectMap(heard)
  BY DEF Subscribe
<1>2. DOMAIN items \subseteq Subscribed
  BY DEF IsWorld
<1> HIDE DEF items
<1>3. Quiet(added, w) /\ Quiet(asked, w)
  BY <1>2 DEF Quiet, IsWorld, Fields, SameRoles, SameQueue
<1> HIDE DEF added, asked
<1>4. Quiet(heard, w)
  BY <1>3, ListenQuiet, QuietQuiet DEF Quiet
<1> HIDE DEF heard
<1>5. Quiet(UpdateObjectMap(heard), w)
  BY <1>4, UpdateObjectMapQuiet, QuietQuiet DEF Quiet
<1>6. QED
  BY <1>1, <1>3, <1>5

LEMMA EntryAppearsQuiet ==
  ASSUME NEW w, IsWorld(w), NEW p
  PROVE  Quiet(EntryAppears(w, p), w)
<1> DEFINE s == ObjectName(w, p)
           y == [w EXCEPT !.items[s] = p]
<1>1. Quiet(w, w)
  BY DEF Quiet, SameRoles, SameQueue
<1>2. Quiet(y, w)
  <2> HIDE DEF s
  <2>1. QED
    BY DEF Quiet, IsWorld, Fields, SameRoles, SameQueue
<1>3. EntryAppears(w, p) \in {w, UpdateObjectMap(y)}
  BY DEF EntryAppears
<1> HIDE DEF y
<1>4. Quiet(UpdateObjectMap(y), w)
  BY <1>2, UpdateObjectMapQuiet, QuietQuiet DEF Quiet
<1>5. QED
  BY <1>1, <1>3, <1>4

LEMMA EntryDisappearsQuiet ==
  ASSUME NEW w, IsWorld(w), NEW p
  PROVE  Quiet(EntryDisappears(w, p), w)
<1> DEFINE s == ItemAt(w, p)
           y == [w EXCEPT !.items[s] = NoPath]
<1>1. Quiet(w, w)
  BY DEF Quiet, SameRoles, SameQueue
<1>2. Quiet(y, w)
  <2> HIDE DEF s
  <2>1. QED
    BY DEF Quiet, IsWorld, Fields, SameRoles, SameQueue
<1>3. EntryDisappears(w, p) \in {w, UpdateObjectMap(y)}
  BY DEF EntryDisappears
<1> HIDE DEF y
<1>4. Quiet(UpdateObjectMap(y), w)
  BY <1>2, UpdateObjectMapQuiet, QuietQuiet DEF Quiet
<1>5. QED
  BY <1>1, <1>3, <1>4

\* A get waits behind all else.
LEMMA QueueGetKeeps ==
  ASSUME NEW w, InRest(w), w.bus = None, NEW s
  PROVE  InRest(QueueGet(w, s)) /\ Moves(QueueGet(w, s), w)
<1> DEFINE e == [op |-> "get", stream |-> s, volume |-> 0]
           p == Append(w.queue, e)
           n == Len(w.queue)
           x == QueueGet(w, s)
<1>1. x = [w EXCEPT !.queue = p]
  BY DEF QueueGet
<1>2. e.op = "get"
  OBVIOUS
<1>3. IsList(w.queue)
  BY DEF InRest, AtRest, IsWorld
<1> HIDE DEF e, n
<1>4. LongerBehind(p, e, w.queue)
  BY <1>3, Behind
<1> HIDE DEF p, x
<1>5. /\ IsList(p) /\ Len(p) = n + 1 /\ n \in Nat /\ p[n + 1] = e
      /\ \A i \in 1..n : p[i] = w.queue[i]
  BY <1>4 DEF n, LongerBehind
<1>6. /\ IsWorld(x) /\ SameRoles(x, w) /\ x.bus = w.bus /\ x.queue = p
      /\ x.level = w.level /\ x.lost = w.lost /\ x.reordered = w.reordered
  BY <1>1, <1>5 DEF InRest, AtRest, IsWorld, Fields, SameRoles
<1>7. SetsFirst(p)
  <2>1. SUFFICES ASSUME NEW i \in 1..Len(p), NEW j \in 1..Len(p), i < j, p[j].op = "set"
                 PROVE  p[i].op = "set"
    BY DEF SetsFirst
  <2>2. j # n + 1
    BY <1>2, <1>5, <2>1
  <2>3. i \in 1..n /\ j \in 1..n
    BY <1>5, <2>1, <2>2
  <2>4. QED
    BY <1>5, <2>1, <2>3 DEF SetsFirst, InRest, AtRest, n
<1>8. \A r : \A i \in 1..(n + 1) : Waits(p, 0, r, i) <=> (i \in 1..n /\ Waits(w.queue, 0, r, i))
  <2>1. ASSUME NEW r, NEW i \in 1..(n + 1)
        PROVE  Waits(p, 0, r, i) <=> (i \in 1..n /\ Waits(w.queue, 0, r, i))
    <3>1. CASE i = n + 1
      BY <1>2, <1>5, <3>1 DEF Waits
    <3>2. CASE i # n + 1
      BY <1>5, <3>2 DEF Waits, n
    <3>3. QED
      BY <3>1, <3>2
  <2>2. QED
    BY <2>1
<1>9. \A i \in 1..n : i \in 1..(n + 1)
  BY <1>5
<1>10. ASSUME NEW r, NEW u
       PROVE  /\ NothingWaits(w.queue, 0, r) => NothingWaits(p, 0, r)
              /\ OnlyWaits(w.queue, 0, r, u) => OnlyWaits(p, 0, r, u)
  <2>1. NothingWaits(w.queue, 0, r) => NothingWaits(p, 0, r)
    BY <1>5, <1>8 DEF NothingWaits, n
  <2>2. ASSUME NEW i \in 1..n, Waits(w.queue, 0, r, i), w.queue[i].volume = u,
               \A j \in 1..n : Waits(w.queue, 0, r, j) => j = i
        PROVE  OnlyWaits(p, 0, r, u)
    <3>1. i \in 1..Len(p) /\ Waits(p, 0, r, i) /\ p[i].volume = u
      BY <1>5, <1>8, <1>9, <2>2
    <3>2. \A j \in 1..Len(p) : Waits(p, 0, r, j) => j = i
      BY <1>5, <1>8, <2>2
    <3>3. QED
      BY <3>1, <3>2 DEF OnlyWaits
  <2>3. QED
    BY <2>1, <2>2 DEF OnlyWaits, n
<1>11. Sound(x, p, 0)
  BY <1>6, <1>10 DEF InRest, AtRest, Sound, Holds, Computed, Unsent, SameRoles
<1>12. \A r \in DOMAIN Roles : (SawSome(w, r) => SawSome(x, r)) /\ (SawAll(w, r) => SawAll(x, r))
  BY <1>6 DEF SawSome, SawAll, Saw, SameRoles
<1>13. QED
  BY <1>6, <1>7, <1>11, <1>12 DEF InRest, AtRest, Moves, SameRoles, x

-----------------------------------------------------------------------------
(* What waited is done.                                                    *)

\* In the middle of process_queued_ops: the first k of what waited are done.
Serving(w, q, k) ==
  /\ IsWorld(w) /\ w.bus \in {"up", "dead"} /\ w.queue = <<>>
  /\ Sound(w, q, k)
  /\ \A r \in DOMAIN Roles : SawSome(w, r)

\* Nothing more waits for a role, so that it is as between two calls.
LEMMA NoneLeft ==
  ASSUME NEW w, IsWorld(w), w.bus # None, w.queue = <<>>, NEW q, NEW k,
         \A r : NothingWaits(q, k, r)
  PROVE  Sound(w, q, k) <=> Sound(w, <<>>, 0)
<1>1. \A r, v : ~OnlyWaits(q, k, r, v) /\ ~OnlyWaits(<<>>, 0, r, v)
  BY EmptyQueue DEF OnlyWaits, NothingWaits
<1>2. \A r : NothingWaits(<<>>, 0, r)
  BY EmptyQueue
<1>3. QED
  BY <1>1, <1>2 DEF Sound, Holds, Computed, Unsent

\* What waits behind one more is what waited, but for that one.
LEMMA OneLess ==
  ASSUME NEW q, NEW k \in Nat, k + 1 <= Len(q), Len(q) \in Nat, NEW r
  PROVE  /\ NothingWaits(q, k, r) => NothingWaits(q, k + 1, r)
         /\ \A v : OnlyWaits(q, k, r, v) /\ ~Waits(q, k, r, k + 1) => OnlyWaits(q, k + 1, r, v)
         /\ \A v : OnlyWaits(q, k, r, v) /\ Waits(q, k, r, k + 1)
                     => q[k + 1].volume = v /\ NothingWaits(q, k + 1, r)
<1> DEFINE n == Len(q)
<1>1. \A i : i \in (k + 2)..n <=> i \in (k + 1)..n /\ i # k + 1
  OBVIOUS
<1>2. \A i : Waits(q, k + 1, r, i) <=> Waits(q, k, r, i) /\ i # k + 1
  BY <1>1 DEF Waits
<1>3. NothingWaits(q, k, r) => NothingWaits(q, k + 1, r)
  BY <1>1, <1>2 DEF NothingWaits
<1>4. ASSUME NEW v, NEW i \in (k + 1)..n, Waits(q, k, r, i), q[i].volume = v,
             \A j \in (k + 1)..n : Waits(q, k, r, j) => j = i
      PROVE  /\ ~Waits(q, k, r, k + 1) => OnlyWaits(q, k + 1, r, v)
             /\ Waits(q, k, r, k + 1) => q[k + 1].volume = v /\ NothingWaits(q, k + 1, r)
  <2>1. ASSUME ~Waits(q, k, r, k + 1)
        PROVE  OnlyWaits(q, k + 1, r, v)
    <3>1. i \in (k + 2)..n /\ Waits(q, k + 1, r, i)
      BY <1>1, <1>2, <1>4, <2>1
    <3>2. \A j \in (k + 2)..n : Waits(q, k + 1, r, j) => j = i
      BY <1>1, <1>2, <1>4
    <3>3. (k + 1) + 1 = k + 2
      OBVIOUS
    <3>4. QED
      BY <1>4, <3>1, <3>2, <3>3 DEF OnlyWaits
  <2>2. ASSUME Waits(q, k, r, k + 1)
        PROVE  q[k + 1].volume = v /\ NothingWaits(q, k + 1, r)
    <3>1. k + 1 = i
      BY <1>4, <2>2
    <3>2. \A j : Waits(q, k, r, j) => j \in (k + 1)..n
      BY DEF Waits
    <3>3. QED
      BY <1>2, <1>4, <3>1, <3>2 DEF NothingWaits
  <2>3. QED
    BY <2>1, <2>2
<1>5. QED
  BY <1>3, <1>4 DEF OnlyWaits

LEMMA SetServed ==
  ASSUME NEW w, NEW q, NEW k \in Nat, Serving(w, q, k), k + 1 <= Len(q), Len(q) \in Nat,
         q[k + 1].op = "set"
  PROVE  /\ Serving(AddEntry(w, q[k + 1].stream, q[k + 1].volume), q, k + 1)
         /\ Moves(AddEntry(w, q[k + 1].stream, q[k + 1].volume), w)
<1> DEFINE s == q[k + 1].stream
           v == q[k + 1].volume
           x == AddEntry(w, s, v)
<1>1. /\ IsWorld(x) /\ SameRoles(x, w) /\ SameQueue(x, w)
      /\ \A r \in Streams : r # s => SameVolume(x, w, r)
      /\ x.reordered = w.reordered
      /\ s \in Streams => (s \notin x.lost => x.level[s] = <<ToPa(v)>>)
  BY AddEntryFrame DEF Serving
<1> HIDE DEF x
<1>2. \A r : Waits(q, k, r, k + 1) <=> r = s
  BY DEF Waits
<1>3. DOMAIN Roles \subseteq Streams
  BY StreamRestoreAssumption
<1>4. ASSUME NEW r \in DOMAIN Roles, NEW u, Holds(w, q, k, r, u)
      PROVE  Holds(x, q, k + 1, r, u)
  <2>1. CASE r # s
    <3>1. SameVolume(x, w, r) /\ ~Waits(q, k, r, k + 1)
      BY <1>1, <1>2, <1>3, <2>1
    <3>2. /\ NothingWaits(q, k, r) => NothingWaits(q, k + 1, r)
          /\ OnlyWaits(q, k, r, u) => OnlyWaits(q, k + 1, r, u)
      BY <3>1, OneLess
    <3>3. QED
      BY <1>4, <3>1, <3>2 DEF Holds, SameVolume
  <2>2. CASE r = s
    <3>1. Waits(q, k, r, k + 1) /\ ~NothingWaits(q, k, r)
      BY <1>2, <2>2 DEF NothingWaits, Waits
    <3>2. r \notin w.reordered => u = v /\ NothingWaits(q, k + 1, r)
      BY <1>4, <3>1, OneLess DEF Holds
    <3>3. r \notin x.lost => x.level[r] = <<ToPa(v)>>
      BY <1>1, <1>3, <2>2
    <3>4. QED
      BY <1>1, <3>2, <3>3 DEF Holds
  <2>3. QED
    BY <2>1, <2>2
<1>5. ASSUME NEW r \in DOMAIN Roles, Unsent(w, q, k, r)
      PROVE  Unsent(x, q, k + 1, r)
  <2>1. r # s
    BY <1>2, <1>5 DEF Unsent, NothingWaits, Waits
  <2>2. SameVolume(x, w, r)
    BY <1>1, <1>3, <2>1
  <2>3. QED
    BY <1>5, <2>2, OneLess DEF Unsent, SameVolume
<1>6. Sound(x, q, k + 1)
  BY <1>1, <1>4, <1>5 DEF Serving, Sound, Computed, SameRoles
<1>7. \A r \in DOMAIN Roles : (SawSome(w, r) => SawSome(x, r)) /\ (SawAll(w, r) => SawAll(x, r))
  BY <1>1 DEF SawSome, SawAll, Saw, SameRoles
<1>8. Serving(x, q, k + 1) /\ Moves(x, w)
  BY <1>1, <1>6, <1>7 DEF Serving, Moves, SameRoles, SameQueue
<1>9. QED
  BY <1>8 DEF x

LEMMA GetServed ==
  ASSUME RolesAreOwn, NEW w, NEW q, NEW k \in Nat, Serving(w, q, k),
         k + 1 <= Len(q), Len(q) \in Nat, SetsFirst(q), q[k + 1].op # "set", NEW s
  PROVE  Serving(GetEntryVolume(w, s), q, k + 1) /\ Moves(GetEntryVolume(w, s), w)
<1> DEFINE x == GetEntryVolume(w, s)
<1>1. \A i \in (k + 1)..Len(q) : q[i].op # "set"
  <2>1. ASSUME NEW i \in (k + 1)..Len(q), q[i].op = "set"
        PROVE  FALSE
    <3>1. i # k + 1 /\ k + 1 < i /\ i \in 1..Len(q) /\ k + 1 \in 1..Len(q)
      BY <2>1
    <3>2. QED
      BY <2>1, <3>1 DEF SetsFirst
  <2>2. QED
    BY <2>1
<1>2. \A r : NothingWaits(q, k, r)
  BY <1>1 DEF NothingWaits, Waits
<1>3. \A r : NothingWaits(q, k + 1, r)
  BY <1>2, OneLess
<1>4. w.bus # None
  BY DEF Serving, None
<1>5. InRest(w)
  BY <1>2, <1>4, NoneLeft, EmptyQueue DEF Serving, InRest, AtRest
<1>6. InRest(x) /\ Moves(x, w)
  BY <1>5, GetEntryVolumeKeeps
<1> HIDE DEF x
<1>7. x.bus = w.bus /\ x.queue = <<>> /\ IsWorld(x) /\ Sound(x, <<>>, 0)
  BY <1>4, <1>6 DEF InRest, AtRest, Moves
<1>8. Sound(x, q, k + 1)
  BY <1>3, <1>4, <1>7, NoneLeft
<1>9. QED
  BY <1>6, <1>7, <1>8 DEF Serving, InRest, x

LEMMA DieKeeps ==
  ASSUME NEW w, NEW q, NEW k, Serving(w, q, k)
  PROVE  /\ Serving(Die(w), q, k) /\ Die(w).bus = "dead"
         /\ Die(w).known = w.known /\ Die(w).route = w.route
         /\ \A r \in DOMAIN Roles : SawAll(w, r) => SawAll(Die(w), r)
<1> DEFINE x == Die(w)
<1>1. x = [w EXCEPT !.bus = IF w.bus = "up" THEN "dead" ELSE w.bus]
  BY DEF Die
<1> HIDE DEF x
<1>2. /\ IsWorld(x) /\ SameRoles(x, w) /\ x.bus = "dead" /\ x.queue = <<>>
      /\ x.level = w.level /\ x.lost = w.lost /\ x.reordered = w.reordered
  BY <1>1 DEF Serving, IsWorld, Fields, SameRoles
<1>3. Sound(x, q, k)
  BY <1>2 DEF Serving, Sound, Holds, Computed, Unsent, SameRoles
<1>4. \A r \in DOMAIN Roles : (SawSome(w, r) => SawSome(x, r)) /\ (SawAll(w, r) => SawAll(x, r))
  BY <1>2 DEF SawSome, SawAll, Saw, SameRoles
<1>5. QED
  BY <1>2, <1>3, <1>4 DEF Serving, SameRoles, x

\* What is kept by all that was done since w.
Since(x, w) ==
  /\ x.known = w.known /\ x.route = w.route
  /\ (Range(w.known) = DOMAIN Roles /\ \A r \in DOMAIN Roles : SawAll(w, r))
       => \A r \in DOMAIN Roles : SawAll(x, r)

LEMMA ServeNextKeeps ==
  ASSUME RolesAreOwn, NEW w, NEW q, NEW k \in Nat, Serving(w, q, k),
         k + 1 <= Len(q), Len(q) \in Nat, SetsFirst(q), NEW dying
  PROVE  LET x == ServeNext(w, q, dying, k + 1)
         IN  /\ Serving(x, q, k + 1) /\ Since(x, w)
             /\ x.bus = IF k + 1 = dying THEN "dead" ELSE w.bus
<1> DEFINE y == IF k + 1 = dying THEN Die(w) ELSE w
           o == q[k + 1]
           x == ServeNext(w, q, dying, k + 1)
<1>1. x = IF o.op = "set" THEN AddEntry(y, o.stream, o.volume) ELSE GetEntryVolume(y, o.stream)
  BY DEF ServeNext, RunOp
<1>2. /\ Serving(y, q, k) /\ Since(y, w)
      /\ y.bus = IF k + 1 = dying THEN "dead" ELSE w.bus
  BY DieKeeps DEF Since
<1> HIDE DEF y, x
<1>3. Serving(x, q, k + 1) /\ Moves(x, y)
  BY <1>1, <1>2, SetServed, GetServed
<1>4. QED
  BY <1>2, <1>3 DEF Since, Moves, x

LEMMA ProcessQueuedOpsKeeps ==
  ASSUME RolesAreOwn, NEW w, InRest(w), w.bus = None, NEW dying \in Nat
  PROVE  LET x == ProcessQueuedOps(w, dying)
         IN  /\ InRest(x) /\ Since(x, w)
             /\ x.bus = IF dying \in 0..Len(w.queue) THEN "dead" ELSE "up"
<1> DEFINE q     == w.queue
           open  == [w EXCEPT !.bus = "up", !.queue = <<>>, !.queueSubscribe = FALSE,
                              !.signals = <<>>]
           start == IF dying = 0 THEN Die(open) ELSE open
           tuned == IF w.queueSubscribe THEN UpdateObjectMap(ListenForEntries(start))
                                        ELSE start
           s == [i \in DOMAIN q |-> i]
           n == Len(q)
           g == CHOOSE h : ServedOf(tuned, s, q, dying, Len(s), h)
           B(m) == IF dying \in 0..m THEN "dead" ELSE "up"
           P(m) == Serving(g[m], q, m) /\ Since(g[m], w) /\ g[m].bus = B(m)
           T == {m \in Nat : m <= n => P(m)}
<1>0. n \in Nat /\ DOMAIN q = 1..n /\ SetsFirst(q)
  BY DEF InRest, AtRest, IsWorld, IsList
<1>1. Len(s) = n /\ \A i \in 1..n : s[i] = i
  BY <1>0
<1>2. Serving(open, q, 0) /\ Since(open, w) /\ open.bus = "up"
  <2>1. /\ IsWorld(open) /\ SameRoles(open, w) /\ open.bus = "up" /\ open.queue = <<>>
        /\ open.level = w.level /\ open.lost = w.lost /\ open.reordered = w.reordered
    <3>1. IsList(<<>>)
      BY DEF IsList
    <3>2. QED
      BY <3>1 DEF InRest, AtRest, IsWorld, Fields, SameRoles
  <2> HIDE DEF open
  <2>2. Sound(open, q, 0)
    BY <2>1 DEF InRest, AtRest, Sound, Holds, Computed, Unsent, SameRoles
  <2>3. \A r \in DOMAIN Roles : (SawSome(w, r) => SawSome(open, r)) /\ (SawAll(w, r) => SawAll(open, r))
    BY <2>1 DEF SawSome, SawAll, Saw, SameRoles
  <2>4. QED
    BY <2>1, <2>2, <2>3 DEF Serving, Since, SameRoles, InRest
<1> HIDE DEF open
<1>3. Serving(start, q, 0) /\ Since(start, w) /\ start.bus = B(0)
  <2>1. CASE dying = 0
    <3>1. start = Die(open)
      BY <2>1
    <3> HIDE DEF start
    <3>2. /\ Serving(start, q, 0) /\ start.bus = "dead"
          /\ start.known = open.known /\ start.route = open.route
          /\ \A r \in DOMAIN Roles : SawAll(open, r) => SawAll(start, r)
      BY <1>2, <3>1, DieKeeps
    <3>3. QED
      BY <1>2, <2>1, <3>2 DEF Since
  <2>2. CASE dying # 0
    BY <1>2, <2>2
  <2>3. QED
    BY <2>1, <2>2
<1> HIDE DEF start
<1>4. Serving(tuned, q, 0) /\ Since(tuned, w) /\ tuned.bus = B(0)
  <2>1. Quiet(tuned, start)
    <3>1. Quiet(start, start)
      BY <1>3 DEF Quiet, SameRoles, SameQueue, Serving
    <3>2. Quiet(UpdateObjectMap(ListenForEntries(start)), start)
      BY <1>3, ListenQuiet, UpdateObjectMapQuiet, QuietQuiet DEF Quiet, Serving
    <3>3. QED
      BY <3>1, <3>2
  <2> HIDE DEF tuned
  <2>2. Sound(tuned, q, 0)
    BY <1>3, <2>1 DEF Serving, Sound, Holds, Computed, Unsent, Quiet, SameRoles
  <2>3. \A r \in DOMAIN Roles : /\ SawSome(start, r) => SawSome(tuned, r)
                                /\ SawAll(start, r) => SawAll(tuned, r)
    BY <2>1 DEF SawSome, SawAll, Saw, Quiet, SameRoles
  <2>4. QED
    BY <1>3, <2>1, <2>2, <2>3 DEF Serving, Since, Quiet, SameRoles, SameQueue
<1> HIDE DEF s
<1>5. ServedOf(tuned, s, q, dying, Len(s), g)
  <2> HIDE DEF tuned, q
  <2>1. QED
    BY <1>0, <1>1, ServedOfExists, Zenon
<1>6. ProcessQueuedOps(w, dying) = g[n]
  BY <1>1 DEF ProcessQueuedOps, Through, ServedOf, tuned, start, open, s
<1> HIDE DEF g, tuned
<1>7. \A m \in 0..n : g[m] = IF m = 0 THEN tuned ELSE ServeNext(g[m - 1], q, dying, m)
  BY <1>0, <1>1, <1>5 DEF ServedOf
<1>8. 0 \in T
  <2>1. g[0] = tuned
    BY <1>0, <1>7
  <2>2. QED
    BY <2>1, <1>4
<1> HIDE DEF q, n
<1>9. ASSUME NEW m \in Nat, m \in T
      PROVE  m + 1 \in T
  <2>1. SUFFICES ASSUME m + 1 <= n
                 PROVE  P(m + 1)
    OBVIOUS
  <2>2. P(m)
    BY <1>0, <1>9, <2>1
  <2>3. g[m + 1] = ServeNext(g[m], q, dying, m + 1)
    BY <1>0, <1>7, <2>1
  <2> DEFINE y == g[m]
             x == g[m + 1]
  <2>4. Serving(y, q, m) /\ Since(y, w) /\ y.bus = B(m) /\ x = ServeNext(y, q, dying, m + 1)
    BY <2>2, <2>3
  <2> HIDE DEF x, y
  <2>5. /\ Serving(x, q, m + 1) /\ Since(x, y)
        /\ x.bus = IF m + 1 = dying THEN "dead" ELSE y.bus
    BY <1>0, <2>1, <2>4, ServeNextKeeps DEF n
  <2>6. x.bus = B(m + 1)
    BY <2>4, <2>5
  <2>7. QED
    BY <2>4, <2>5, <2>6 DEF Since, x
<1>10. Nat \subseteq T
  <2> HIDE DEF T
  <2>1. QED
    BY <1>8, <1>9, SetInduction
<1>11. P(n)
  <2>1. n \in T
    BY <1>0, <1>10
  <2>2. QED
    BY <1>0, <2>1
<1> DEFINE x == g[n]
<1>12. Serving(x, q, n) /\ Since(x, w) /\ x.bus = B(n)
  BY <1>11
<1> HIDE DEF x
<1>13. \A r : NothingWaits(q, n, r)
  BY <1>0 DEF NothingWaits, n
<1>14. InRest(x)
  <2>1. x.bus # None
    BY <1>12 DEF None
  <2>2. Sound(x, <<>>, 0)
    BY <1>12, <1>13, <2>1, NoneLeft DEF Serving
  <2>3. QED
    BY <1>12, <2>2, EmptyQueue DEF InRest, AtRest, Serving
<1>15. QED
  BY <1>6, <1>12, <1>14 DEF n, q, x

-----------------------------------------------------------------------------
(* Loading, and the end of it.                                             *)

LEMMA OrdersAre ==
  ASSUME NEW S, IsFiniteSet(S), NEW s \in Orders(S)
  PROVE  /\ Len(s) \in Nat /\ DOMAIN s = 1..Len(s)
         /\ \A i \in 1..Len(s) : s[i] \in S
         /\ \A x \in S : \E i \in 1..Len(s) : s[i] = x
<1>1. Cardinality(S) \in Nat
  BY FS_CardinalityType
<1>2. s \in [1..Cardinality(S) -> S] /\ \A x \in S : \E i \in DOMAIN s : s[i] = x
  BY DEF Orders
<1> DEFINE n == Cardinality(S)
<1>3. s \in [1..n -> S] /\ n \in Nat
  BY <1>1, <1>2
<1> HIDE DEF n
<1>4. s \in Seq(S) /\ Len(s) = n /\ DOMAIN s = 1..n
  BY ONLY <1>3
<1>5. QED
  BY <1>2, <1>3, <1>4

\* What was read of the parameters since w.
Reading(x, w) ==
  /\ InRest(x) /\ x.bus = w.bus /\ x.route = w.route
  /\ Range(w.known) \subseteq Range(x.known)

LEMMA KnownGrows ==
  ASSUME NEW q \in Seq(DOMAIN Roles), NEW r \in DOMAIN Roles
  PROVE  Append(q, r) \in Seq(DOMAIN Roles) /\ Range(Append(q, r)) = Range(q) \cup {r}
<1>1. /\ Append(q, r) \in Seq(DOMAIN Roles) /\ Len(q) \in Nat
      /\ Len(Append(q, r)) = Len(q) + 1 /\ Append(q, r)[Len(q) + 1] = r
      /\ \A i \in 1..Len(q) : Append(q, r)[i] = q[i]
  OBVIOUS
<1> DEFINE p == Append(q, r)
<1> HIDE DEF p
<1>2. \A y : (\E i \in 1..Len(p) : p[i] = y) <=> (y = r \/ \E i \in 1..Len(q) : q[i] = y)
  <2>1. \A i \in 1..Len(q) : i \in 1..Len(p)
    BY <1>1 DEF p
  <2>2. \A i \in 1..Len(p) : i = Len(q) + 1 \/ i \in 1..Len(q)
    BY <1>1 DEF p
  <2>3. Len(q) + 1 \in 1..Len(p)
    BY <1>1 DEF p
  <2>4. QED
    BY <1>1, <2>1, <2>2, <2>3 DEF p
<1>3. DOMAIN p = 1..Len(p) /\ DOMAIN q = 1..Len(q)
  BY <1>1 DEF p
<1>4. \A y : y \in Range(p) <=> (y = r \/ y \in Range(q))
  BY <1>2, <1>3 DEF Range
<1>5. QED
  BY <1>1, <1>4 DEF p

LEMMA RoleRead ==
  ASSUME NEW w, InRest(w), NEW r \in DOMAIN Roles
  PROVE  LET x == [w EXCEPT !.known = Append(@, r)]
         IN  Reading(x, w) /\ r \in Range(x.known)
<1> DEFINE known == Append(w.known, r)
           x == [w EXCEPT !.known = known]
<1>1. known \in Seq(DOMAIN Roles) /\ Range(known) = Range(w.known) \cup {r}
  BY KnownGrows DEF InRest, AtRest, IsWorld
<1> HIDE DEF known
<1>2. /\ IsWorld(x) /\ SameQueue(x, w) /\ x.level = w.level /\ x.lost = w.lost
      /\ x.reordered = w.reordered /\ x.rerouted = w.rerouted /\ x.roles = w.roles
      /\ x.values = w.values /\ x.route = w.route /\ x.known = known
  BY <1>1 DEF InRest, AtRest, IsWorld, Fields, SameQueue
<1> HIDE DEF x
<1>3. AtRest(x)
  BY <1>2 DEF InRest, AtRest, Sound, Holds, Computed, Unsent, SameQueue
<1>4. \A o \in DOMAIN Roles : SawSome(x, o)
  BY <1>1, <1>2 DEF InRest, SawSome, Saw
<1>5. QED
  BY <1>1, <1>2, <1>3, <1>4 DEF Reading, InRest, SameQueue, x, known

LEMMA GetVolumeKeeps ==
  ASSUME RolesAreOwn, NEW w, InRest(w), NEW s
  PROVE  InRest(GetVolume(w, s)) /\ Moves(GetVolume(w, s), w)
BY QueueGetKeeps, GetEntryVolumeKeeps DEF GetVolume

LEMMA ReadParamKeeps ==
  ASSUME RolesAreOwn, NEW w, InRest(w), NEW p \in Params
  PROVE  LET x == ReadParam(w, p)
         IN  Reading(x, w) /\ (p[1] = "role" => p[2] \in Range(x.known))
<1>1. ASSUME NEW r \in DOMAIN Roles, p = <<"role", r>>
      PROVE  Reading(ReadParam(w, p), w) /\ p[2] \in Range(ReadParam(w, p).known)
  <2>1. ReadParam(w, p) = [w EXCEPT !.known = Append(@, r)] /\ p[2] = r
    BY <1>1 DEF ReadParam
  <2>2. QED
    BY <2>1, RoleRead
<1>2. ASSUME NEW f \in FixedSets, p = <<"set", f>>
      PROVE  Reading(ReadParam(w, p), w) /\ p[1] # "role"
  <2>1. ReadParam(w, p) = Update(w, f.stream, f.volume)
    BY <1>2 DEF ReadParam
  <2>2. f.stream \notin DOMAIN Roles
    BY DEF RolesAreOwn
  <2>3. QED
    BY <1>2, <2>1, <2>2, OtherUpdateKeeps DEF Reading, Moves
<1>3. ASSUME NEW t \in Transforms, p = <<"transform", t>>
      PROVE  Reading(ReadParam(w, p), w) /\ p[1] # "role"
  <2> DEFINE y == Subscribe(w, t.src)
  <2>1. ReadParam(w, p) = GetVolume(y, t.src)
    BY <1>3 DEF ReadParam
  <2>2. t.src \in Subscribed
    BY DEF Subscribed
  <2>3. InRest(y) /\ Moves(y, w)
    BY <2>2, SubscribeQuiet, QuietKeeps DEF InRest, AtRest
  <2> HIDE DEF y
  <2>4. InRest(GetVolume(y, t.src)) /\ Moves(GetVolume(y, t.src), y)
    BY <2>3, GetVolumeKeeps
  <2>5. QED
    BY <1>3, <2>1, <2>3, <2>4 DEF Reading, Moves
<1>4. QED
  BY <1>1, <1>2, <1>3 DEF Params

LEMMA ParamsRead ==
  ASSUME RolesAreOwn, NEW w, InRest(w), NEW s \in Orders(Params)
  PROVE  LET x == Through(w, s, ReadParam)
         IN  /\ InRest(x) /\ x.bus = w.bus /\ x.route = w.route
             /\ Range(x.known) = DOMAIN Roles
<1> DEFINE n == Len(s)
           g == CHOOSE h : ReadOf(w, s, Len(s), h)
           P(m) == /\ Reading(g[m], w)
                   /\ \A j \in 1..m : s[j][1] = "role" => s[j][2] \in Range(g[m].known)
           T == {m \in Nat : m <= n => P(m)}
<1>0. /\ n \in Nat /\ DOMAIN s = 1..n /\ \A i \in 1..n : s[i] \in Params
      /\ \A p \in Params : \E i \in 1..n : s[i] = p
  BY OrdersAre, StreamRestoreAssumption
<1>1. ReadOf(w, s, Len(s), g)
  BY <1>0, ReadOfExists, Zenon
<1>2. Through(w, s, ReadParam) = g[n]
  BY DEF Through, ReadOf
<1> HIDE DEF g
<1>3. \A m \in 0..n : g[m] = IF m = 0 THEN w ELSE ReadParam(g[m - 1], s[m])
  BY <1>1 DEF ReadOf
<1>4. 0 \in T
  <2>1. g[0] = w
    BY <1>0, <1>3
  <2>2. QED
    BY <2>1 DEF Reading
<1> HIDE DEF n
<1>5. ASSUME NEW m \in Nat, m \in T
      PROVE  m + 1 \in T
  <2>1. SUFFICES ASSUME m + 1 <= n
                 PROVE  P(m + 1)
    OBVIOUS
  <2>2. P(m) /\ s[m + 1] \in Params
    BY <1>0, <1>5, <2>1
  <2>3. g[m + 1] = ReadParam(g[m], s[m + 1])
    BY <1>0, <1>3, <2>1
  <2> DEFINE y == g[m]
             x == g[m + 1]
             p == s[m + 1]
  <2>4. InRest(y) /\ x = ReadParam(y, p) /\ p \in Params
    BY <2>2, <2>3 DEF Reading
  <2>5. \A j \in 1..m : s[j][1] = "role" => s[j][2] \in Range(y.known)
    BY <2>2
  <2>6. Reading(y, w)
    BY <2>2
  <2> HIDE DEF x, y, p
  <2>7. Reading(x, y) /\ (p[1] = "role" => p[2] \in Range(x.known))
    BY <2>4, ReadParamKeeps
  <2>8. Reading(x, w)
    BY <2>6, <2>7 DEF Reading
  <2>9. \A j \in 1..(m + 1) : j = m + 1 \/ j \in 1..m
    OBVIOUS
  <2>10. \A j \in 1..(m + 1) : s[j][1] = "role" => s[j][2] \in Range(x.known)
    BY <2>5, <2>7, <2>9 DEF Reading, p
  <2>11. QED
    BY <2>8, <2>10 DEF x
<1>6. Nat \subseteq T
  <2> HIDE DEF T
  <2>1. QED
    BY <1>4, <1>5, SetInduction
<1>7. P(n)
  <2>1. n \in T
    BY <1>0, <1>6
  <2>2. QED
    BY <1>0, <2>1
<1> DEFINE x == g[n]
<1>8. Reading(x, w) /\ \A j \in 1..n : s[j][1] = "role" => s[j][2] \in Range(x.known)
  BY <1>7
<1> HIDE DEF x
<1>9. DOMAIN Roles \subseteq Range(x.known)
  <2>1. SUFFICES ASSUME NEW r \in DOMAIN Roles
                 PROVE  r \in Range(x.known)
    OBVIOUS
  <2>2. <<"role", r>> \in Params
    BY DEF Params
  <2>3. PICK j \in 1..n : s[j] = <<"role", r>>
    BY <1>0, <2>2
  <2>4. s[j][1] = "role" /\ s[j][2] = r
    BY <2>3
  <2>5. QED
    BY <1>8, <2>4
<1>10. Range(x.known) \subseteq DOMAIN Roles
  <2>1. x.known \in Seq(DOMAIN Roles)
    BY <1>8 DEF Reading, InRest, AtRest, IsWorld
  <2>2. \A q \in Seq(DOMAIN Roles) : Range(q) \subseteq DOMAIN Roles
    BY DEF Range
  <2>3. QED
    BY <2>1, <2>2
<1>11. QED
  BY <1>2, <1>8, <1>9, <1>10 DEF Reading, x

\* What the roles hold after the first m keys of s were seen.
SawFirst(x, w, s, m) ==
  \A r \in DOMAIN Roles : \A i \in DOMAIN Roles[r] :
    x.roles[r].vals[i] =
      IF \E j \in 1..m : s[j] = Roles[r][i].key THEN w.values[Roles[r][i].key]
      ELSE w.roles[r].vals[i]

LEMMA KeysSeen ==
  ASSUME NEW w, AtRest(w), Range(w.known) = DOMAIN Roles, NEW s, Len(s) \in Nat
  PROVE  LET x == Through(w, s, SeesKey)
         IN  AtRest(x) /\ SameSetting(x, w) /\ SawFirst(x, w, s, Len(s))
<1> DEFINE n == Len(s)
           g == CHOOSE h : SeenOf(w, s, Len(s), h)
           P(m) == AtRest(g[m]) /\ SameSetting(g[m], w) /\ SawFirst(g[m], w, s, m)
           T == {m \in Nat : m <= n => P(m)}
<1>1. SeenOf(w, s, Len(s), g)
  BY SeenOfExists, Zenon
<1>2. Through(w, s, SeesKey) = g[n]
  BY DEF Through, SeenOf
<1> HIDE DEF g
<1>3. \A m \in 0..n : g[m] = IF m = 0 THEN w ELSE SeesKey(g[m - 1], s[m])
  BY <1>1 DEF SeenOf
<1>4. 0 \in T
  <2>1. g[0] = w
    BY <1>3
  <2>2. QED
    BY <2>1 DEF SameSetting, SawFirst
<1> HIDE DEF n
<1>5. ASSUME NEW m \in Nat, m \in T
      PROVE  m + 1 \in T
  <2>1. SUFFICES ASSUME m + 1 <= n
                 PROVE  P(m + 1)
    OBVIOUS
  <2> DEFINE y == g[m]
             x == g[m + 1]
             k == s[m + 1]
  <2>2. AtRest(y) /\ SameSetting(y, w) /\ SawFirst(y, w, s, m)
    BY <1>5, <2>1 DEF n
  <2>3. x = SeesKey(y, k)
    BY <1>3, <2>1 DEF n
  <2> HIDE DEF x, y
  <2>4. x = KeyChanges(y, k, w.values[k])
    BY <2>2, <2>3 DEF SeesKey, SameSetting
  <2>5. AtRest(x) /\ SameSetting(x, y) /\ SeenFirst(x, y, k, w.values[k], Len(y.known))
    BY <2>2, <2>4, KeyChangesKeeps
  <2>6. \A r \in DOMAIN Roles : Seen(x, y, r, k, w.values[k])
    BY <2>2, <2>5, KnownAre DEF SeenFirst, SameSetting, AtRest
  <2>7. \A z : (\E j \in 1..(m + 1) : s[j] = z) <=> (z = k \/ \E j \in 1..m : s[j] = z)
    <3>1. \A j \in 1..(m + 1) : j = m + 1 \/ j \in 1..m
      OBVIOUS
    <3>2. m + 1 \in 1..(m + 1) /\ \A j \in 1..m : j \in 1..(m + 1)
      OBVIOUS
    <3>3. QED
      BY <3>1, <3>2
  <2> HIDE DEF k
  <2>8. SawFirst(x, w, s, m + 1)
    <3>1. SUFFICES ASSUME NEW r \in DOMAIN Roles, NEW i \in DOMAIN Roles[r]
                   PROVE  x.roles[r].vals[i] =
                            IF \E j \in 1..(m + 1) : s[j] = Roles[r][i].key
                            THEN w.values[Roles[r][i].key] ELSE w.roles[r].vals[i]
      BY DEF SawFirst
    <3> DEFINE z == Roles[r][i].key
               old == \E j \in 1..m : s[j] = z
               now == \E j \in 1..(m + 1) : s[j] = z
    <3>2. x.roles[r].vals[i] = IF z = k THEN w.values[k] ELSE y.roles[r].vals[i]
      BY <2>6 DEF Seen
    <3>3. y.roles[r].vals[i] = IF old THEN w.values[z] ELSE w.roles[r].vals[i]
      BY <2>2 DEF SawFirst
    <3>4. now <=> (z = k \/ old)
      BY <2>7
    <3> HIDE DEF old, now, z
    <3>5. x.roles[r].vals[i] = IF now THEN w.values[z] ELSE w.roles[r].vals[i]
      BY <3>2, <3>3, <3>4
    <3>6. QED
      BY <3>5 DEF now, z
  <2>9. SameSetting(x, w)
    BY <2>2, <2>5 DEF SameSetting
  <2>10. QED
    BY <2>5, <2>8, <2>9 DEF x
<1>6. Nat \subseteq T
  <2> HIDE DEF T
  <2>1. QED
    BY <1>4, <1>5, SetInduction
<1>7. P(n)
  <2>1. n \in T
    BY <1>6 DEF n
  <2>2. QED
    BY <2>1 DEF n
<1>8. QED
  BY <1>2, <1>7 DEF n

LEMMA RoleKeysAre ==
  ASSUME NEW r \in DOMAIN Roles, NEW i \in DOMAIN Roles[r]
  PROVE  Roles[r][i].key \in RoleKeys
<1>1. Roles[r] \in Seq([key : Keys, type : Types, min : BOOLEAN])
  BY StreamRestoreAssumption
<1>2. Roles[r][i] \in [key : Keys, type : Types, min : BOOLEAN]
  <2>1. \A S : \A q \in Seq(S) : \A j \in DOMAIN q : q[j] \in S
    OBVIOUS
  <2>2. QED
    BY ONLY <1>1, <2>1, i \in DOMAIN Roles[r], Zenon
<1>3. Roles[r][i].key \in Keys
  BY <1>2
<1>4. QED
  BY <1>3 DEF RoleKeys

\* The route is read first.
Routed(w, route) ==
  [w EXCEPT !.route = route, !.rerouted = IF route = w.route THEN @ ELSE DOMAIN Roles]

\* All keys that have a value are seen when the plugins are loaded.
LEMMA InitDoneKeeps ==
  ASSUME NEW w, InRest(w), Range(w.known) = DOMAIN Roles, NEW route,
         NEW s \in Orders(RoleKeys \cap DOMAIN w.values)
  PROVE  LET x == Through(Routed(w, route), s, SeesKey)
         IN  /\ InRest(x) /\ x.bus = w.bus /\ x.known = w.known /\ x.route = route
             /\ \A r \in DOMAIN Roles : SawAll(x, r)
<1> DEFINE y == Routed(w, route)
           rerouted == IF route = w.route THEN w.rerouted ELSE DOMAIN Roles
           x == Through(y, s, SeesKey)
<1>1. /\ IsWorld(y) /\ SameQueue(y, w) /\ y.level = w.level /\ y.lost = w.lost
      /\ y.reordered = w.reordered /\ y.rerouted = rerouted /\ y.roles = w.roles
      /\ y.values = w.values /\ y.route = route /\ y.known = w.known
  <2>1. y = [w EXCEPT !.route = route, !.rerouted = rerouted]
    BY DEF Routed
  <2> HIDE DEF rerouted, y
  <2>2. QED
    BY ONLY <2>1, InRest(w) DEF InRest, AtRest, IsWorld, Fields, SameQueue
<1> HIDE DEF y
<1>2. AtRest(y)
  <2>1. \A r \in DOMAIN Roles : Computed(w, w.queue, 0, r) => Computed(y, y.queue, 0, r)
    BY <1>1 DEF Computed, Unsent, SameQueue
  <2>2. \A r \in DOMAIN Roles : \A v : Holds(w, w.queue, 0, r, v) => Holds(y, y.queue, 0, r, v)
    BY <1>1 DEF Holds, SameQueue
  <2>3. Sound(y, y.queue, 0)
    BY <1>1, <2>1, <2>2 DEF InRest, AtRest, Sound
  <2>4. QED
    BY <1>1, <2>3 DEF InRest, AtRest, SameQueue
<1>3. IsFiniteSet(RoleKeys \cap DOMAIN w.values)
  <2>1. RoleKeys \cap DOMAIN w.values \in SUBSET Keys
    BY DEF RoleKeys
  <2>2. QED
    BY ONLY <2>1, StreamRestoreAssumption, FS_Subset
<1>4. /\ Len(s) \in Nat /\ \A i \in 1..Len(s) : s[i] \in RoleKeys \cap DOMAIN w.values
      /\ \A k \in RoleKeys \cap DOMAIN w.values : \E i \in 1..Len(s) : s[i] = k
  BY <1>3, OrdersAre
<1>5. AtRest(x) /\ SameSetting(x, y) /\ SawFirst(x, y, s, Len(s))
  BY <1>1, <1>2, <1>4, KeysSeen
<1> HIDE DEF x
<1>6. ASSUME NEW r \in DOMAIN Roles, NEW i \in DOMAIN Roles[r]
      PROVE  /\ Roles[r][i].key \in DOMAIN x.values => Saw(x, r, i)
             /\ Roles[r][i].key \notin DOMAIN x.values => x.roles[r].vals[i] = 0
  <2> DEFINE k == Roles[r][i].key
  <2>1. x.values = w.values
    BY <1>1, <1>5 DEF SameSetting
  <2>2. k \in RoleKeys
    BY RoleKeysAre
  <2>3. x.roles[r].vals[i] = IF \E j \in 1..Len(s) : s[j] = k THEN w.values[k]
                             ELSE w.roles[r].vals[i]
    BY <1>1, <1>5 DEF SawFirst
  <2>4. (\E j \in 1..Len(s) : s[j] = k) <=> k \in DOMAIN w.values
    BY <1>4, <2>2
  <2>5. k \notin DOMAIN w.values => w.roles[r].vals[i] = 0
    BY DEF InRest, SawSome, Saw
  <2>6. QED
    BY <2>1, <2>3, <2>4, <2>5 DEF Saw
<1>7. x.known = w.known /\ x.bus = w.bus /\ x.route = route
  BY <1>1, <1>5 DEF SameSetting, SameQueue
<1>8. \A r \in DOMAIN Roles : SawAll(x, r) /\ SawSome(x, r)
  BY <1>6, <1>7 DEF SawAll, SawSome
<1>9. QED
  BY <1>5, <1>7, <1>8 DEF InRest, x, y

-----------------------------------------------------------------------------
(* Steps of others.                                                        *)

LEMMA NobodyFollows ==
  ASSUME NEW w, IsWorld(w), w.known = <<>>, NEW k, NEW v
  PROVE  LET x == SetContext(w, k, v)
         IN  x.queue = w.queue /\ x.known = <<>> /\ x.queueSubscribe = w.queueSubscribe
<1> DEFINE values == [y \in DOMAIN w.values \cup {k} |-> IF y = k THEN v ELSE w.values[y]]
           u == [w EXCEPT !.values = values]
           s == u.known
           g == CHOOSE h : SeenBy(u, s, k, v, Len(s), h)
<1>1. SetContext(w, k, v) = KeyChanges(u, k, v)
  BY DEF SetContext
<1> HIDE DEF values
<1>2. u.known = <<>> /\ u.queue = w.queue /\ u.queueSubscribe = w.queueSubscribe
  BY DEF IsWorld, Fields
<1>3. Len(s) = 0 /\ Len(s) \in Nat
  BY <1>2
<1>4. SeenBy(u, s, k, v, Len(s), g)
  <2> HIDE DEF u, s
  <2>1. QED
    BY <1>3, SeenByExists, Zenon
<1>5. KeyChanges(u, k, v) = g[Len(s)]
  BY DEF KeyChanges, Through, SeenBy
<1> HIDE DEF g, u, s
<1>6. g[0] = u
  BY <1>3, <1>4 DEF SeenBy
<1>7. QED
  BY <1>1, <1>2, <1>3, <1>5, <1>6

LEMMA OthersSetKeeps ==
  ASSUME RolesAreOwn, NEW w, InRest(w), NEW s \in Subscribed, NEW c
  PROVE  LET x == SetLevel(w, s, c)
         IN  InRest(x) /\ Moves(x, w) /\ SameQueue(x, w)
<1> DEFINE x == SetLevel(w, s, c)
<1>1. /\ IsWorld(x) /\ SameRoles(x, w) /\ SameQueue(x, w)
      /\ x.lost = w.lost /\ x.reordered = w.reordered
      /\ \A r \in Streams : x.level[r] = IF r = s THEN c ELSE w.level[r]
  BY SetLevelFrame DEF InRest, AtRest
<1> HIDE DEF x
<1>2. \A r \in DOMAIN Roles : r # s /\ r \in Streams
  BY StreamRestoreAssumption DEF RolesAreOwn, Subscribed
<1>3. \A r \in DOMAIN Roles : x.level[r] = w.level[r]
  BY <1>1, <1>2
<1>4. Sound(x, x.queue, 0)
  BY <1>1, <1>3 DEF InRest, AtRest, Sound, Holds, Computed, Unsent, SameRoles, SameQueue
<1>5. \A r \in DOMAIN Roles : (SawSome(w, r) => SawSome(x, r)) /\ (SawAll(w, r) => SawAll(x, r))
  BY <1>1 DEF SawSome, SawAll, Saw, SameRoles
<1>6. QED
  BY <1>1, <1>4, <1>5 DEF InRest, AtRest, Moves, SameRoles, SameQueue, x

LEMMA RemoveEntryQuiet ==
  ASSUME NEW w, IsWorld(w), NEW s
  PROVE  Quiet(RemoveEntry(w, s), w)
<1> DEFINE after == [w EXCEPT !.path[s] = NoPath]
<1>1. Quiet(after, w)
  BY DEF Quiet, IsWorld, Fields, SameRoles, SameQueue
<1>2. \A kind, p, d : Quiet(Send(after, kind, p, d), w)
  <2> HIDE DEF after
  <2>1. QED
    BY <1>1 DEF Send, Quiet, IsWorld, Fields, SameRoles, SameQueue
<1>3. RemoveEntry(w, s) \in {after, Send(after, "removed", w.path[s], <<>>)}
  BY DEF RemoveEntry
<1> HIDE DEF after
<1>4. QED
  BY <1>1, <1>2, <1>3

\* Only the connection is another, and what waited for it is done.
LEMMA OtherBus ==
  ASSUME NEW w, InRest(w), NEW x, IsWorld(x), SameRoles(x, w), x.queue = w.queue,
         x.level = w.level, x.lost = w.lost, x.reordered = w.reordered,
         x.bus # None => x.queue = <<>>
  PROVE  InRest(x) /\ Since(x, w)
<1>1. Sound(x, x.queue, 0)
  BY DEF InRest, AtRest, Sound, Holds, Computed, Unsent, SameRoles
<1>2. \A r \in DOMAIN Roles : (SawSome(w, r) => SawSome(x, r)) /\ (SawAll(w, r) => SawAll(x, r))
  BY DEF SawSome, SawAll, Saw, SameRoles
<1>3. QED
  BY <1>1, <1>2 DEF InRest, AtRest, Since, SameRoles

LEMMA DieRests ==
  ASSUME NEW w, InRest(w)
  PROVE  /\ InRest(Die(w)) /\ Since(Die(w), w) /\ Die(w).queue = w.queue
         /\ Die(w).bus = IF w.bus = "up" THEN "dead" ELSE w.bus
<1> DEFINE x == Die(w)
<1>1. x = [w EXCEPT !.bus = IF w.bus = "up" THEN "dead" ELSE w.bus]
  BY DEF Die
<1> HIDE DEF x
<1>2. /\ IsWorld(x) /\ SameRoles(x, w) /\ x.queue = w.queue
      /\ x.level = w.level /\ x.lost = w.lost /\ x.reordered = w.reordered
      /\ x.bus = IF w.bus = "up" THEN "dead" ELSE w.bus
  BY <1>1 DEF InRest, AtRest, IsWorld, Fields, SameRoles
<1>3. x.bus # None => x.queue = <<>>
  BY <1>2 DEF InRest, AtRest, None
<1>4. QED
  BY <1>2, <1>3, OtherBus DEF x

LEMMA DisconnectRests ==
  ASSUME NEW w, InRest(w)
  PROVE  /\ InRest(AfterDisconnect(w)) /\ Since(AfterDisconnect(w), w)
         /\ AfterDisconnect(w).bus = None
<1> DEFINE x == AfterDisconnect(w)
<1>1. /\ IsWorld(x) /\ SameRoles(x, w) /\ x.queue = w.queue
      /\ x.level = w.level /\ x.lost = w.lost /\ x.reordered = w.reordered
      /\ x.bus = None
  BY DEF AfterDisconnect, InRest, AtRest, IsWorld, Fields, SameRoles
<1> HIDE DEF x
<1>2. QED
  BY <1>1, OtherBus DEF x

-----------------------------------------------------------------------------
(* The inductive invariant of the roles.                                   *)

\* The plugin knows of the connection that there is; a role holds what it saw
\* of its keys, from init_done_cb on all there is to see; and what it makes of
\* that is in PulseAudio or waits for it.
RolesInv ==
  stage # "unloaded" =>
    /\ world.bus = bus
    /\ InRest(world)
    /\ stage = "loading" => world.queue = <<>> /\ world.known = <<>>
    /\ stage # "loading" => Range(world.known) = DOMAIN Roles
    /\ stage = "running" => /\ world.route = context
                            /\ \A r \in DOMAIN Roles : SawAll(world, r)

LEMMA RolesInitHolds == Init => RolesInv
<1> SUFFICES ASSUME Init
             PROVE  RolesInv
  OBVIOUS
<1>1. PICK old \in {{}, Subscribed} :
        world = [bus |-> None, queue |-> <<>>, items |-> <<>>, objectMap |-> {},
                 freedKeys |-> FALSE, complete |-> FALSE, queueSubscribe |-> FALSE,
                 heeded |-> [entries |-> FALSE, paths |-> {}], signals |-> <<>>,
                 level |-> [s \in Streams |-> <<0>>],
                 path  |-> [s \in Streams |->
                              IF s \in old
                              THEN (CHOOSE g \in Injection(old, 1..Cardinality(old)) : TRUE)[s]
                              ELSE NoPath],
                 next  |-> Cardinality(old) + 1,
                 route |-> "default", values |-> <<>>, known |-> <<>>,
                 roles |-> [r \in DOMAIN Roles |->
                              [vals |-> [i \in DOMAIN Roles[r] |-> 0], volume |-> 0]],
                 lost  |-> Streams, reordered |-> {}, rerouted |-> {},
                 missed |-> Subscribed]
  BY DEF Init
<1> DEFINE w == world
<1>2. /\ DOMAIN w = Fields /\ DOMAIN w.heeded = {"entries", "paths"}
      /\ DOMAIN w.level = Streams /\ DOMAIN w.path = Streams
      /\ w.bus = None /\ w.queue = <<>> /\ w.items = <<>> /\ w.objectMap = {}
      /\ w.known = <<>> /\ w.lost = Streams /\ w.values = <<>>
      /\ w.roles = [r \in DOMAIN Roles |->
                      [vals |-> [i \in DOMAIN Roles[r] |-> 0], volume |-> 0]]
  BY <1>1 DEF Fields
<1>3. \A r \in DOMAIN Roles :
        /\ DOMAIN w.roles[r] = {"vals", "volume"}
        /\ IsFunction(w.roles[r].vals, DOMAIN Roles[r])
        /\ \A i \in DOMAIN Roles[r] : w.roles[r].vals[i] = 0
  <2>1. ASSUME NEW r \in DOMAIN Roles
        PROVE  w.roles[r] = [vals |-> [i \in DOMAIN Roles[r] |-> 0], volume |-> 0]
    BY ONLY <1>2, r \in DOMAIN Roles
  <2>2. ASSUME NEW r \in DOMAIN Roles
        PROVE  IsFunction([i \in DOMAIN Roles[r] |-> 0], DOMAIN Roles[r])
    BY DEF IsFunction
  <2>3. ASSUME NEW r \in DOMAIN Roles, NEW v, v = [i \in DOMAIN Roles[r] |-> 0],
               NEW e, e = [vals |-> v, volume |-> 0]
        PROVE  e.vals = v /\ DOMAIN e = {"vals", "volume"} /\ \A i \in DOMAIN Roles[r] : v[i] = 0
    BY ONLY <2>3
  <2> HIDE DEF w
  <2>4. ASSUME NEW r \in DOMAIN Roles
        PROVE  /\ DOMAIN w.roles[r] = {"vals", "volume"}
               /\ IsFunction(w.roles[r].vals, DOMAIN Roles[r])
               /\ \A i \in DOMAIN Roles[r] : w.roles[r].vals[i] = 0
    <3> DEFINE v == [i \in DOMAIN Roles[r] |-> 0]
               e == [vals |-> v, volume |-> 0]
    <3>1. e.vals = v /\ DOMAIN e = {"vals", "volume"} /\ \A i \in DOMAIN Roles[r] : v[i] = 0
      BY <2>3
    <3>2. w.roles[r] = e /\ IsFunction(v, DOMAIN Roles[r])
      BY <2>1, <2>2
    <3> HIDE DEF v, e
    <3>3. QED
      BY <3>1, <3>2
  <2>5. QED
    BY <2>4
<1>4. DOMAIN w.roles = DOMAIN Roles
  BY <1>2
<1> HIDE DEF w
<1>5. IsList(<<>>) /\ <<>> \in Seq(DOMAIN Roles) /\ DOMAIN <<>> = {}
  BY DEF IsList
<1>6. IsWorld(w)
  BY <1>2, <1>3, <1>4, <1>5 DEF IsWorld
<1>7. DOMAIN Roles \subseteq Streams
  BY StreamRestoreAssumption
<1>8. Sound(w, w.queue, 0)
  BY <1>2, <1>7, EmptyQueue DEF Sound, Holds, Computed, Unsent
<1>9. \A r \in DOMAIN Roles : SawSome(w, r)
  BY <1>3 DEF SawSome
<1>10. InRest(w)
  BY <1>2, <1>6, <1>8, <1>9, EmptyQueue DEF InRest, AtRest
<1>11. stage = "loading" /\ bus = None
  BY DEF Init, LinkInit
<1>12. QED
  BY <1>2, <1>10, <1>11 DEF RolesInv, w

LEMMA LoadKeepsRoles ==
  ASSUME RolesAreOwn, RolesInv, LinkInv, Load
  PROVE  RolesInv'
<1> DEFINE w == [world EXCEPT !.bus = bus']
<1>1. stage = "loading" /\ stage' = "loaded" /\ UNCHANGED context
  BY DEF Load, LinkLoad
<1>2. InRest(world) /\ world.queue = <<>> /\ world.bus = bus /\ bus = None
  BY <1>1 DEF RolesInv, LinkInv
<1>3. /\ IsWorld(w) /\ SameRoles(w, world) /\ w.queue = world.queue
      /\ w.level = world.level /\ w.lost = world.lost /\ w.reordered = world.reordered
      /\ w.bus = bus'
  BY <1>2 DEF InRest, AtRest, IsWorld, Fields, SameRoles
<1>4. PICK s \in Orders(Params) : world' = Through(w, s, ReadParam)
  BY DEF Load
<1> HIDE DEF w
<1>5. InRest(w)
  BY <1>2, <1>3, OtherBus
<1>6. InRest(world') /\ world'.bus = bus' /\ Range(world'.known) = DOMAIN Roles
  BY <1>3, <1>4, <1>5, ParamsRead
<1>7. QED
  BY <1>1, <1>6 DEF RolesInv

LEMMA InitDoneKeepsRoles ==
  ASSUME RolesInv, InitDone
  PROVE  RolesInv'
<1>1. stage = "loaded" /\ stage' = "running" /\ UNCHANGED <<bus, context>>
  BY DEF InitDone
<1>2. InRest(world) /\ Range(world.known) = DOMAIN Roles /\ world.bus = bus
  BY <1>1 DEF RolesInv
<1>3. PICK s \in Orders(RoleKeys \cap DOMAIN world.values) : world' = Through(Routed(world, context), s, SeesKey)
  BY DEF InitDone, Routed
<1>4. /\ InRest(world') /\ world'.bus = world.bus /\ world'.known = world.known
      /\ world'.route = context /\ \A r \in DOMAIN Roles : SawAll(world', r)
  BY <1>2, <1>3, InitDoneKeeps
<1>5. QED
  BY <1>1, <1>2, <1>4 DEF RolesInv

\* A step that leaves the stage, the link's bus and the route as they are, and
\* that the volume controller takes between two calls.
LEMMA QuietStep ==
  ASSUME RolesInv, stage' = stage, bus' = bus, context' = context,
         stage \notin {"loading", "unloaded"}, InRest(world') /\ Moves(world', world)
  PROVE  RolesInv'
BY DEF RolesInv, Moves

LEMMA AnyQuietStep ==
  ASSUME RolesInv, stage' = stage, bus' = bus, context' = context,
         stage # "unloaded" => Quiet(world', world)
  PROVE  RolesInv'
<1>1. CASE stage = "unloaded"
  BY <1>1 DEF RolesInv
<1>2. CASE stage # "unloaded"
  <2>1. InRest(world') /\ Moves(world', world)
    BY <1>2, QuietKeeps DEF RolesInv
  <2>2. world'.queue = world.queue /\ world'.known = world.known
    BY <1>2 DEF Quiet, SameQueue, SameRoles
  <2>3. QED
    BY <1>2, <2>1, <2>2 DEF RolesInv, Moves
<1>3. QED
  BY <1>1, <1>2

LEMMA RetryKeepsRoles ==
  ASSUME RolesAreOwn, RolesInv, LinkInv, RetryTimeout
  PROVE  RolesInv'
<1>1. PICK dies \in BOOLEAN :
        /\ LinkRetry(dies)
        /\ IF bus' = None THEN UNCHANGED world
           ELSE \E dying \in IF bus' = "dead" THEN 0..Len(world.queue)
                                              ELSE {Len(world.queue) + 1} :
                  world' = ProcessQueuedOps(world, dying)
  BY DEF RetryTimeout
<1>2. stage \in {"loaded", "running"} /\ bus = None /\ UNCHANGED <<stage, context>>
  BY <1>1 DEF RetryTimeout, LinkRetry, LinkInv, OneThingAtATime
<1>3. InRest(world) /\ world.bus = None /\ Range(world.known) = DOMAIN Roles
  BY <1>2 DEF RolesInv
<1>4. bus' \in {None, "up", "dead"}
  BY <1>1 DEF LinkRetry, Connect, AskAddress, FailToOpen, Open
<1>5. CASE bus' = None
  BY <1>1, <1>2, <1>5, AnyQuietStep DEF RolesInv, SawAll, Saw
<1>6. CASE bus' # None
  <2>1. Len(world.queue) \in Nat
    BY <1>3 DEF InRest, AtRest, IsWorld, IsList
  <2>2. PICK dying \in Nat : /\ dying \in 0..Len(world.queue) <=> bus' = "dead"
                             /\ world' = ProcessQueuedOps(world, dying)
    BY <1>1, <1>6, <2>1
  <2>3. /\ InRest(world') /\ Since(world', world)
        /\ world'.bus = IF dying \in 0..Len(world.queue) THEN "dead" ELSE "up"
    BY <1>3, <2>2, ProcessQueuedOpsKeeps
  <2>4. world'.bus = bus'
    BY <1>4, <1>6, <2>2, <2>3
  <2>5. QED
    BY <1>2, <2>3, <2>4 DEF RolesInv, Since
<1>7. QED
  BY <1>5, <1>6

LEMMA DisconnectedKeepsRoles ==
  ASSUME RolesInv, LinkInv, Disconnected
  PROVE  RolesInv'
<1>1. bus = "dead" /\ bus' = None /\ UNCHANGED <<stage, context>>
  BY DEF Disconnected, LinkDisconnected
<1>2. stage \in {"loaded", "running"}
  BY <1>1 DEF LinkInv, None
<1>3. InRest(world)
  BY <1>2 DEF RolesInv
<1>4. /\ InRest(world') /\ Since(world', world) /\ world'.bus = None
  BY <1>3, DisconnectRests DEF Disconnected
<1>5. QED
  BY <1>1, <1>2, <1>4 DEF RolesInv, Since

LEMMA SignalKeepsRoles ==
  ASSUME RolesAreOwn, RolesInv, LinkInv, ReceiveSignal
  PROVE  RolesInv'
<1> DEFINE n == Head(world.signals)
           w == [world EXCEPT !.signals = Tail(@)]
           s == ItemAt(w, n.path)
<1>1. bus # None /\ UNCHANGED <<stage, bus, context>>
  BY DEF ReceiveSignal, link
<1>2. stage \in {"loaded", "running"}
  BY <1>1 DEF LinkInv
<1>3. InRest(world)
  BY <1>2 DEF RolesInv
<1>4. Quiet(w, world)
  BY <1>3 DEF InRest, AtRest, Quiet, IsWorld, Fields, SameRoles, SameQueue
<1>5. \/ world' = EntryAppears(w, n.path) \/ world' = EntryDisappears(w, n.path)
      \/ world' = w
      \/ s # None /\ world' = VolumeChanged(Heard(w, s, n.channels), s, FromPa(Average(n.channels)))
  BY DEF ReceiveSignal
<1> HIDE DEF w, n
<1>6. CASE \/ world' = EntryAppears(w, n.path) \/ world' = EntryDisappears(w, n.path)
           \/ world' = w
  <2>1. Quiet(world', world)
    BY <1>4, <1>6, EntryAppearsQuiet, EntryDisappearsQuiet, QuietQuiet DEF Quiet
  <2>2. QED
    BY <1>1, <2>1, AnyQuietStep
<1>7. CASE s # None /\ world' = VolumeChanged(Heard(w, s, n.channels), s, FromPa(Average(n.channels)))
  <2> DEFINE y == Heard(w, s, n.channels)
             v == FromPa(Average(n.channels))
  <2>1. Quiet(y, world)
    BY <1>4, HeardQuiet, QuietQuiet DEF Quiet
  <2>2. s \in Subscribed
    BY <1>4, <1>7, ItemIsSubscribed DEF Quiet
  <2> HIDE DEF y, v, s
  <2>3. InRest(y) /\ Moves(y, world)
    BY <1>3, <2>1, QuietKeeps
  <2>4. InRest(world') /\ Moves(world', y)
    BY <1>7, <2>2, <2>3, VolumeChangedKeeps DEF y, v
  <2>5. Moves(world', world)
    BY <2>3, <2>4, MovesOn
  <2>6. QED
    BY <1>1, <1>2, <2>4, <2>5, QuietStep
<1>8. QED
  BY <1>5, <1>6, <1>7

LEMMA ChangeKeyKeepsRoles ==
  ASSUME RolesInv, NEW k, NEW v, ChangeKey(k, v)
  PROVE  RolesInv'
<1>1. stage # "unloaded" /\ UNCHANGED <<stage, bus, context>> /\ world' = SetContext(world, k, v)
  BY DEF ChangeKey, Changing, link
<1>2. InRest(world)
  BY <1>1 DEF RolesInv
<1>3. InRest(world') /\ Moves(world', world)
  BY <1>1, <1>2, SetContextKeeps
<1>4. CASE stage = "loading"
  <2>1. world.queue = <<>> /\ world.known = <<>>
    BY <1>4 DEF RolesInv
  <2>2. world'.queue = <<>> /\ world'.known = <<>>
    BY <1>1, <1>2, <2>1, NobodyFollows DEF InRest, AtRest
  <2>3. QED
    BY <1>1, <1>3, <1>4, <2>2 DEF RolesInv, Moves
<1>5. CASE stage # "loading"
  BY <1>1, <1>3, <1>5, QuietStep
<1>6. QED
  BY <1>4, <1>5

LEMMA ChangeRouteKeepsRoles ==
  ASSUME RolesInv, NEW r, ChangeRoute(r)
  PROVE  RolesInv'
<1>1. /\ stage # "unloaded" /\ UNCHANGED <<stage, bus>> /\ context' = r
      /\ world' = IF stage = "loading" THEN world
                  ELSE [world EXCEPT !.route = r, !.rerouted = DOMAIN Roles]
  BY DEF ChangeRoute, Changing, link
<1>2. InRest(world)
  BY <1>1 DEF RolesInv
<1>3. CASE stage = "loading"
  BY <1>1, <1>3 DEF RolesInv
<1>4. CASE stage # "loading"
  <2> DEFINE x == world'
  <2>1. /\ IsWorld(x) /\ SameQueue(x, world) /\ x.level = world.level /\ x.lost = world.lost
        /\ x.reordered = world.reordered /\ x.rerouted = DOMAIN Roles
        /\ x.roles = world.roles /\ x.values = world.values /\ x.route = r
        /\ x.known = world.known
    BY <1>1, <1>2, <1>4 DEF InRest, AtRest, IsWorld, Fields, SameQueue
  <2> HIDE DEF x
  <2>2. Sound(x, x.queue, 0)
    BY <1>2, <2>1 DEF InRest, AtRest, Sound, Holds, Computed, Unsent, SameQueue
  <2>3. \A o \in DOMAIN Roles : (SawSome(world, o) => SawSome(x, o)) /\ (SawAll(world, o) => SawAll(x, o))
    BY <2>1 DEF SawSome, SawAll, Saw
  <2>4. InRest(x)
    BY <1>2, <2>1, <2>2, <2>3 DEF InRest, AtRest, SameQueue
  <2>5. QED
    BY <1>1, <1>4, <2>1, <2>3, <2>4 DEF RolesInv, x, SameQueue
<1>5. QED
  BY <1>3, <1>4

LEMMA OthersSetKeepsRoles ==
  ASSUME RolesAreOwn, RolesInv, NEW s \in Subscribed, NEW mix, OthersSet(s, mix)
  PROVE  RolesInv'
<1>1. stage # "unloaded" /\ UNCHANGED <<stage, bus, context>> /\ world' = SetLevel(world, s, mix)
  BY DEF OthersSet, Changing, link
<1>2. InRest(world)
  BY <1>1 DEF RolesInv
<1>3. InRest(world') /\ Moves(world', world) /\ SameQueue(world', world)
  BY <1>1, <1>2, OthersSetKeeps
<1>4. QED
  BY <1>1, <1>3 DEF RolesInv, Moves, SameQueue

LEMMA PulseStopsKeepsRoles ==
  ASSUME RolesInv, PulseStops
  PROVE  RolesInv'
<1>1. /\ stage # "unloaded" /\ UNCHANGED <<stage, context>>
      /\ bus' = IF bus = "up" THEN "dead" ELSE bus
      /\ world' = Die(world)
  BY DEF PulseStops, PulseGoes
<1>2. InRest(world)
  BY <1>1 DEF RolesInv
<1>3. /\ InRest(world') /\ Since(world', world) /\ world'.queue = world.queue
      /\ world'.bus = IF world.bus = "up" THEN "dead" ELSE world.bus
  BY <1>1, <1>2, DieRests
<1>4. QED
  BY <1>1, <1>3 DEF RolesInv, Since

LEMMA PulseStartsKeepsRoles ==
  ASSUME RolesInv, NEW a, PulseStarts(a)
  PROVE  RolesInv'
<1>1. stage # "unloaded" /\ UNCHANGED <<stage, bus, context>>
  BY DEF PulseStarts, PulseComes
<1>2. PICK paths : \E next :
        /\ DOMAIN paths = Streams
        /\ world' = [world EXCEPT !.path = paths, !.next = next]
  <2> DEFINE S == {s \in Streams : world.path[s] # NoPath}
  <2>1. PICK f \in Injection(S, 1..Cardinality(S)) :
           world' = [world EXCEPT !.path = [s \in Streams |-> IF s \in S THEN f[s] ELSE NoPath],
                                  !.next = Cardinality(S) + 1]
    BY DEF PulseStarts
  <2> HIDE DEF S
  <2> DEFINE paths == [s \in Streams |-> IF s \in S THEN f[s] ELSE NoPath]
             next  == Cardinality(S) + 1
  <2>2. DOMAIN paths = Streams /\ world' = [world EXCEPT !.path = paths, !.next = next]
    BY <2>1
  <2> HIDE DEF paths, next
  <2>3. QED
    BY <2>2
<1>3. PICK next : world' = [world EXCEPT !.path = paths, !.next = next]
  BY <1>2
<1>4. stage # "unloaded" => Quiet(world', world)
  BY <1>2, <1>3 DEF RolesInv, InRest, AtRest, Quiet, IsWorld, Fields, SameRoles, SameQueue
<1>5. QED
  BY <1>1, <1>4, AnyQuietStep

LEMMA RolesNextKeeps ==
  ASSUME RolesAreOwn, RolesInv, LinkInv, [Next]_vars
  PROVE  RolesInv'
<1>1. CASE Load
  BY <1>1, LoadKeepsRoles
<1>2. CASE InitDone
  BY <1>2, InitDoneKeepsRoles
<1>3. CASE AddressReply
  <2>1. stage' = stage /\ bus' = bus /\ context' = context /\ world' = world
    BY <1>3 DEF AddressReply, LinkAddressReply
  <2>2. QED
    BY <2>1 DEF RolesInv, SawAll, Saw
<1>4. CASE RetryTimeout
  BY <1>4, RetryKeepsRoles
<1>5. CASE Disconnected
  BY <1>5, DisconnectedKeepsRoles
<1>6. CASE ReceiveSignal
  BY <1>6, SignalKeepsRoles
<1>7. CASE Unload
  BY <1>7 DEF Unload, LinkUnload, RolesInv
<1>8. CASE PulseStops
  BY <1>8, PulseStopsKeepsRoles
<1>9. CASE \E k \in Keys, v \in Values : ChangeKey(k, v)
  BY <1>9, ChangeKeyKeepsRoles
<1>10. CASE \E r \in Routes : ChangeRoute(r)
  BY <1>10, ChangeRouteKeepsRoles
<1>11. CASE \E s \in Subscribed, mix \in Mixes : OthersSet(s, mix)
  BY <1>11, OthersSetKeepsRoles
<1>12. CASE \E s \in Subscribed : OthersRemove(s)
  <2>1. PICK s \in Subscribed : OthersRemove(s)
    BY <1>12
  <2>2. /\ stage # "unloaded" /\ UNCHANGED <<stage, bus, context>>
        /\ world' = RemoveEntry(world, s)
    BY <2>1 DEF OthersRemove, Changing, link
  <2>3. Quiet(world', world)
    BY <2>2, RemoveEntryQuiet DEF RolesInv, InRest, AtRest
  <2>4. QED
    BY <2>2, <2>3, AnyQuietStep
<1>13. CASE \E a \in Addresses : PulseStarts(a)
  BY <1>13, PulseStartsKeepsRoles
<1>14. CASE UNCHANGED vars
  <2>1. stage' = stage /\ bus' = bus /\ context' = context /\ world' = world
    BY <1>14 DEF vars, link
  <2>2. QED
    BY <2>1 DEF RolesInv, SawAll, Saw
<1>15. QED
  BY <1>1, <1>2, <1>3, <1>4, <1>5, <1>6, <1>7, <1>8, <1>9, <1>10, <1>11, <1>12, <1>13, <1>14
     DEF Next

\* What the invariant says of a connection.
LEMMA RolesInvReaches == RolesInv => RolesReachPulse
<1> SUFFICES ASSUME RolesInv, stage = "running", bus = "up",
                    NEW r \in (DOMAIN Roles) \ (world.lost \cup world.reordered \cup world.rerouted)
             PROVE  LET vals == [i \in DOMAIN Roles[r] |->
                                   IF Roles[r][i].key \in DOMAIN world.values
                                   THEN world.values[Roles[r][i].key] ELSE 0]
                    IN  world.level[r] = <<ToPa(RoleVolume(Roles[r], vals, context))>>
  BY DEF RolesReachPulse
<1> DEFINE vals == [i \in DOMAIN Roles[r] |->
                      IF Roles[r][i].key \in DOMAIN world.values
                      THEN world.values[Roles[r][i].key] ELSE 0]
           old  == world.roles[r].vals
<1>1. InRest(world) /\ world.bus = bus /\ world.route = context /\ SawAll(world, r)
  BY DEF RolesInv
<1>2. world.queue = <<>>
  BY <1>1 DEF InRest, AtRest, None
<1>3. Holds(world, <<>>, 0, r, world.roles[r].volume) /\ Computed(world, <<>>, 0, r)
  BY <1>1, <1>2 DEF InRest, AtRest, Sound
<1>4. ~OnlyWaits(<<>>, 0, r, world.roles[r].volume)
  BY EmptyQueue DEF OnlyWaits, NothingWaits
<1>5. /\ world.level[r] = <<ToPa(world.roles[r].volume)>>
      /\ world.roles[r].volume = RoleVolume(Roles[r], old, context)
  BY <1>1, <1>3, <1>4 DEF Holds, Computed, Unsent
<1>6. \A i \in DOMAIN Roles[r] :
        old[i] = IF Roles[r][i].key \in DOMAIN world.values
                 THEN world.values[Roles[r][i].key] ELSE 0
  BY <1>1 DEF SawAll, Saw
<1>7. IsFunction(old, DOMAIN Roles[r])
  BY <1>1 DEF InRest, AtRest, IsWorld
<1>8. old = vals
  <2>1. \A i \in DOMAIN Roles[r] : old[i] = vals[i]
    BY <1>6
  <2>2. IsFunction(vals, DOMAIN Roles[r])
    BY DEF IsFunction
  <2> HIDE DEF old, vals
  <2>3. QED
    BY <1>7, <2>1, <2>2 DEF IsFunction
<1>9. QED
  BY <1>5, <1>8

\* Whatever goes wrong in between, a restart of PulseAudio, a connection that
\* dies while what waited is sent to it (process_queued_ops), a key that changes
\* before the plugin is there: the volume of a role ends in PulseAudio as its
\* rules make it of the context (role_entry_get_volume), for every set of roles
\* that no transform and no other parameter writes to.
THEOREM RolesAreReached == RolesAreOwn => (Spec => []RolesReachPulse)
<1> SUFFICES ASSUME RolesAreOwn PROVE Spec => []RolesReachPulse
  OBVIOUS
<1>1. Init => RolesInv
  BY RolesInitHolds
<1>2. RolesInv /\ LinkInv /\ [Next]_vars => RolesInv'
  BY RolesNextKeeps
<1>3. RolesInv => RolesReachPulse
  BY RolesInvReaches
<1>4. QED
  BY <1>1, <1>2, <1>3, LinkInvHolds, PTL DEF Spec
-----------------------------------------------------------------------------
(* What is true of the transforms, in a world.                             *)

ItemOf(w, s) == IF s \in DOMAIN w.items THEN w.items[s] ELSE NoPath

Says(w, i, kind, p) ==
  i \in 1..Len(w.signals) /\ w.signals[i].kind = kind /\ w.signals[i].path = p

\* Signal i is of a volume of the stream.
Comes(w, s, i) == ItemOf(w, s) # NoPath /\ Says(w, i, "volume", ItemOf(w, s))

NoneComes(w, s) == \A i \in Nat : ~Comes(w, s, i)

\* The last of those that come has the volume that the stream has now.
LastIsNow(w, s) ==
  \E i \in Nat : /\ Comes(w, s, i) /\ w.signals[i].channels = w.level[s]
                 /\ \A j \in Nat : Comes(w, s, j) => j <= i

Follows(w, t) ==
  \/ t.src \in w.missed
  \/ NoneComes(w, t.src) /\ CarriedOver(w, t)
  \/ LastIsNow(w, t.src)

\* PulseAudio gives each path once, until it is restarted.
PathsApart(w) ==
  /\ w.next \in Nat /\ w.next > 0
  /\ \A s \in Streams : w.path[s] \in Nat /\ w.path[s] < w.next
  /\ \A s, z \in Streams : w.path[s] # NoPath /\ w.path[s] = w.path[z] => s = z

ItemsApart(w) ==
  \A s, z \in DOMAIN w.items : w.items[s] # NoPath /\ w.items[s] = w.items[z] => s = z

\* A volume is of a stream that is known by its path, and comes before its removal.
VolumesAreOfItems(w) ==
  \A i \in Nat : \A p : Says(w, i, "volume", p) =>
    /\ p # NoPath /\ \E s \in DOMAIN w.items : w.items[s] = p
    /\ \A j \in Nat : Says(w, j, "removed", p) => i < j

Mapped(w) ==
  \A m : m \in w.objectMap <=>
    \E s \in DOMAIN w.items : w.items[s] # NoPath /\ m = <<w.items[s], s>>

\* The plugin knows the path that the entry has, or will hear of it.
InTune(w, s) ==
  \/ w.items[s] = w.path[s]
  \/ /\ w.items[s] # NoPath
     /\ \E j \in Nat : /\ Says(w, j, "removed", w.items[s])
                       /\ \A i \in Nat : w.path[s] # NoPath /\ Says(w, i, "new", w.path[s]) => j < i
  \/ w.items[s] = NoPath /\ \E j \in Nat : Says(w, j, "new", w.path[s])

Aligned(w) ==
  /\ DOMAIN w.items # {} => w.heeded.entries
  /\ \A s \in DOMAIN w.items : w.items[s] # NoPath =>
       /\ w.items[s] \in Nat /\ w.items[s] < w.next
       /\ \A z \in Streams : w.path[z] = w.items[s] => z = s
  /\ \A i \in Nat : \A p : Says(w, i, "new", p) => p \in Nat /\ p # NoPath /\ p < w.next
  /\ \A i \in Nat : \A p : Says(w, i, "removed", p) =>
       p \in Nat /\ p # NoPath /\ p < w.next /\ \A z \in Streams : w.path[z] # p
  /\ \A s \in DOMAIN w.items : InTune(w, s)

Tuned(w) ==
  /\ Aligned(w)
  /\ \A p : p \in w.heeded.paths <=> p # NoPath /\ \E s \in DOMAIN w.items : w.items[s] = p
  /\ w.complete => \A s \in DOMAIN w.items : w.items[s] # NoPath

\* Without a connection, nothing is known, and to be asked for with the next.
Cut(w) ==
  /\ \A s \in DOMAIN w.items : w.items[s] = NoPath
  /\ w.heeded.entries = FALSE /\ w.heeded.paths = {} /\ w.signals = <<>>
  /\ w.queueSubscribe \/ (DOMAIN w.items = {} /\ w.objectMap = {} /\ w.freedKeys = FALSE)

NoDst(s) == \A t \in Transforms : ~t.toContext => t.dst # s

\* What waits is for streams that no transform carries over to.
QueueOwn(q) ==
  \A i \in 1..Len(q) : q[i].stream \in Streams /\ (q[i].op = "set" => NoDst(q[i].stream))

Typed(w) ==
  /\ IsWorld(w) /\ IsList(w.signals) /\ w.bus \in {None, "up", "dead"} /\ QueueOwn(w.queue)

Steady(w) ==
  /\ Typed(w) /\ PathsApart(w)
  /\ w.bus = None => Cut(w)
  /\ w.bus # None => /\ ItemsApart(w) /\ VolumesAreOfItems(w)
                     /\ Mapped(w) /\ w.freedKeys = FALSE
  /\ w.bus = "up" => Tuned(w)

AllFollow(w) == \A t \in Transforms : Follows(w, t)

-----------------------------------------------------------------------------
(* Others hear of a volume, or of an entry.                                *)

SameMap(x, w) ==
  /\ x.bus = w.bus /\ x.items = w.items /\ x.objectMap = w.objectMap
  /\ x.freedKeys = w.freedKeys /\ x.complete = w.complete
  /\ x.queueSubscribe = w.queueSubscribe /\ x.heeded = w.heeded

\* What became of a world by SetLevel.
LevelSet(x, w, s, c) ==
  /\ Typed(x) /\ SameMap(x, w) /\ x.queue = w.queue /\ x.known = w.known
  /\ x.values = w.values /\ x.lost = w.lost /\ x.reordered = w.reordered
  /\ \A z \in Streams : x.level[z] = IF z = s THEN c ELSE w.level[z]
  /\ \A z \in Streams : x.path[z] = IF z = s /\ w.path[s] = NoPath THEN w.next ELSE w.path[z]
  /\ x.next = IF w.path[s] = NoPath THEN w.next + 1 ELSE w.next
  /\ x.missed = IF s \in Subscribed /\ w.level[s] # c /\ ~Hears(w, s)
                THEN w.missed \cup {s} ELSE w.missed

\* One more signal came.
More(x, w, e) == LongerBehind(x.signals, e, w.signals)

\* What it sends.
Quietly(x, w, s, c) ==
  /\ ~(w.path[s] = NoPath /\ Listens(w)) /\ ~(Hears(w, s) /\ w.level[s] # c)
  /\ x.signals = w.signals
Announced(x, w, s, c) ==
  /\ w.path[s] = NoPath /\ Listens(w)
  /\ More(x, w, [kind |-> "new", path |-> w.next, channels |-> c])
Told(x, w, s, c) ==
  /\ Hears(w, s) /\ w.level[s] # c /\ ~(w.path[s] = NoPath /\ Listens(w))
  /\ More(x, w, [kind |-> "volume", path |-> w.path[s], channels |-> c])

LEMMA SetLevelIs ==
  ASSUME NEW w, Typed(w), NEW s \in Streams, NEW c
  PROVE  LET x == SetLevel(w, s, c)
         IN  /\ LevelSet(x, w, s, c)
             /\ Quietly(x, w, s, c) \/ Announced(x, w, s, c) \/ Told(x, w, s, c)
<1> DEFINE new   == w.path[s] = NoPath
           deaf  == w.level[s] # c /\ ~Hears(w, s)
           level == [w.level EXCEPT ![s] = c]
           path  == [w.path EXCEPT ![s] = IF new THEN w.next ELSE @]
           next  == IF new THEN w.next + 1 ELSE w.next
           missed == IF s \in Subscribed /\ deaf THEN w.missed \cup {s} ELSE w.missed
           after == [w EXCEPT !.level = level, !.path = path, !.next = next, !.missed = missed]
           Good(x) == LevelSet(x, w, s, c)
           x == SetLevel(w, s, c)
<1>1. x = IF new /\ Listens(w) THEN Send(after, "new", w.next, c)
          ELSE IF Hears(w, s) /\ w.level[s] # c THEN Send(after, "volume", w.path[s], c)
          ELSE after
  <2>1. DOMAIN w = Fields
    BY DEF Typed, IsWorld
  <2>2. after = [w EXCEPT !.level[s] = c, !.path[s]  = IF new THEN w.next ELSE @,
                          !.next = IF new THEN @ + 1 ELSE @,
                          !.missed = IF s \in Subscribed /\ deaf THEN @ \cup {s} ELSE @]
    BY <2>1 DEF Fields
  <2> HIDE DEF after
  <2>3. QED
    BY <2>2 DEF SetLevel
<1>2. /\ DOMAIN w.level = Streams /\ DOMAIN w.path = Streams /\ DOMAIN w = Fields
  BY DEF Typed, IsWorld
<1>3. /\ DOMAIN level = Streams /\ \A z \in Streams : level[z] = IF z = s THEN c ELSE w.level[z]
      /\ DOMAIN path = Streams
      /\ \A z \in Streams : path[z] = IF z = s /\ new THEN w.next ELSE w.path[z]
  BY <1>2
<1> HIDE DEF level, path, deaf
<1>4. Good(after) /\ after.signals = w.signals
  <2>1. /\ IsWorld(after) /\ SameMap(after, w) /\ after.queue = w.queue /\ after.signals = w.signals
        /\ after.known = w.known /\ after.values = w.values /\ after.lost = w.lost
        /\ after.reordered = w.reordered /\ after.level = level /\ after.path = path
        /\ after.next = next /\ after.missed = missed
    <3> HIDE DEF next, missed, new
    <3>1. QED
      BY <1>2, <1>3 DEF Typed, IsWorld, Fields, SameMap
  <2> HIDE DEF after
  <2>2. Typed(after)
    BY <2>1 DEF Typed, SameMap
  <2>3. QED
    BY <1>3, <2>1, <2>2 DEF LevelSet, deaf
<1> HIDE DEF after
<1>5. ASSUME NEW e, NEW y, y = [after EXCEPT !.signals = Append(after.signals, e)]
      PROVE  Good(y) /\ More(y, w, e)
  <2> DEFINE p == Append(after.signals, e)
  <2>1. LongerBehind(p, e, w.signals)
    BY <1>4, Behind DEF Typed
  <2>2. IsList(p)
    BY <2>1 DEF LongerBehind
  <2> HIDE DEF p
  <2>3. y = [after EXCEPT !.signals = p]
    BY <1>5 DEF p
  <2>4. Typed(y) /\ y.signals = p
    BY <1>4, <2>2, <2>3 DEF LevelSet, Typed, IsWorld, Fields
  <2>5. Good(y)
    BY <1>4, <2>3, <2>4 DEF LevelSet, SameMap, Typed, IsWorld, Fields
  <2>6. QED
    BY <2>1, <2>4, <2>5 DEF More
<1>6. ASSUME new, Listens(w)
      PROVE  Good(x) /\ Announced(x, w, s, c)
  <2>1. x = [after EXCEPT !.signals = Append(after.signals, [kind |-> "new", path |-> w.next, channels |-> c])]
    BY <1>1, <1>6 DEF Send
  <2> HIDE DEF x
  <2>2. QED
    BY <1>5, <1>6, <2>1 DEF Announced
<1>7. ASSUME ~(new /\ Listens(w)), Hears(w, s), w.level[s] # c
      PROVE  Good(x) /\ Told(x, w, s, c)
  <2>1. x = [after EXCEPT !.signals = Append(after.signals, [kind |-> "volume", path |-> w.path[s], channels |-> c])]
    BY <1>1, <1>7 DEF Send
  <2> HIDE DEF x
  <2>2. QED
    BY <1>5, <1>7, <2>1 DEF Told
<1>8. ASSUME ~(new /\ Listens(w)), ~(Hears(w, s) /\ w.level[s] # c)
      PROVE  Good(x) /\ Quietly(x, w, s, c)
  <2>1. x = after
    BY <1>1, <1>8
  <2> HIDE DEF x
  <2>2. QED
    BY <1>4, <1>8, <2>1 DEF Quietly
<1> HIDE DEF x, Good, new
<1>9. Good(x) /\ (Quietly(x, w, s, c) \/ Announced(x, w, s, c) \/ Told(x, w, s, c))
  BY <1>6, <1>7, <1>8
<1>10. QED
  BY <1>9 DEF x, Good

\* What is said, when it is one more behind all that wait.
SaidMore(x, w, e) ==
  /\ \A i \in Nat : \A k, p : Says(x, i, k, p) <=>
       Says(w, i, k, p) \/ (i = Len(w.signals) + 1 /\ e.kind = k /\ e.path = p)
  /\ \A i \in Nat : \A k, p : Says(w, i, k, p) =>
       i <= Len(w.signals) /\ x.signals[i] = w.signals[i]
  /\ Len(w.signals) \in Nat /\ x.signals[Len(w.signals) + 1] = e

LEMMA SaysMore ==
  ASSUME NEW w, NEW x, NEW e, More(x, w, e)
  PROVE  SaidMore(x, w, e)
<1> DEFINE n == Len(w.signals)
<1>1. /\ Len(x.signals) = n + 1 /\ n \in Nat /\ x.signals[n + 1] = e
      /\ \A i \in 1..n : x.signals[i] = w.signals[i]
  BY DEF More, LongerBehind
<1>2. \A i \in Nat : i \in 1..(n + 1) <=> i \in 1..n \/ i = n + 1
  BY <1>1
<1>3. \A i \in 1..n : i <= n /\ i # n + 1
  BY <1>1
<1> HIDE DEF n
<1>4. QED
  BY <1>1, <1>2, <1>3 DEF Says, SaidMore, n

LEMMA SaysSame ==
  ASSUME NEW w, NEW x, x.signals = w.signals
  PROVE  \A i, k, p : Says(x, i, k, p) <=> Says(w, i, k, p)
BY DEF Says

\* Of a stream, as much comes as before, and it has the volume that it had.
HearsSame(x, w, s) ==
  /\ x.level[s] = w.level[s] /\ (s \in x.missed <=> s \in w.missed)
  /\ \A i \in Nat : Comes(x, s, i) <=> Comes(w, s, i)
  /\ \A i \in Nat : Comes(w, s, i) => x.signals[i].channels = w.signals[i].channels

\* The connection listens to the path of a stream because it is its item.
LEMMA HeardIsItem ==
  ASSUME NEW w, Steady(w), NEW s \in Streams, Hears(w, s)
  PROVE  /\ w.bus = "up" /\ w.path[s] # NoPath /\ s \in DOMAIN w.items
         /\ w.items[s] = w.path[s] /\ s \in Subscribed
<1>1. w.bus = "up" /\ Tuned(w)
  BY DEF Hears, Alive, Steady
<1>2. w.path[s] # NoPath /\ \E z \in DOMAIN w.items : w.items[z] = w.path[s]
  BY <1>1 DEF Hears, Tuned
<1>3. PICK z \in DOMAIN w.items : w.items[z] = w.path[s]
  BY <1>2
<1>4. z = s
  BY <1>1, <1>2, <1>3 DEF Tuned, Aligned
<1>5. QED
  BY <1>1, <1>2, <1>3, <1>4 DEF Steady, Typed, IsWorld

LEMMA SetLevelHears ==
  ASSUME NEW w, Steady(w), NEW s \in Streams, NEW c, NEW z \in Subscribed
  PROVE  LET x == SetLevel(w, s, c)
         IN  /\ z # s \/ w.level[s] = c => HearsSame(x, w, z)
             /\ z = s /\ w.level[s] # c => z \in x.missed \/ LastIsNow(x, z)
<1> DEFINE x == SetLevel(w, s, c)
           new == [kind |-> "new", path |-> w.next, channels |-> c]
           vol == [kind |-> "volume", path |-> w.path[s], channels |-> c]
           Good == /\ z # s \/ w.level[s] = c => HearsSame(x, w, z)
                   /\ z = s /\ w.level[s] # c => z \in x.missed \/ LastIsNow(x, z)
<1>1. LevelSet(x, w, s, c) /\ (Quietly(x, w, s, c) \/ Announced(x, w, s, c) \/ Told(x, w, s, c))
  BY SetLevelIs DEF Steady
<1> HIDE DEF x
<1>2. z \in Streams
  BY StreamRestoreAssumption
<1>3. /\ x.items = w.items /\ x.level[z] = IF z = s THEN c ELSE w.level[z]
      /\ x.missed = IF s \in Subscribed /\ w.level[s] # c /\ ~Hears(w, s)
                    THEN w.missed \cup {s} ELSE w.missed
  BY <1>1, <1>2 DEF LevelSet, SameMap
<1>4. ItemOf(x, z) = ItemOf(w, z)
  BY <1>3 DEF ItemOf
<1>5. ASSUME x.signals = w.signals, ~(Hears(w, s) /\ w.level[s] # c)
      PROVE  Good
  <2>1. \A i : Comes(x, z, i) <=> Comes(w, z, i)
    BY <1>4, <1>5, SaysSame DEF Comes
  <2>2. QED
    BY <1>3, <1>5, <2>1 DEF HearsSame
<1>6. ASSUME Announced(x, w, s, c)
      PROVE  Good
  <2>1. new.kind = "new"
    OBVIOUS
  <2>2. More(x, w, new) /\ w.path[s] = NoPath
    BY <1>6 DEF Announced
  <2> HIDE DEF new
  <2>a. SaidMore(x, w, new)
    BY <2>2, SaysMore
  <2>3. ~Hears(w, s)
    BY <2>2, HeardIsItem
  <2>4. \A i \in Nat : Comes(x, z, i) <=> Comes(w, z, i)
    BY <1>4, <2>1, <2>a DEF SaidMore, Comes
  <2>5. \A i \in Nat : Comes(w, z, i) => x.signals[i] = w.signals[i]
    BY <2>a DEF SaidMore, Comes
  <2>6. QED
    BY <1>3, <2>3, <2>4, <2>5 DEF HearsSame
<1>7. ASSUME Told(x, w, s, c)
      PROVE  Good
  <2>1. vol.kind = "volume" /\ vol.path = w.path[s] /\ vol.channels = c
    OBVIOUS
  <2>2. More(x, w, vol) /\ Hears(w, s) /\ w.level[s] # c
    BY <1>7 DEF Told
  <2> HIDE DEF vol
  <2>a. SaidMore(x, w, vol)
    BY <2>2, SaysMore
  <2>3. /\ w.bus = "up" /\ w.path[s] # NoPath /\ s \in DOMAIN w.items
        /\ w.items[s] = w.path[s] /\ s \in Subscribed
    BY <2>2, HeardIsItem
  <2>4. \A i \in Nat : Comes(w, z, i) => i <= Len(w.signals) /\ x.signals[i] = w.signals[i]
    BY <2>a DEF SaidMore, Comes
  <2>5. CASE z # s
    <3>1. ItemOf(w, z) # NoPath => ItemOf(w, z) # w.path[s]
      BY <2>3, <2>5 DEF ItemOf, Steady, ItemsApart, None
    <3>2. \A i \in Nat : Comes(x, z, i) <=> Comes(w, z, i)
      BY <1>4, <2>1, <2>a, <3>1 DEF SaidMore, Comes
    <3>3. QED
      BY <1>3, <2>2, <2>4, <2>5, <3>2 DEF HearsSame
  <2>6. CASE z = s
    <3> DEFINE n == Len(w.signals)
    <3>1. ItemOf(w, z) = w.path[s] /\ ItemOf(w, z) # NoPath
      BY <2>3, <2>6 DEF ItemOf
    <3>2. n \in Nat /\ n + 1 \in Nat /\ x.signals[n + 1] = vol
      BY <2>a DEF SaidMore
    <3>3. Comes(x, z, n + 1) /\ x.signals[n + 1].channels = x.level[z]
      BY <1>3, <1>4, <2>1, <2>2, <2>6, <3>1, <3>2, <2>a DEF SaidMore, Comes
    <3>4. ASSUME NEW j \in Nat, Comes(x, z, j)
          PROVE  j <= n + 1
      <4>1. Says(w, j, "volume", ItemOf(w, z)) \/ j = n + 1
        BY <1>4, <2>2, <3>4, <2>a DEF SaidMore, Comes
      <4>2. Says(w, j, "volume", ItemOf(w, z)) => j <= n
        BY <2>a DEF SaidMore
      <4>3. QED
        BY <3>2, <4>1, <4>2
    <3>5. LastIsNow(x, z)
      BY <3>2, <3>3, <3>4 DEF LastIsNow
    <3>6. QED
      BY <2>2, <2>6, <3>5
  <2>7. QED
    BY <2>5, <2>6
<1>8. Good
  BY <1>1, <1>5, <1>6, <1>7 DEF Quietly
<1>9. QED
  BY <1>8 DEF x

LEMMA SetLevelTunes ==
  ASSUME NEW w, Steady(w), NEW s \in Streams, NEW c, w.bus = "up", NEW x, LevelSet(x, w, s, c),
         Quietly(x, w, s, c) \/ Announced(x, w, s, c) \/ Told(x, w, s, c)
  PROVE  Tuned(x)
<1> DEFINE made == w.path[s] = NoPath
<1>1. /\ x.items = w.items /\ x.heeded = w.heeded /\ x.complete = w.complete
      /\ \A z \in Streams : x.path[z] = IF z = s /\ made THEN w.next ELSE w.path[z]
      /\ x.next = IF made THEN w.next + 1 ELSE w.next
  BY DEF LevelSet, SameMap
<1>2. /\ w.next \in Nat /\ w.next > 0
      /\ \A z \in Streams : w.path[z] \in Nat /\ w.path[z] < w.next
  BY DEF Steady, PathsApart
<1>3. Tuned(w) /\ Aligned(w) /\ DOMAIN w.items \subseteq Streams
  BY StreamRestoreAssumption DEF Steady, Tuned, Typed, IsWorld
<1>4. \A p : p \in Nat /\ p < w.next => p < x.next /\ p # w.next
  BY <1>1, <1>2
\* What is said of entries.
<1> DEFINE n == Len(w.signals)
<1>5. /\ \A i \in Nat : \A p : Says(x, i, "removed", p) <=> Says(w, i, "removed", p)
      /\ \A i \in Nat : \A p : Says(w, i, "new", p) => Says(x, i, "new", p)
      /\ \A i \in Nat : \A p : Says(x, i, "new", p) =>
           Says(w, i, "new", p) \/ (made /\ p = w.next /\ i = n + 1)
      /\ made /\ Listens(w) => n + 1 \in Nat /\ Says(x, n + 1, "new", w.next)
      /\ \A i \in Nat : \A k, p : Says(w, i, k, p) => i < n + 1
  <2>1. CASE Quietly(x, w, s, c)
    <3>1. \A i, k, p : Says(x, i, k, p) <=> Says(w, i, k, p)
      BY <2>1, SaysSame DEF Quietly
    <3>2. Len(w.signals) \in Nat
      BY DEF Steady, Typed, IsList
    <3>3. \A i \in Nat : \A k, p : Says(w, i, k, p) => i < n + 1
      BY <3>2 DEF Says
    <3>4. ~(made /\ Listens(w))
      BY <2>1 DEF Quietly
    <3>5. \A i \in Nat : \A p : Says(x, i, "removed", p) <=> Says(w, i, "removed", p)
      BY <3>1, Zenon
    <3>6. \A i \in Nat : \A p : Says(w, i, "new", p) <=> Says(x, i, "new", p)
      BY <3>1, Zenon
    <3> HIDE DEF n, made
    <3>7. \A i \in Nat : \A p : Says(x, i, "new", p) =>
            Says(w, i, "new", p) \/ (made /\ p = w.next /\ i = n + 1)
      BY <3>6, Zenon
    <3>8. made /\ Listens(w) => n + 1 \in Nat /\ Says(x, n + 1, "new", w.next)
      BY <3>4, Zenon
    <3>9. QED
      BY <3>3, <3>5, <3>6, <3>7, <3>8, Zenon
  <2>2. CASE Announced(x, w, s, c)
    <3> DEFINE e == [kind |-> "new", path |-> w.next, channels |-> c]
    <3>1. e.kind = "new" /\ e.path = w.next
      OBVIOUS
    <3>2. More(x, w, e) /\ made
      BY <2>2 DEF Announced
    <3> HIDE DEF e
    <3>3. SaidMore(x, w, e)
      BY <3>2, SaysMore
    <3>4. \A i \in Nat : \A k, p : Says(w, i, k, p) => i < n + 1
      BY <3>3 DEF SaidMore
    <3>5. \A i \in Nat : \A p : Says(x, i, "removed", p) <=> Says(w, i, "removed", p)
      BY <3>1, <3>3 DEF SaidMore
    <3>6. \A i \in Nat : \A p : Says(x, i, "new", p) <=>
            Says(w, i, "new", p) \/ (p = w.next /\ i = n + 1)
      BY <3>1, <3>3 DEF SaidMore
    <3>7. n + 1 \in Nat
      BY <3>3 DEF SaidMore
    <3> HIDE DEF n, made
    <3>8. QED
      BY <3>2, <3>4, <3>5, <3>6, <3>7
  <2>3. CASE Told(x, w, s, c)
    <3> DEFINE e == [kind |-> "volume", path |-> w.path[s], channels |-> c]
    <3>1. e.kind = "volume"
      OBVIOUS
    <3>2. More(x, w, e) /\ ~(made /\ Listens(w))
      BY <2>3 DEF Told
    <3> HIDE DEF e
    <3>3. SaidMore(x, w, e)
      BY <3>2, SaysMore
    <3>4. \A i \in Nat : \A k, p : Says(w, i, k, p) => i < n + 1
      BY <3>3 DEF SaidMore
    <3>5. QED
      BY <3>1, <3>2, <3>3, <3>4 DEF SaidMore
  <2>4. QED
    BY <2>1, <2>2, <2>3
<1> HIDE DEF n
<1>6. ASSUME NEW z \in DOMAIN w.items
      PROVE  InTune(x, z)
  <2>1. InTune(w, z) /\ z \in Streams /\ x.items[z] = w.items[z]
    BY <1>1, <1>3 DEF Aligned
  <2>2. CASE ~(z = s /\ made)
    <3>1. x.path[z] = w.path[z] /\ w.path[z] # w.next
      BY <1>1, <1>2, <1>4, <2>1, <2>2
    <3>2. \A i \in Nat : Says(x, i, "new", w.path[z]) <=> Says(w, i, "new", w.path[z])
      BY <1>5, <3>1
    <3>3. QED
      BY <1>5, <2>1, <3>1, <3>2 DEF InTune
  <2>3. CASE z = s /\ made
    <3>1. x.path[z] = w.next /\ w.path[z] = NoPath /\ Listens(w)
      BY <1>1, <1>3, <2>1, <2>3 DEF Listens, Alive, Aligned
    <3>2. n + 1 \in Nat /\ Says(x, n + 1, "new", w.next)
      BY <1>5, <2>3, <3>1
    <3>3. CASE w.items[z] = NoPath
      BY <2>1, <3>1, <3>2, <3>3 DEF InTune
    <3>4. CASE w.items[z] # NoPath
      <4>1. PICK j \in Nat : Says(w, j, "removed", w.items[z])
        BY <2>1, <3>1, <3>4 DEF InTune
      <4>2. \A i \in Nat : Says(x, i, "new", w.next) => i = n + 1
        BY <1>3, <1>4, <1>5 DEF Aligned
      <4>3. j < n + 1 /\ Says(x, j, "removed", w.items[z])
        BY <1>5, <4>1
      <4>4. QED
        BY <2>1, <3>1, <3>4, <4>2, <4>3 DEF InTune
    <3>5. QED
      BY <3>3, <3>4
  <2>4. QED
    BY <2>2, <2>3
<1>7. \A z \in DOMAIN x.items : x.items[z] # NoPath =>
        /\ x.items[z] \in Nat /\ x.items[z] < x.next
        /\ \A y \in Streams : x.path[y] = x.items[z] => y = z
  BY <1>1, <1>3, <1>4 DEF Aligned
<1>8. \A i \in Nat : \A p : Says(x, i, "new", p) => p \in Nat /\ p # NoPath /\ p < x.next
  BY <1>1, <1>2, <1>3, <1>4, <1>5 DEF Aligned, NoPath
<1>9. \A i \in Nat : \A p : Says(x, i, "removed", p) =>
        p \in Nat /\ p # NoPath /\ p < x.next /\ \A z \in Streams : x.path[z] # p
  BY <1>1, <1>3, <1>4, <1>5 DEF Aligned
<1>10. Aligned(x)
  BY <1>1, <1>3, <1>6, <1>7, <1>8, <1>9 DEF Aligned
<1>11. QED
  BY <1>1, <1>3, <1>10 DEF Tuned

LEMMA SetLevelSteady ==
  ASSUME NEW w, Steady(w), NEW s \in Streams, NEW c
  PROVE  Steady(SetLevel(w, s, c))
<1> DEFINE x == SetLevel(w, s, c)
<1>1. LevelSet(x, w, s, c) /\ (Quietly(x, w, s, c) \/ Announced(x, w, s, c) \/ Told(x, w, s, c))
  BY SetLevelIs DEF Steady
<1> HIDE DEF x
<1>2. SameMap(x, w) /\ Typed(x)
  BY <1>1 DEF LevelSet
<1>3. PathsApart(x)
  <2>1. PathsApart(w)
    BY DEF Steady
  <2>2. CASE w.path[s] # NoPath
    <3>1. x.next = w.next /\ \A z \in Streams : x.path[z] = w.path[z]
      BY <1>1, <2>2 DEF LevelSet
    <3>2. QED
      BY <2>1, <3>1 DEF PathsApart
  <2>3. CASE w.path[s] = NoPath
    <3>1. /\ x.next = w.next + 1 /\ x.path[s] = w.next
          /\ \A z \in Streams : z # s => x.path[z] = w.path[z]
      BY <1>1, <2>3 DEF LevelSet
    <3>2. \A z \in Streams : z # s => x.path[z] # w.next
      BY <2>1, <3>1 DEF PathsApart
    <3>3. x.next \in Nat /\ x.next > 0 /\ \A z \in Streams : x.path[z] \in Nat /\ x.path[z] < x.next
      BY <2>1, <3>1 DEF PathsApart
    <3>4. \A y, z \in Streams : x.path[y] # NoPath /\ x.path[y] = x.path[z] => y = z
      BY <2>1, <3>1, <3>2 DEF PathsApart
    <3>5. QED
      BY <3>3, <3>4 DEF PathsApart
  <2>4. QED
    BY <2>2, <2>3
<1>4. ASSUME w.bus # "up"
      PROVE  x.signals = w.signals
  BY <1>1, <1>4 DEF Announced, Told, Quietly, Listens, Hears, Alive
<1>5. x.bus = None => Cut(x)
  BY <1>2, <1>4 DEF Steady, Cut, SameMap, None
<1>6. ASSUME w.bus # None
      PROVE  VolumesAreOfItems(x)
  <2>1. VolumesAreOfItems(w) /\ x.items = w.items
    BY <1>2, <1>6 DEF Steady, SameMap
  <2>2. CASE Quietly(x, w, s, c)
    <3>1. \A i, k, p : Says(x, i, k, p) <=> Says(w, i, k, p)
      BY <2>2, SaysSame DEF Quietly
    <3>2. QED
      BY <2>1, <3>1 DEF VolumesAreOfItems
  <2>3. CASE Announced(x, w, s, c)
    <3> DEFINE e == [kind |-> "new", path |-> w.next, channels |-> c]
    <3>1. e.kind = "new"
      OBVIOUS
    <3>2. More(x, w, e)
      BY <2>3 DEF Announced
    <3> HIDE DEF e
    <3>3. SaidMore(x, w, e)
      BY <3>2, SaysMore
    <3>4. \A i \in Nat : \A p : Says(x, i, "volume", p) <=> Says(w, i, "volume", p)
      BY <3>1, <3>3 DEF SaidMore
    <3>5. \A i \in Nat : \A p : Says(x, i, "removed", p) <=> Says(w, i, "removed", p)
      BY <3>1, <3>3 DEF SaidMore
    <3>6. QED
      BY <2>1, <3>4, <3>5 DEF VolumesAreOfItems
  <2>4. CASE Told(x, w, s, c)
    <3> DEFINE e == [kind |-> "volume", path |-> w.path[s], channels |-> c]
    <3>1. e.kind = "volume" /\ e.path = w.path[s]
      OBVIOUS
    <3>2. More(x, w, e) /\ Hears(w, s)
      BY <2>4 DEF Told
    <3> HIDE DEF e
    <3>3. SaidMore(x, w, e)
      BY <3>2, SaysMore
    <3>4. \A i \in Nat : \A p : Says(x, i, "volume", p) => Says(w, i, "volume", p) \/ p = w.path[s]
      BY <3>1, <3>3 DEF SaidMore
    <3>5. \A i \in Nat : \A p : Says(x, i, "removed", p) <=> Says(w, i, "removed", p)
      BY <3>1, <3>3 DEF SaidMore
    <3>6. /\ w.bus = "up" /\ w.path[s] # NoPath /\ s \in DOMAIN w.items
          /\ w.items[s] = w.path[s]
      BY <3>2, HeardIsItem
    <3>7. \A i \in Nat : ~Says(w, i, "removed", w.path[s])
      BY <3>6 DEF Steady, Tuned, Aligned
    <3>8. QED
      BY <2>1, <3>4, <3>5, <3>6, <3>7 DEF VolumesAreOfItems
  <2>5. QED
    BY <1>1, <2>2, <2>3, <2>4
<1>7. x.bus # None => ItemsApart(x) /\ Mapped(x) /\ x.freedKeys = FALSE
  BY <1>2 DEF Steady, ItemsApart, Mapped, SameMap
<1>8. x.bus = "up" => Tuned(x)
  BY <1>1, <1>2, SetLevelTunes DEF SameMap
<1>9. QED
  BY <1>2, <1>3, <1>5, <1>6, <1>7, <1>8 DEF Steady, SameMap, x

LEMMA HearsSameKeeps ==
  ASSUME NEW w, NEW x, NEW s, HearsSame(x, w, s)
  PROVE  /\ NoneComes(w, s) <=> NoneComes(x, s)
         /\ LastIsNow(w, s) <=> LastIsNow(x, s)
BY DEF HearsSame, NoneComes, LastIsNow

\* What is carried over stays there.
SameCarried(x, w, t) ==
  /\ x.level[t.src] = w.level[t.src]
  /\ t.toContext => /\ t.dst \in DOMAIN w.values => t.dst \in DOMAIN x.values
                    /\ t.dst \in DOMAIN w.values => x.values[t.dst] = w.values[t.dst]
  /\ ~t.toContext => /\ t.dst \in w.lost \cup w.reordered => t.dst \in x.lost \cup x.reordered
                     /\ x.level[t.dst] = w.level[t.dst]

LEMMA SameCarriedKeeps ==
  ASSUME NEW w, NEW x, NEW t, SameCarried(x, w, t), CarriedOver(w, t)
  PROVE  CarriedOver(x, t)
BY DEF SameCarried, CarriedOver

LEMMA FollowsKeeps ==
  ASSUME NEW w, NEW x, NEW t, HearsSame(x, w, t.src), SameCarried(x, w, t), Follows(w, t)
  PROVE  Follows(x, t)
BY HearsSameKeeps, SameCarriedKeeps DEF Follows, HearsSame

LEMMA SetLevelFollows ==
  ASSUME NEW w, Steady(w), NEW s \in Streams, NEW c, NEW t \in Transforms, Follows(w, t),
         ~t.toContext => t.dst # s
  PROVE  Follows(SetLevel(w, s, c), t)
<1> DEFINE x == SetLevel(w, s, c)
           z == t.src
<1>1. LevelSet(x, w, s, c)
  BY SetLevelIs DEF Steady
<1>2. z \in Subscribed /\ z \in Streams /\ (~t.toContext => t.dst \in Streams)
  BY StreamRestoreAssumption DEF Subscribed
<1>3. /\ z # s \/ w.level[s] = c => HearsSame(x, w, z)
      /\ z = s /\ w.level[s] # c => z \in x.missed \/ LastIsNow(x, z)
  BY <1>2, SetLevelHears
<1> HIDE DEF x
<1>4. ASSUME z = s /\ w.level[s] # c
      PROVE  Follows(x, t)
  BY <1>3, <1>4 DEF Follows
<1>5. ASSUME ~(z = s /\ w.level[s] # c)
      PROVE  Follows(x, t)
  <2>1. HearsSame(x, w, z)
    BY <1>3, <1>5
  <2>2. SameCarried(x, w, t)
    BY <1>1, <1>2, <1>5 DEF LevelSet, SameCarried
  <2>3. QED
    BY <2>1, <2>2, FollowsKeeps
<1>6. QED
  BY <1>4, <1>5 DEF x

-----------------------------------------------------------------------------
(* What the calls to PulseAudio do to them.                                *)

\* Nothing changes that Steady speaks of.
SameBut(x, w) ==
  /\ Typed(x) /\ SameMap(x, w) /\ x.signals = w.signals
  /\ x.level = w.level /\ x.path = w.path /\ x.next = w.next
SameSteady(x, w) == SameBut(x, w) /\ x.missed = w.missed

LEMMA SameButKeeps ==
  ASSUME NEW w, Steady(w), NEW x, SameBut(x, w)
  PROVE  /\ Steady(x)
         /\ \A z : (z \in x.missed <=> z \in w.missed) => HearsSame(x, w, z)
<1>1. \A i, k, p : Says(x, i, k, p) <=> Says(w, i, k, p)
  BY SaysSame DEF SameBut
<1>2. /\ Typed(x) /\ x.bus = w.bus /\ x.items = w.items /\ x.objectMap = w.objectMap
      /\ x.freedKeys = w.freedKeys /\ x.complete = w.complete
      /\ x.queueSubscribe = w.queueSubscribe /\ x.heeded = w.heeded
      /\ x.signals = w.signals
      /\ x.level = w.level /\ x.path = w.path /\ x.next = w.next
  BY DEF SameBut, SameMap
<1>3. PathsApart(x) /\ (x.bus = None => Cut(x))
  BY <1>2 DEF Steady, PathsApart, Cut
<1>4. ASSUME w.bus # None
      PROVE  ItemsApart(x) /\ VolumesAreOfItems(x) /\ Mapped(x) /\ x.freedKeys = FALSE
  BY <1>1, <1>2, <1>4 DEF Steady, ItemsApart, VolumesAreOfItems, Mapped
<1>5. ASSUME w.bus = "up"
      PROVE  Tuned(x)
  <2>1. Tuned(w)
    BY <1>5 DEF Steady
  <2>2. \A s : InTune(w, s) => InTune(x, s)
    BY <1>1, <1>2 DEF InTune
  <2>3. Aligned(x)
    BY <1>1, <1>2, <2>1, <2>2 DEF Tuned, Aligned
  <2>4. QED
    BY <1>2, <2>1, <2>3 DEF Tuned
<1>6. \A z : (z \in x.missed <=> z \in w.missed) => HearsSame(x, w, z)
  BY <1>1, <1>2 DEF HearsSame, Comes, ItemOf
<1>7. QED
  BY <1>2, <1>3, <1>4, <1>5, <1>6 DEF Steady

LEMMA SameSteadyKeeps ==
  ASSUME NEW w, Steady(w), NEW x, SameSteady(x, w)
  PROVE  Steady(x) /\ \A z : HearsSame(x, w, z)
BY SameButKeeps DEF SameSteady

\* What a volume that is sent, or waits, for the stream s leaves alone.
Kept(x, w) ==
  x.bus = w.bus /\ x.items = w.items /\ x.known = w.known /\ x.values = w.values
SentTo(x, w, s) ==
  /\ Steady(x) /\ Kept(x, w)
  /\ \A t \in Transforms : Follows(w, t) /\ (~t.toContext => t.dst # s) => Follows(x, t)
  /\ \A z \in Subscribed : z # s => HearsSame(x, w, z)

LEMMA SameSent ==
  ASSUME NEW w, Steady(w), NEW x, SameSteady(x, w), x.values = w.values, x.known = w.known, NEW s,
         \A z \in Streams : z # s => (z \in w.lost \cup w.reordered => z \in x.lost \cup x.reordered)
  PROVE  SentTo(x, w, s)
<1>1. Steady(x) /\ \A z : HearsSame(x, w, z)
  BY SameSteadyKeeps
<1>2. Kept(x, w) /\ x.level = w.level
  BY DEF SameSteady, SameBut, SameMap, Kept
<1>3. ASSUME NEW t \in Transforms, Follows(w, t), ~t.toContext => t.dst # s
      PROVE  Follows(x, t)
  <2>1. ~t.toContext => t.dst \in Streams
    BY StreamRestoreAssumption
  <2>2. SameCarried(x, w, t)
    BY <1>2, <1>3, <2>1 DEF SameCarried, Kept
  <2>3. QED
    BY <1>1, <1>3, <2>2, FollowsKeeps
<1>4. QED
  BY <1>1, <1>2, <1>3 DEF SentTo

LEMMA SentOn ==
  ASSUME NEW w, NEW x, NEW y, NEW s, SentTo(x, w, s), SentTo(y, x, s)
  PROVE  SentTo(y, w, s)
<1>1. Steady(y) /\ Kept(y, w)
  BY DEF SentTo, Kept
<1>2. \A z : HearsSame(x, w, z) /\ HearsSame(y, x, z) => HearsSame(y, w, z)
  BY DEF HearsSame
<1>3. \A z \in Subscribed : z # s => HearsSame(y, w, z)
  BY <1>2 DEF SentTo
<1>4. QED
  BY <1>1, <1>3 DEF SentTo

LEMMA SetLevelSends ==
  ASSUME NEW w, Steady(w), NEW s \in Streams, NEW c
  PROVE  SentTo(SetLevel(w, s, c), w, s)
<1> DEFINE x == SetLevel(w, s, c)
<1>1. LevelSet(x, w, s, c)
  BY SetLevelIs DEF Steady
<1>2. Steady(x) /\ \A t \in Transforms : Follows(w, t) /\ (~t.toContext => t.dst # s) => Follows(x, t)
  BY SetLevelSteady, SetLevelFollows
<1>3. \A z \in Subscribed : z # s => HearsSame(x, w, z)
  BY SetLevelHears
<1> HIDE DEF x
<1>4. QED
  BY <1>1, <1>2, <1>3 DEF LevelSet, SameMap, SentTo, Kept, x

LEMMA AddEntrySends ==
  ASSUME NEW w, Steady(w), NEW s \in Streams, NEW v
  PROVE  LET x == AddEntry(w, s, v)
         IN  SentTo(x, w, s) /\ (s \notin x.lost => x.level[s] = <<ToPa(v)>>)
<1> DEFINE x == AddEntry(w, s, v)
           y == SetLevel(w, s, <<ToPa(v)>>)
<1>1. SentTo(y, w, s)
  BY SetLevelSends
<1>a. LevelSet(y, w, s, <<ToPa(v)>>)
  BY SetLevelIs DEF Steady
<1> HIDE DEF y
<1>2. y.level[s] = <<ToPa(v)>>
  BY <1>a DEF LevelSet
<1>3. CASE Alive(w)
  <2>1. x = [y EXCEPT !.lost = @ \ {s}]
    BY <1>3 DEF AddEntry, y
  <2> HIDE DEF x
  <2>2. Steady(y) /\ Typed(y)
    BY <1>1 DEF SentTo, Steady
  <2>3. /\ SameSteady(x, y) /\ x.values = y.values /\ x.known = y.known
        /\ x.reordered = y.reordered /\ x.lost = y.lost \ {s}
    BY <2>1, <2>2 DEF Typed, IsWorld, Fields, SameSteady, SameBut, SameMap
  <2>4. SentTo(x, y, s)
    BY <2>2, <2>3, SameSent
  <2>5. x.level[s] = <<ToPa(v)>>
    BY <1>2, <2>3 DEF SameSteady, SameBut
  <2>6. QED
    BY <1>1, <2>4, <2>5, SentOn DEF x
<1>4. CASE ~Alive(w)
  <2>1. x = [w EXCEPT !.lost = @ \cup {s}]
    BY <1>4 DEF AddEntry
  <2> HIDE DEF x
  <2>2. /\ SameSteady(x, w) /\ x.values = w.values /\ x.known = w.known
        /\ x.reordered = w.reordered /\ x.lost = w.lost \cup {s}
    BY <2>1 DEF Steady, Typed, IsWorld, Fields, SameSteady, SameBut, SameMap
  <2>3. SentTo(x, w, s)
    BY <2>2, SameSent
  <2>4. QED
    BY <2>2, <2>3 DEF x
<1>5. QED
  BY <1>3, <1>4

LEMMA QueueSetSends ==
  ASSUME NEW w, Steady(w), NEW s \in Streams, NoDst(s), NEW v
  PROVE  SentTo(QueueSet(w, s, v), w, s)
<1> DEFINE waits == \E i \in DOMAIN w.queue : w.queue[i].op = "set" /\ w.queue[i].stream = s
           e == [op |-> "set", stream |-> s, volume |-> v]
           p == <<e>> \o w.queue
           x == QueueSet(w, s, v)
<1>1. x = [w EXCEPT !.queue = p, !.reordered = IF waits THEN @ \cup {s} ELSE @ \ {s}]
  BY DEF QueueSet
<1>2. e.stream = s
  OBVIOUS
<1> HIDE DEF e
<1>3. Longer(p, e, w.queue)
  BY InFront DEF Steady, Typed, IsWorld
<1> HIDE DEF waits, x, p
<1>4. IsList(p) /\ QueueOwn(p)
  <2>1. QueueOwn(w.queue)
    BY DEF Steady, Typed
  <2>2. \A i \in 1..Len(p) : p[i] = e \/ \E j \in 1..Len(w.queue) : p[i] = w.queue[j]
    BY <1>3 DEF Longer
  <2>3. QED
    BY <1>2, <1>3, <2>1, <2>2 DEF QueueOwn, Longer
<1>5. /\ SameSteady(x, w) /\ x.values = w.values /\ x.known = w.known /\ x.lost = w.lost
      /\ x.reordered = IF waits THEN w.reordered \cup {s} ELSE w.reordered \ {s}
  BY <1>1, <1>4 DEF Steady, Typed, IsWorld, Fields, SameSteady, SameBut, SameMap
<1>6. QED
  BY <1>5, SameSent DEF x

LEMMA UpdateSends ==
  ASSUME NEW w, Steady(w), NEW s \in Streams, w.bus = None => NoDst(s), NEW v
  PROVE  LET x == Update(w, s, v)
         IN  /\ SentTo(x, w, s)
             /\ w.bus # None /\ s \notin x.lost => x.level[s] = <<ToPa(v)>>
<1> DEFINE x == Update(w, s, v)
<1>1. CASE w.bus = None
  <2>1. x = QueueSet(w, s, v)
    BY <1>1 DEF Update
  <2>2. QED
    BY <1>1, <2>1, QueueSetSends
<1>2. CASE w.bus # None
  <2> DEFINE y == AddEntry(w, s, v)
  <2>1. x = [y EXCEPT !.reordered = @ \ {s}]
    BY <1>2 DEF Update
  <2>2. SentTo(y, w, s) /\ (s \notin y.lost => y.level[s] = <<ToPa(v)>>)
    BY AddEntrySends
  <2> HIDE DEF y, x
  <2>3. Steady(y) /\ Typed(y)
    BY <2>2 DEF SentTo, Steady
  <2>4. /\ SameSteady(x, y) /\ x.values = y.values /\ x.known = y.known
        /\ x.lost = y.lost /\ x.reordered = y.reordered \ {s}
    BY <2>1, <2>3 DEF Typed, IsWorld, Fields, SameSteady, SameBut, SameMap
  <2>5. SentTo(x, y, s) /\ x.level = y.level
    BY <2>3, <2>4, SameSent DEF SameSteady, SameBut
  <2>6. QED
    BY <2>2, <2>4, <2>5, SentOn DEF x
<1>3. QED
  BY <1>1, <1>2

-----------------------------------------------------------------------------
(* The context: the roles that follow a key do not disturb the transforms. *)

Going(x, w) ==
  /\ Steady(x) /\ Kept(x, w)
  /\ \A t \in Transforms : Follows(w, t) => Follows(x, t)

LEMMA GoingOn ==
  ASSUME NEW w, NEW x, NEW y, Going(x, w), Going(y, x)
  PROVE  Going(y, w)
BY DEF Going, Kept

LEMMA SentGoes ==
  ASSUME NEW w, NEW x, NEW s, NoDst(s), SentTo(x, w, s)
  PROVE  Going(x, w)
BY DEF NoDst, SentTo, Going

LEMMA RolesHaveNoDst ==
  ASSUME TransformsAreOwn, NEW r \in DOMAIN Roles
  PROVE  NoDst(r) /\ r \in Streams
BY StreamRestoreAssumption DEF TransformsAreOwn, NoDst

LEMMA RoleSeesGoes ==
  ASSUME TransformsAreOwn, NEW w, Steady(w), NEW r \in DOMAIN Roles, NEW k, NEW v
  PROVE  Going(RoleSees(w, r, k, v), w)
<1> DEFINE vals   == [i \in DOMAIN Roles[r] |->
                        IF Roles[r][i].key = k THEN v ELSE w.roles[r].vals[i]]
           volume == RoleVolume(Roles[r], vals, w.route)
           role   == [vals |-> vals, volume |-> volume]
           after  == [w EXCEPT !.roles[r] = role, !.rerouted = @ \ {r}]
           x      == RoleSees(w, r, k, v)
<1>1. x = w \/ x = after \/ x = Update(after, r, volume)
  BY DEF RoleSees
<1>2. NoDst(r) /\ r \in Streams
  BY RolesHaveNoDst
<1>a. IsFunction(vals, DOMAIN Roles[r])
  BY DEF IsFunction
<1> HIDE DEF vals
<1>3. DOMAIN role = {"vals", "volume"} /\ role.vals = vals
  OBVIOUS
<1> HIDE DEF volume, role, x
<1>4. /\ SameSteady(after, w) /\ after.values = w.values /\ after.known = w.known
      /\ after.lost = w.lost /\ after.reordered = w.reordered
  BY <1>3, <1>a DEF Steady, Typed, IsWorld, Fields, SameSteady, SameBut, SameMap
<1> HIDE DEF after
<1>5. Going(after, w)
  BY <1>2, <1>4, SameSent, SentGoes
<1>6. Going(Update(after, r, volume), after)
  <2>1. Steady(after)
    BY <1>5 DEF Going
  <2>2. SentTo(Update(after, r, volume), after, r)
    BY <1>2, <2>1, UpdateSends
  <2>3. QED
    BY <1>2, <2>2, SentGoes
<1>7. Going(w, w)
  BY DEF Going, Kept
<1>8. QED
  BY <1>1, <1>5, <1>6, <1>7, GoingOn DEF x

LEMMA KeyChangesGoes ==
  ASSUME TransformsAreOwn, NEW w, Steady(w), NEW k, NEW v
  PROVE  Going(KeyChanges(w, k, v), w)
<1> DEFINE s == w.known
           n == Len(s)
           g == CHOOSE h : SeenBy(w, s, k, v, Len(s), h)
           P(m) == Going(g[m], w)
           T == {m \in Nat : m <= n => P(m)}
<1>0. s \in Seq(DOMAIN Roles) /\ n \in Nat /\ \A i \in 1..n : s[i] \in DOMAIN Roles
  BY DEF Steady, Typed, IsWorld
<1>1. SeenBy(w, s, k, v, Len(s), g)
  BY <1>0, SeenByExists, Zenon
<1>2. KeyChanges(w, k, v) = g[n]
  BY DEF KeyChanges, Through, SeenBy
<1> HIDE DEF g
<1>3. \A m \in 0..n : g[m] = IF m = 0 THEN w ELSE RoleSees(g[m - 1], s[m], k, v)
  BY <1>1 DEF SeenBy
<1>4. 0 \in T
  <2>1. g[0] = w
    BY <1>0, <1>3
  <2>2. QED
    BY <2>1 DEF Going, Kept
<1> HIDE DEF s, n
<1>5. ASSUME NEW m \in Nat, m \in T
      PROVE  m + 1 \in T
  <2>1. SUFFICES ASSUME m + 1 <= n
                 PROVE  P(m + 1)
    OBVIOUS
  <2>2. P(m) /\ s[m + 1] \in DOMAIN Roles /\ m + 1 \in 1..n
    BY <1>0, <1>5, <2>1
  <2>3. g[m + 1] = RoleSees(g[m], s[m + 1], k, v)
    BY <1>0, <1>3, <2>2
  <2> DEFINE y == g[m]
             r == s[m + 1]
  <2>4. Steady(y) /\ Going(y, w) /\ r \in DOMAIN Roles
    BY <2>2 DEF Going
  <2> HIDE DEF y, r
  <2>5. Going(RoleSees(y, r, k, v), y)
    BY <2>4, RoleSeesGoes
  <2>6. QED
    BY <2>3, <2>4, <2>5, GoingOn DEF y, r
<1>6. Nat \subseteq T
  <2> HIDE DEF T
  <2>1. QED
    BY <1>4, <1>5, SetInduction
<1>7. P(n)
  <2>1. n \in T
    BY <1>0, <1>6
  <2>2. QED
    BY <1>0, <2>1
<1>8. QED
  BY <1>2, <1>7 DEF n, s

\* A key is in the context now.
SetContextIs(u, w, k, v) ==
  /\ SameSteady(u, w) /\ u.known = w.known /\ u.lost = w.lost /\ u.reordered = w.reordered
  /\ k \in DOMAIN u.values /\ u.values[k] = v
  /\ \A y \in DOMAIN w.values : y # k => y \in DOMAIN u.values /\ u.values[y] = w.values[y]

LEMMA SetContextGoes ==
  ASSUME TransformsAreOwn, NEW w, Steady(w), NEW k, NEW v
  PROVE  \E u : SetContextIs(u, w, k, v) /\ Going(SetContext(w, k, v), u)
<1> DEFINE values == [y \in DOMAIN w.values \cup {k} |-> IF y = k THEN v ELSE w.values[y]]
           u == [w EXCEPT !.values = values]
<1>1. SetContext(w, k, v) = KeyChanges(u, k, v)
  BY DEF SetContext
<1>2. /\ DOMAIN values = DOMAIN w.values \cup {k} /\ values[k] = v
      /\ \A y \in DOMAIN w.values : y # k => values[y] = w.values[y]
  OBVIOUS
<1> HIDE DEF values
<1>3. SetContextIs(u, w, k, v)
  <2>1. /\ SameSteady(u, w) /\ u.known = w.known /\ u.lost = w.lost
        /\ u.reordered = w.reordered /\ u.values = values
    BY DEF Steady, Typed, IsWorld, Fields, SameSteady, SameBut, SameMap
  <2> HIDE DEF u
  <2>2. QED
    BY <1>2, <2>1 DEF SetContextIs
<1> HIDE DEF u
<1>4. Steady(u)
  BY <1>3, SameSteadyKeeps DEF SetContextIs
<1>5. Going(KeyChanges(u, k, v), u)
  BY <1>4, KeyChangesGoes
<1>6. QED
  BY <1>1, <1>3, <1>5

-----------------------------------------------------------------------------
(* A volume is heard, or asked for, and carried over.                      *)

LEMMA ItemAtIs ==
  ASSUME NEW w, Mapped(w), ItemsApart(w), NEW p
  PROVE  /\ \A s \in DOMAIN w.items : w.items[s] = p /\ p # NoPath => ItemAt(w, p) = s
         /\ ItemAt(w, p) # None => /\ p # NoPath /\ ItemAt(w, p) \in DOMAIN w.items
                                   /\ w.items[ItemAt(w, p)] = p
<1>1. ASSUME NEW m \in w.objectMap, m[1] = p
      PROVE  p # NoPath /\ m[2] \in DOMAIN w.items /\ w.items[m[2]] = p
  <2>1. PICK s \in DOMAIN w.items : w.items[s] # NoPath /\ m = <<w.items[s], s>>
    BY <1>1 DEF Mapped
  <2>2. m[1] = w.items[s] /\ m[2] = s
    BY <2>1
  <2>3. QED
    BY <1>1, <2>1, <2>2
<1>2. ASSUME NEW s \in DOMAIN w.items, w.items[s] = p, p # NoPath
      PROVE  ItemAt(w, p) = s
  <2> DEFINE e == <<w.items[s], s>>
  <2>1. e \in w.objectMap /\ e[1] = p
    BY <1>2 DEF Mapped
  <2> HIDE DEF e
  <2> DEFINE m == CHOOSE a \in w.objectMap : a[1] = p
  <2>2. m \in w.objectMap /\ m[1] = p
    BY <2>1
  <2>3. ItemAt(w, p) = m[2]
    BY <2>1 DEF ItemAt
  <2> HIDE DEF m
  <2>4. m[2] \in DOMAIN w.items /\ w.items[m[2]] = p
    BY <1>1, <2>2
  <2>5. QED
    BY <1>2, <2>3, <2>4 DEF ItemsApart
<1>3. ASSUME ItemAt(w, p) # None
      PROVE  p # NoPath /\ ItemAt(w, p) \in DOMAIN w.items /\ w.items[ItemAt(w, p)] = p
  <2> DEFINE m == CHOOSE a \in w.objectMap : a[1] = p
  <2>1. \E a \in w.objectMap : a[1] = p
    BY <1>3 DEF ItemAt
  <2>2. m \in w.objectMap /\ m[1] = p
    BY <2>1
  <2>3. ItemAt(w, p) = m[2]
    BY <2>1 DEF ItemAt
  <2> HIDE DEF m
  <2>4. QED
    BY <1>1, <2>2, <2>3
<1>4. QED
  BY <1>2, <1>3

\* What VolumeChanged is told is what the stream has, or something else comes.
Ready(w, s, v) ==
  \/ s \in w.missed
  \/ LastIsNow(w, s)
  \/ /\ NoneComes(w, s)
     /\ v = FromPa(Average(w.level[s])) \/ v = FromPa(Queried(w.level[s]))

\* All is well after it.
Well(x, w) ==
  Steady(x) /\ AllFollow(x) /\ x.bus = w.bus /\ x.items = w.items /\ x.known = w.known

OthersFollow(w, s) == \A t \in Transforms : t.src # s => Follows(w, t)

LEMMA VolumeChangedFollows ==
  ASSUME TransformsAreOwn, NEW w, Steady(w), w.bus # None, NEW s \in Subscribed, NEW v,
         Ready(w, s, v), OthersFollow(w, s)
  PROVE  Well(VolumeChanged(w, s, v), w)
<1> DEFINE t == TransformOf(s)
           c == Carried(t, v)
           x == VolumeChanged(w, s, v)
<1>1. t \in Transforms /\ t.src = s
  BY TransformOfIs
<1>2. \A u \in Transforms : u # t => Follows(w, u)
  BY <1>1, StreamRestoreAssumption DEF OthersFollow
<1>3. x = IF t.toContext THEN SetContext(w, t.dst, c) ELSE Update(w, t.dst, c)
  BY DEF VolumeChanged
<1>4. \A u \in Transforms : (u.toContext <=> t.toContext) /\ u.dst = t.dst => u = t
  BY <1>1 DEF TransformsAreOwn
<1> HIDE DEF t
<1>5. ASSUME t.toContext
      PROVE  Well(x, w)
  <2>1. PICK u : SetContextIs(u, w, t.dst, c) /\ Going(SetContext(w, t.dst, c), u)
    BY SetContextGoes
  <2>2. Going(x, u)
    BY <1>3, <1>5, <2>1
  <2> HIDE DEF x
  <2>3. /\ u.items = w.items /\ u.bus = w.bus /\ u.known = w.known /\ u.level = w.level
        /\ u.missed = w.missed /\ u.lost = w.lost /\ u.reordered = w.reordered
        /\ t.dst \in DOMAIN u.values /\ u.values[t.dst] = c
        /\ \A y \in DOMAIN w.values : y # t.dst => y \in DOMAIN u.values /\ u.values[y] = w.values[y]
    BY <2>1 DEF SetContextIs, SameSteady, SameBut, SameMap
  <2>4. \A z : HearsSame(u, w, z)
    BY <2>1, SameSteadyKeeps DEF SetContextIs
  <2>5. ASSUME NEW o \in Transforms, o # t
        PROVE  Follows(u, o)
    <3>1. o.toContext => o.dst # t.dst
      BY <1>4, <1>5, <2>5
    <3>2. SameCarried(u, w, o)
      BY <2>3, <3>1 DEF SameCarried
    <3>3. QED
      BY <1>2, <2>4, <2>5, <3>2, FollowsKeeps
  <2>6. Follows(u, t)
    <3>1. /\ NoneComes(w, s) => NoneComes(u, s)
          /\ LastIsNow(w, s) => LastIsNow(u, s)
      BY <2>4, HearsSameKeeps
    <3>2. v = FromPa(Average(w.level[s])) \/ v = FromPa(Queried(w.level[s])) => CarriedOver(u, t)
      BY <1>1, <1>5, <2>3 DEF CarriedOver
    <3>3. QED
      BY <1>1, <2>3, <3>1, <3>2 DEF Ready, Follows
  <2>7. \A o \in Transforms : Follows(u, o)
    BY <2>5, <2>6
  <2>8. QED
    BY <2>2, <2>3, <2>7 DEF Going, Kept, Well, AllFollow
<1>6. ASSUME ~t.toContext
      PROVE  Well(x, w)
  <2>1. t.dst \in Streams /\ t.dst # s
    BY <1>1, <1>6, StreamRestoreAssumption DEF TransformsAreOwn
  <2>2. x = Update(w, t.dst, c)
    BY <1>3, <1>6
  <2> HIDE DEF x, c
  <2>3. SentTo(x, w, t.dst) /\ (t.dst \notin x.lost => x.level[t.dst] = <<ToPa(c)>>)
    BY <2>1, <2>2, UpdateSends
  <2>4. ASSUME NEW o \in Transforms, o # t
        PROVE  Follows(x, o)
    <3>1. Follows(w, o)
      BY <1>2, <2>4
    <3>2. (o.toContext <=> t.toContext) /\ o.dst = t.dst => o = t
      BY <1>4, <2>4
    <3>3. ~o.toContext => o.dst # t.dst
      BY <1>4, <1>6, <2>4, <3>2
    <3>4. QED
      BY <2>3, <3>1, <3>3 DEF SentTo
  <2>5. HearsSame(x, w, s)
    BY <2>1, <2>3 DEF SentTo
  <2>6. Follows(x, t)
    <3>1. /\ NoneComes(w, s) => NoneComes(x, s)
          /\ LastIsNow(w, s) => LastIsNow(x, s)
          /\ s \in w.missed => s \in x.missed
          /\ x.level[s] = w.level[s]
      BY <2>5, HearsSameKeeps DEF HearsSame
    <3>2. v = FromPa(Average(w.level[s])) \/ v = FromPa(Queried(w.level[s])) => CarriedOver(x, t)
      BY <1>1, <1>6, <2>3, <3>1 DEF CarriedOver, c
    <3>3. QED
      BY <1>1, <3>1, <3>2 DEF Ready, Follows
  <2>7. \A o \in Transforms : Follows(x, o)
    BY <2>4, <2>6
  <2>8. QED
    BY <2>3, <2>7 DEF SentTo, Kept, Well, AllFollow
<1>7. QED
  BY <1>5, <1>6

LEMMA HeardReady ==
  ASSUME NEW w, Steady(w), w.bus # None, NEW s \in Subscribed, NEW c, NEW v,
         v = FromPa(Average(c)) \/ v = FromPa(Queried(c)),
         s \in w.missed \/ LastIsNow(w, s) \/ (NoneComes(w, s) /\ w.level[s] = c),
         OthersFollow(w, s)
  PROVE  LET x == Heard(w, s, c)
         IN  /\ Steady(x) /\ x.bus = w.bus /\ x.items = w.items /\ x.known = w.known
             /\ Ready(x, s, v) /\ OthersFollow(x, s)
<1> DEFINE waits == \E i \in DOMAIN w.signals :
                      w.signals[i].kind = "volume" /\ ItemAt(w, w.signals[i].path) = s
           y == [w EXCEPT !.missed = @ \ {s}]
           x == Heard(w, s, c)
<1>1. x = IF Alive(w) /\ w.level[s] = c /\ ~waits THEN y ELSE w
  BY DEF Heard
<1>2. ASSUME ~waits
      PROVE  NoneComes(w, s)
  <2>1. SUFFICES ASSUME NEW i \in Nat, Comes(w, s, i)
                 PROVE  FALSE
    BY DEF NoneComes
  <2> DEFINE p == ItemOf(w, s)
  <2>2. p # NoPath /\ i \in 1..Len(w.signals) /\ w.signals[i].kind = "volume" /\ w.signals[i].path = p
    BY <2>1 DEF Comes, Says
  <2>3. s \in DOMAIN w.items /\ w.items[s] = p
    BY <2>2 DEF ItemOf
  <2> HIDE DEF p
  <2>4. ItemAt(w, p) = s
    BY <2>2, <2>3, ItemAtIs DEF Steady
  <2>5. DOMAIN w.signals = 1..Len(w.signals)
    BY DEF Steady, Typed, IsList
  <2>6. QED
    BY <1>2, <2>2, <2>4, <2>5
<1>3. ASSUME Alive(w) /\ w.level[s] = c /\ ~waits
      PROVE  /\ Steady(x) /\ x.bus = w.bus /\ x.items = w.items /\ x.known = w.known
             /\ Ready(x, s, v) /\ OthersFollow(x, s)
  <2>1. x = y
    BY <1>1, <1>3
  <2> HIDE DEF x
  <2>2. /\ SameBut(x, w) /\ x.known = w.known /\ x.values = w.values /\ x.lost = w.lost
        /\ x.reordered = w.reordered /\ x.missed = w.missed \ {s}
    BY <2>1 DEF Steady, Typed, IsWorld, Fields, SameBut, SameMap
  <2>3. Steady(x) /\ \A z : z # s => HearsSame(x, w, z)
    BY <2>2, SameButKeeps
  <2>4. ASSUME NEW t \in Transforms, t.src # s
        PROVE  Follows(x, t)
    <3>1. SameCarried(x, w, t)
      BY <2>2 DEF SameBut, SameCarried
    <3>2. QED
      BY <2>3, <2>4, <3>1, FollowsKeeps DEF OthersFollow
  <2>5. NoneComes(x, s)
    <3>1. \A i : Comes(x, s, i) <=> Comes(w, s, i)
      BY <2>2, SaysSame DEF SameBut, SameMap, Comes, ItemOf
    <3>2. QED
      BY <1>2, <1>3, <3>1 DEF NoneComes
  <2>6. Ready(x, s, v)
    BY <1>3, <2>2, <2>5 DEF Ready, SameBut
  <2>7. QED
    BY <2>2, <2>3, <2>4, <2>6 DEF OthersFollow, SameBut, SameMap
<1>4. ASSUME ~(Alive(w) /\ w.level[s] = c /\ ~waits)
      PROVE  /\ Steady(x) /\ x.bus = w.bus /\ x.items = w.items /\ x.known = w.known
             /\ Ready(x, s, v) /\ OthersFollow(x, s)
  <2>1. x = w
    BY <1>1, <1>4
  <2> HIDE DEF x
  <2>2. Ready(w, s, v)
    BY DEF Ready
  <2>3. QED
    BY <2>1, <2>2
<1>5. QED
  BY <1>3, <1>4

LEMMA GetEntryVolumeFollows ==
  ASSUME TransformsAreOwn, NEW w, Steady(w), w.bus # None, NEW s \in Streams, AllFollow(w)
  PROVE  Well(GetEntryVolume(w, s), w)
<1> DEFINE p == ObjectPath(w, s)
           item == ItemAt(w, p)
           x == GetEntryVolume(w, s)
           c == w.level[s]
           y == Heard(w, item, c)
           v == FromPa(Queried(c))
<1>1. CASE p = NoPath \/ item = None
  <2>1. x = w
    BY <1>1 DEF GetEntryVolume
  <2>2. QED
    BY <2>1 DEF Well
<1>2. CASE ~(p = NoPath \/ item = None)
  <2>1. x = VolumeChanged(y, item, v)
    BY <1>2 DEF GetEntryVolume
  <2>2. w.bus = "up" /\ w.path[s] = p
    BY <1>2 DEF ObjectPath, Alive
  <2> HIDE DEF p
  <2>3. item \in DOMAIN w.items /\ w.items[item] = p /\ p # NoPath
    BY <1>2, ItemAtIs DEF Steady
  <2>4. item = s /\ s \in Subscribed
    BY <2>2, <2>3 DEF Steady, Tuned, Aligned, Typed, IsWorld
  <2> HIDE DEF item, x
  <2>5. OthersFollow(w, s) /\ (s \in w.missed \/ LastIsNow(w, s) \/ NoneComes(w, s))
    <3>1. TransformOf(s) \in Transforms /\ TransformOf(s).src = s
      BY <2>4, TransformOfIs
    <3>2. QED
      BY <3>1 DEF AllFollow, OthersFollow, Follows
  <2> HIDE DEF y
  <2>6. /\ Steady(y) /\ y.bus = w.bus /\ y.items = w.items /\ y.known = w.known
        /\ Ready(y, s, v) /\ OthersFollow(y, s)
    BY <2>4, <2>5, HeardReady DEF y
  <2>7. Well(VolumeChanged(y, s, v), y)
    BY <2>4, <2>6, VolumeChangedFollows
  <2>8. QED
    BY <2>1, <2>4, <2>6, <2>7 DEF Well, x
<1>3. QED
  BY <1>1, <1>2

LEMMA QueueGetFollows ==
  ASSUME NEW w, Steady(w), AllFollow(w), NEW s \in Streams
  PROVE  Well(QueueGet(w, s), w)
<1> DEFINE e == [op |-> "get", stream |-> s, volume |-> 0]
           p == Append(w.queue, e)
           x == QueueGet(w, s)
<1>1. x = [w EXCEPT !.queue = p]
  BY DEF QueueGet
<1>2. e.stream = s /\ e.op # "set"
  OBVIOUS
<1> HIDE DEF e
<1>3. LongerBehind(p, e, w.queue)
  BY Behind DEF Steady, Typed, IsWorld
<1> HIDE DEF x, p
<1>4. IsList(p) /\ QueueOwn(p)
  <2>1. QueueOwn(w.queue)
    BY DEF Steady, Typed
  <2>2. \A i \in 1..Len(p) : i = Len(w.queue) + 1 \/ i \in 1..Len(w.queue)
    BY <1>3 DEF LongerBehind
  <2>3. \A i \in 1..Len(p) : p[i] = e \/ \E j \in 1..Len(w.queue) : p[i] = w.queue[j]
    BY <1>3, <2>2 DEF LongerBehind
  <2>4. QED
    BY <1>2, <1>3, <2>1, <2>3 DEF QueueOwn, LongerBehind
<1>5. /\ SameSteady(x, w) /\ x.values = w.values /\ x.known = w.known
      /\ x.lost = w.lost /\ x.reordered = w.reordered
  BY <1>1, <1>4 DEF Steady, Typed, IsWorld, Fields, SameSteady, SameBut, SameMap
<1>6. Steady(x) /\ \A z : HearsSame(x, w, z)
  BY <1>5, SameSteadyKeeps
<1>7. \A t : SameCarried(x, w, t)
  BY <1>5 DEF SameSteady, SameBut, SameCarried
<1>8. AllFollow(x)
  BY <1>6, <1>7, FollowsKeeps DEF AllFollow
<1>9. QED
  BY <1>5, <1>6, <1>8 DEF Well, SameSteady, SameBut, SameMap, x

LEMMA GetVolumeFollows ==
  ASSUME TransformsAreOwn, NEW w, Steady(w), AllFollow(w), NEW s \in Streams
  PROVE  Well(GetVolume(w, s), w)
BY GetEntryVolumeFollows, QueueGetFollows DEF GetVolume

-----------------------------------------------------------------------------
(* The object map is made again.                                           *)

\* As Aligned, but for streams whose path is not known.
Near(w) ==
  /\ DOMAIN w.items # {} => w.heeded.entries
  /\ \A s \in DOMAIN w.items : w.items[s] # NoPath =>
       /\ w.items[s] \in Nat /\ w.items[s] < w.next
       /\ \A z \in Streams : w.path[z] = w.items[s] => z = s
  /\ \A i \in Nat : \A p : Says(w, i, "new", p) => p \in Nat /\ p # NoPath /\ p < w.next
  /\ \A i \in Nat : \A p : Says(w, i, "removed", p) =>
       p \in Nat /\ p # NoPath /\ p < w.next /\ \A z \in Streams : w.path[z] # p
  /\ \A s \in DOMAIN w.items : w.items[s] # NoPath => InTune(w, s)

\* What the object map can be made from.
Loose(w) ==
  /\ Typed(w) /\ PathsApart(w) /\ w.bus # None
  /\ ItemsApart(w) /\ VolumesAreOfItems(w)
  /\ w.bus = "up" => Near(w)

LEMMA AlignedIsNear == ASSUME NEW w, Aligned(w) PROVE Near(w)
BY DEF Aligned, Near

\* What the making of the object map leaves alone.
SameRest(x, w) ==
  /\ x.bus = w.bus /\ x.known = w.known /\ x.values = w.values
  /\ x.signals = w.signals
  /\ x.level = w.level /\ x.path = w.path /\ x.next = w.next
  /\ x.missed = w.missed /\ x.lost = w.lost /\ x.reordered = w.reordered

LEMMA SameRestFollows ==
  ASSUME NEW w, NEW x, SameRest(x, w),
         \A z \in Subscribed : (NoneComes(w, z) /\ NoneComes(x, z)) \/ ItemOf(x, z) = ItemOf(w, z),
         NEW t \in Transforms, Follows(w, t)
  PROVE  Follows(x, t)
<1>1. t.src \in Subscribed
  BY DEF Subscribed
<1>2. \A i : Comes(x, t.src, i) <=> Comes(w, t.src, i)
  <2>1. ASSUME NEW i
        PROVE  Comes(x, t.src, i) <=> Comes(w, t.src, i)
    <3>1. CASE ItemOf(x, t.src) = ItemOf(w, t.src)
      BY <3>1, SaysSame DEF SameRest, Comes
    <3>2. CASE NoneComes(w, t.src) /\ NoneComes(x, t.src)
      <4>1. Comes(x, t.src, i) \/ Comes(w, t.src, i) => i \in Nat
        BY DEF Comes, Says
      <4>2. QED
        BY <3>2, <4>1 DEF NoneComes
    <3>3. QED
      BY <1>1, <3>1, <3>2
  <2>2. QED
    BY <2>1
<1>3. HearsSame(x, w, t.src)
  BY <1>2 DEF HearsSame, SameRest
<1>4. SameCarried(x, w, t)
  BY DEF SameCarried, SameRest
<1>5. QED
  BY <1>3, <1>4, FollowsKeeps

Remapped(x, w) ==
  /\ Steady(x) /\ SameRest(x, w) /\ DOMAIN x.items = DOMAIN w.items
  /\ \A t \in Transforms : Follows(w, t) => Follows(x, t)

LEMMA UpdateObjectMapTunes ==
  ASSUME NEW w, Loose(w)
  PROVE  Remapped(UpdateObjectMap(w), w)
<1> DEFINE items == [s \in DOMAIN w.items |->
                       IF w.items[s] = NoPath THEN ObjectPath(w, s) ELSE w.items[s]]
           known == {s \in DOMAIN items : items[s] # NoPath}
           map   == {<<items[s], s>> : s \in known}
           paths == IF Alive(w) THEN {items[s] : s \in known} ELSE w.heeded.paths
           full  == known = DOMAIN items
           x     == [w EXCEPT !.items = items, !.objectMap = map, !.freedKeys = FALSE,
                              !.complete = full, !.heeded.paths = paths]
<1>1. UpdateObjectMap(w) = x
  BY DEF UpdateObjectMap, Loose
<1>2. /\ DOMAIN items = DOMAIN w.items
      /\ \A s \in DOMAIN w.items :
           items[s] = IF w.items[s] = NoPath THEN ObjectPath(w, s) ELSE w.items[s]
  OBVIOUS
<1> HIDE DEF items
<1>3. \A m : m \in map <=> \E s \in DOMAIN items : items[s] # NoPath /\ m = <<items[s], s>>
  OBVIOUS
<1>4. Alive(w) => \A p : p \in paths <=> p # NoPath /\ \E s \in DOMAIN items : items[s] = p
  OBVIOUS
<1>5. full => \A s \in DOMAIN items : items[s] # NoPath
  OBVIOUS
<1>6. \A m \in map : m[2] \in Subscribed
  <2>1. known \subseteq Subscribed
    BY <1>2 DEF Loose, Typed, IsWorld
  <2> HIDE DEF known
  <2>2. QED
    BY <2>1
<1> HIDE DEF map, paths, full, known
<1>7. /\ Typed(x) /\ SameRest(x, w) /\ x.items = items /\ x.objectMap = map
      /\ x.freedKeys = FALSE /\ x.complete = full
      /\ x.heeded.entries = w.heeded.entries /\ x.heeded.paths = paths
  BY <1>2, <1>6 DEF Loose, Typed, IsWorld, Fields, SameRest
<1> HIDE DEF x
<1>8. DOMAIN w.items \subseteq Streams
  BY StreamRestoreAssumption DEF Loose, Typed, IsWorld
\* What is new in the items, is so while the connection is up.
<1>9. \A s \in DOMAIN w.items :
        \/ items[s] = w.items[s]
        \/ /\ w.bus = "up" /\ w.items[s] = NoPath
           /\ items[s] = w.path[s] /\ items[s] # NoPath
  BY <1>2 DEF ObjectPath, Alive
<1>10. PathsApart(x)
  BY <1>7 DEF Loose, PathsApart, SameRest
<1>11. ItemsApart(x)
  <2>1. SUFFICES ASSUME NEW s \in DOMAIN w.items, NEW z \in DOMAIN w.items,
                        items[s] # NoPath, items[s] = items[z]
                 PROVE  s = z
    BY <1>2, <1>7 DEF ItemsApart
  <2>2. CASE items[s] = w.items[s] /\ items[z] = w.items[z]
    BY <2>1, <2>2 DEF Loose, ItemsApart
  <2>3. CASE w.bus = "up" /\ items[s] = w.path[s] /\ items[z] = w.path[z]
    BY <1>8, <2>1, <2>3 DEF Loose, PathsApart
  <2>4. CASE w.bus = "up" /\ items[s] = w.path[s] /\ items[z] = w.items[z]
    BY <1>8, <2>1, <2>4 DEF Loose, Near
  <2>5. CASE w.bus = "up" /\ items[s] = w.items[s] /\ items[z] = w.path[z]
    BY <1>8, <2>1, <2>5 DEF Loose, Near
  <2>6. QED
    BY <1>9, <2>2, <2>3, <2>4, <2>5
<1>12. \A i, k, p : Says(x, i, k, p) <=> Says(w, i, k, p)
  BY <1>7, SaysSame DEF SameRest
<1>13. VolumesAreOfItems(x)
  <2>1. \A p : p # NoPath /\ (\E s \in DOMAIN w.items : w.items[s] = p) =>
          \E s \in DOMAIN x.items : x.items[s] = p
    BY <1>2, <1>7
  <2>2. QED
    BY <1>12, <2>1 DEF Loose, VolumesAreOfItems
<1>14. Mapped(x)
  BY <1>2, <1>3, <1>7 DEF Mapped
<1>15. ASSUME w.bus = "up"
       PROVE  Tuned(x)
  <2>1. Near(w) /\ Alive(w)
    BY <1>15 DEF Loose, Alive
  <2>2. \A s \in DOMAIN w.items : items[s] # NoPath =>
          /\ items[s] \in Nat /\ items[s] < w.next
          /\ \A z \in Streams : w.path[z] = items[s] => z = s
    BY <1>8, <1>9, <2>1 DEF Near, Loose, PathsApart
  <2>3. ASSUME NEW s \in DOMAIN w.items
        PROVE  InTune(x, s)
    <3>1. CASE w.items[s] = NoPath
      BY <1>2, <1>7, <2>1, <3>1 DEF InTune, ObjectPath, SameRest
    <3>2. CASE w.items[s] # NoPath
      <4>1. InTune(w, s) /\ x.items[s] = w.items[s] /\ x.path[s] = w.path[s]
        BY <1>2, <1>7, <2>1, <3>2 DEF Near, SameRest
      <4>2. QED
        BY <1>12, <4>1 DEF InTune
    <3>3. QED
      BY <3>1, <3>2
  <2>4. Aligned(x)
    BY <1>2, <1>7, <1>12, <2>1, <2>2, <2>3 DEF Near, Aligned, SameRest
  <2>5. QED
    BY <1>2, <1>4, <1>5, <1>7, <2>1, <2>4 DEF Tuned
<1>16. Steady(x)
  BY <1>7, <1>10, <1>11, <1>13, <1>14, <1>15 DEF Steady, Loose, SameRest
<1>17. ASSUME NEW z \in Subscribed
       PROVE  (NoneComes(w, z) /\ NoneComes(x, z)) \/ ItemOf(x, z) = ItemOf(w, z)
  <2>1. SUFFICES ASSUME ItemOf(x, z) # ItemOf(w, z)
                 PROVE  NoneComes(w, z) /\ NoneComes(x, z)
    OBVIOUS
  <2>2. /\ z \in DOMAIN w.items /\ w.bus = "up" /\ w.items[z] = NoPath
        /\ items[z] = w.path[z]
    BY <1>2, <1>7, <1>9, <2>1 DEF ItemOf
  <2>3. ItemOf(w, z) = NoPath /\ ItemOf(x, z) = w.path[z]
    BY <1>2, <1>7, <2>2 DEF ItemOf
  <2>4. ASSUME NEW i \in Nat, Says(w, i, "volume", w.path[z]), w.path[z] # NoPath
        PROVE  FALSE
    <3>1. PICK s \in DOMAIN w.items : w.items[s] = w.path[z]
      BY <2>4 DEF Loose, VolumesAreOfItems
    <3>2. z = s
      BY <1>8, <2>2, <2>4, <3>1 DEF Loose, Near
    <3>3. QED
      BY <2>2, <2>4, <3>1, <3>2
  <2>5. QED
    BY <1>12, <2>3, <2>4 DEF NoneComes, Comes
<1>18. \A t \in Transforms : Follows(w, t) => Follows(x, t)
  BY <1>7, <1>17, SameRestFollows
<1>19. QED
  BY <1>1, <1>2, <1>7, <1>16, <1>18 DEF Remapped

LEMMA ItemOfPathless ==
  ASSUME NEW w, NEW s, ItemOf(w, s) = NoPath
  PROVE  NoneComes(w, s)
BY DEF NoneComes, Comes

\* One more stream is subscribed.
LEMMA SubscribeFollows ==
  ASSUME NEW w, Steady(w), AllFollow(w), NEW s \in Subscribed, s \notin DOMAIN w.items
  PROVE  LET x == Subscribe(w, s)
         IN  /\ Steady(x) /\ AllFollow(x) /\ x.bus = w.bus /\ x.known = w.known
             /\ DOMAIN x.items = DOMAIN w.items \cup {s}
<1> DEFINE items == [x \in DOMAIN w.items \cup {s} |-> IF x = s THEN NoPath ELSE w.items[x]]
           added == [w EXCEPT !.items = items]
           asked == [added EXCEPT !.queueSubscribe = TRUE]
           first == DOMAIN w.items = {}
           heard == IF first THEN ListenForEntries(added) ELSE added
           Good(x) == /\ Steady(x) /\ AllFollow(x) /\ x.bus = w.bus /\ x.known = w.known
                      /\ DOMAIN x.items = DOMAIN w.items \cup {s}
<1>1. Subscribe(w, s) = IF w.bus = None THEN asked ELSE UpdateObjectMap(heard)
  BY DEF Subscribe
<1>2. /\ DOMAIN items = DOMAIN w.items \cup {s} /\ items[s] = NoPath
      /\ \A z \in DOMAIN w.items : items[z] = w.items[z]
  OBVIOUS
<1>3. DOMAIN items \subseteq Subscribed
  BY <1>2 DEF Steady, Typed, IsWorld
<1> HIDE DEF items
<1>4. ASSUME NEW x, x.items = items
      PROVE  \A z : ItemOf(x, z) = ItemOf(w, z)
  BY <1>2, <1>4 DEF ItemOf
<1>5. ASSUME NEW x, x.items = items, SameRest(x, w)
      PROVE  AllFollow(x)
  BY <1>4, <1>5, SameRestFollows DEF AllFollow
<1>6. ASSUME w.bus = None
      PROVE  Good(asked)
  <2> DEFINE x == asked
  <2>1. /\ Typed(x) /\ SameRest(x, w) /\ x.items = items /\ x.queueSubscribe = TRUE
        /\ x.heeded = w.heeded
    BY <1>3 DEF Steady, Typed, IsWorld, Fields, SameRest
  <2> HIDE DEF x
  <2>2. Cut(w)
    BY <1>6 DEF Steady
  <2>3. \A z \in DOMAIN items : items[z] = NoPath
    BY <1>2, <2>2 DEF Cut
  <2>4. Cut(x)
    BY <2>1, <2>2, <2>3 DEF Cut, SameRest
  <2>5. PathsApart(x)
    BY <2>1 DEF Steady, PathsApart, SameRest
  <2>6. Steady(x)
    BY <1>6, <2>1, <2>4, <2>5 DEF Steady, SameRest, None
  <2>7. Good(x)
    BY <1>2, <1>5, <2>1, <2>6 DEF SameRest
  <2>8. QED
    BY <2>7 DEF x
<1>7. ASSUME w.bus # None
      PROVE  Good(UpdateObjectMap(heard))
  <2> DEFINE x == heard
  <2>1. /\ Typed(added) /\ SameRest(added, w) /\ added.items = items /\ added.objectMap = w.objectMap
        /\ added.heeded = w.heeded
    BY <1>3 DEF Steady, Typed, IsWorld, Fields, SameRest
  <2> HIDE DEF added
  <2>2. /\ Typed(x) /\ SameRest(x, w) /\ x.items = items
        /\ x.heeded.entries = IF first /\ Alive(w) THEN TRUE ELSE w.heeded.entries
    <3>1. CASE first /\ Alive(w)
      <4>1. x = [added EXCEPT !.heeded.entries = TRUE]
        BY <2>1, <3>1 DEF ListenForEntries, Alive, SameRest
      <4> HIDE DEF x
      <4>2. QED
        BY <2>1, <3>1, <4>1 DEF Typed, IsWorld, Fields, SameRest
    <3>2. CASE ~(first /\ Alive(w))
      <4>1. x = added
        BY <2>1, <3>2 DEF ListenForEntries, Alive, SameRest
      <4> HIDE DEF x
      <4>2. QED
        BY <2>1, <3>2, <4>1
    <3>3. QED
      BY <3>1, <3>2
  <2> HIDE DEF x
  <2>3. \A i, k, p : Says(x, i, k, p) <=> Says(w, i, k, p)
    BY <2>2, SaysSame DEF SameRest
  <2>4. PathsApart(x)
    BY <2>2 DEF Steady, PathsApart, SameRest
  <2>5. ItemsApart(x)
    BY <1>2, <1>7, <2>2 DEF Steady, ItemsApart
  <2>6. VolumesAreOfItems(x)
    <3>1. \A p : (\E z \in DOMAIN w.items : w.items[z] = p) => \E z \in DOMAIN x.items : x.items[z] = p
      BY <1>2, <2>2
    <3>2. QED
      BY <1>7, <2>3, <3>1 DEF Steady, VolumesAreOfItems
  <2>7. ASSUME w.bus = "up"
        PROVE  Near(x)
    <3>1. Aligned(w) /\ Alive(w)
      BY <2>7 DEF Steady, Tuned, Alive
    <3>2. x.heeded.entries
      BY <2>2, <3>1 DEF Aligned
    <3>3. \A z \in DOMAIN x.items : x.items[z] # NoPath =>
            /\ z \in DOMAIN w.items /\ x.items[z] = w.items[z]
      BY <1>2, <2>2
    <3>4. \A z \in DOMAIN x.items : x.items[z] # NoPath => InTune(x, z)
      <4>1. SUFFICES ASSUME NEW z \in DOMAIN x.items, x.items[z] # NoPath
                     PROVE  InTune(x, z)
        OBVIOUS
      <4>2. InTune(w, z) /\ x.items[z] = w.items[z] /\ x.path[z] = w.path[z]
        BY <2>2, <3>1, <3>3, <4>1 DEF Aligned, SameRest
      <4>3. QED
        BY <2>3, <4>2 DEF InTune
    <3>5. \A z \in DOMAIN x.items : x.items[z] # NoPath =>
            /\ x.items[z] \in Nat /\ x.items[z] < x.next
            /\ \A y \in Streams : x.path[y] = x.items[z] => y = z
      BY <2>2, <3>1, <3>3 DEF Aligned, SameRest
    <3>6. QED
      BY <2>2, <2>3, <3>1, <3>2, <3>4, <3>5 DEF Near, Aligned, SameRest
  <2>8. Loose(x)
    BY <1>7, <2>2, <2>4, <2>5, <2>6, <2>7 DEF Loose, SameRest
  <2>9. Remapped(UpdateObjectMap(x), x) /\ AllFollow(x)
    BY <1>5, <2>2, <2>8, UpdateObjectMapTunes
  <2>10. QED
    BY <1>2, <2>2, <2>9 DEF Remapped, AllFollow, SameRest, x
<1>8. QED
  BY <1>1, <1>6, <1>7

-----------------------------------------------------------------------------
(* A signal is taken from those that wait.                                 *)

Shorter(t, q) ==
  /\ IsList(t) /\ Len(q) \in Nat /\ Len(q) > 0 /\ Len(t) = Len(q) - 1
  /\ \A i \in 1..Len(t) : t[i] = q[i + 1]

LEMMA TailIs ==
  ASSUME NEW q, IsList(q), q # <<>>
  PROVE  Shorter(Tail(q), q) /\ Head(q) = q[1]
<1> DEFINE S == Range(q)
           t == Tail(q)
<1>1. q \in Seq(S) /\ DOMAIN q = 1..Len(q) /\ Len(q) \in Nat
  BY DEF IsList
<1> HIDE DEF S
<1>2. t \in Seq(S) /\ Len(t) = Len(q) - 1 /\ Len(q) > 0 /\ Head(q) = q[1]
      /\ \A i \in 1..Len(t) : t[i] = q[i + 1]
  BY <1>1
<1> HIDE DEF t
<1>3. IsList(t)
  <2>1. DOMAIN t = 1..Len(t) /\ t = [i \in 1..Len(t) |-> t[i]] /\ Len(t) \in Nat
    BY <1>2
  <2> DEFINE T == Range(t)
  <2>2. \A i \in 1..Len(t) : t[i] \in T
    BY <2>1 DEF Range
  <2> HIDE DEF T
  <2>3. t \in Seq(T)
    BY ONLY <2>1, <2>2
  <2>4. QED
    BY <2>3 DEF IsList, T
<1>4. QED
  BY <1>1, <1>2, <1>3 DEF Shorter, t

\* u is w without the first of its signals, n.
Taken(u, w, n) ==
  /\ Typed(u) /\ SameMap(u, w) /\ u.path = w.path /\ u.next = w.next /\ u.level = w.level
  /\ u.missed = w.missed /\ u.lost = w.lost /\ u.reordered = w.reordered
  /\ u.values = w.values /\ u.known = w.known

\* What is said after it, and was before it.
After(u, w) ==
  \A i \in Nat : \A k, p : Says(u, i, k, p) =>
    i > 0 /\ i + 1 \in Nat /\ Says(w, i + 1, k, p) /\ u.signals[i] = w.signals[i + 1]
Before(u, w, n) ==
  \A i \in Nat : \A k, p : Says(w, i, k, p) =>
    \/ i = 1 /\ n.kind = k /\ n.path = p
    \/ i > 1 /\ i - 1 \in Nat /\ Says(u, i - 1, k, p) /\ u.signals[i - 1] = w.signals[i]
First(w, n) == 1 \in Nat /\ Says(w, 1, n.kind, n.path) /\ w.signals[1] = n

TakenFrom(u, w, n) == Taken(u, w, n) /\ After(u, w) /\ Before(u, w, n) /\ First(w, n)

LEMMA TakenIs ==
  ASSUME NEW w, Steady(w), w.signals # <<>>
  PROVE  TakenFrom([w EXCEPT !.signals = Tail(w.signals)], w, Head(w.signals))
<1> DEFINE q == w.signals
           t == Tail(q)
           u == [w EXCEPT !.signals = t]
           n == Head(q)
<1>1. IsList(q)
  BY DEF Steady, Typed
<1>2. Shorter(t, q) /\ n = q[1]
  BY <1>1, TailIs
<1> HIDE DEF t, n
<1>3. Taken(u, w, n) /\ u.signals = t
  BY <1>2 DEF Taken, Steady, Typed, IsWorld, Fields, SameMap, Shorter
<1> HIDE DEF u
<1>4. ASSUME NEW i \in Nat, NEW k, NEW p, Says(u, i, k, p)
      PROVE  i > 0 /\ i + 1 \in Nat /\ Says(w, i + 1, k, p) /\ u.signals[i] = w.signals[i + 1]
  <2>1. i \in 1..Len(t) /\ t[i] = q[i + 1] /\ i + 1 \in 1..Len(q)
    BY <1>2, <1>3, <1>4 DEF Says, Shorter
  <2>2. QED
    BY <1>3, <1>4, <2>1 DEF Says
<1>5. ASSUME NEW i \in Nat, NEW k, NEW p, Says(w, i, k, p), i # 1
      PROVE  i > 1 /\ i - 1 \in Nat /\ Says(u, i - 1, k, p) /\ u.signals[i - 1] = w.signals[i]
  <2>1. i - 1 \in 1..Len(t) /\ (i - 1) + 1 = i
    BY <1>2, <1>5 DEF Says, Shorter
  <2>2. t[i - 1] = q[i]
    BY <1>2, <2>1 DEF Shorter
  <2>3. QED
    BY <1>3, <1>5, <2>1, <2>2 DEF Says
<1>6. First(w, n)
  BY <1>2 DEF First, Says, Shorter
<1>7. After(u, w)
  BY <1>4 DEF After
<1>8. Before(u, w, n)
  <2>1. ASSUME NEW i \in Nat, NEW k, NEW p, Says(w, i, k, p), i = 1
        PROVE  n.kind = k /\ n.path = p
    BY <1>2, <2>1 DEF Says
  <2>2. QED
    BY <1>5, <2>1 DEF Before
<1>9. QED
  BY <1>3, <1>6, <1>7, <1>8 DEF TakenFrom, u, t, n

\* What is left of Steady when the first signal is taken.
LEMMA TakenKeeps ==
  ASSUME NEW w, Steady(w), w.bus # None, NEW u, NEW n, TakenFrom(u, w, n)
  PROVE  /\ Typed(u) /\ PathsApart(u) /\ u.bus = w.bus /\ ItemsApart(u)
         /\ VolumesAreOfItems(u) /\ Mapped(u) /\ u.freedKeys = FALSE
<1>1. Taken(u, w, n) /\ After(u, w)
  BY DEF TakenFrom
<1>2. /\ Typed(u) /\ u.bus = w.bus /\ u.items = w.items /\ u.objectMap = w.objectMap
      /\ u.freedKeys = w.freedKeys /\ u.path = w.path /\ u.next = w.next
  BY <1>1 DEF Taken, SameMap
<1>3. PathsApart(u)
  BY <1>2 DEF Steady, PathsApart
<1>4. ItemsApart(u) /\ Mapped(u) /\ u.freedKeys = FALSE
  BY <1>2 DEF Steady, ItemsApart, Mapped
<1>5. VolumesAreOfItems(u)
  <2>1. SUFFICES ASSUME NEW i \in Nat, NEW p, Says(u, i, "volume", p)
                 PROVE  /\ p # NoPath /\ \E s \in DOMAIN u.items : u.items[s] = p
                        /\ \A j \in Nat : Says(u, j, "removed", p) => i < j
    BY DEF VolumesAreOfItems
  <2>2. i + 1 \in Nat /\ Says(w, i + 1, "volume", p)
    BY <1>1, <2>1 DEF After
  <2>3. VolumesAreOfItems(w)
    BY DEF Steady
  <2>4. p # NoPath /\ \E s \in DOMAIN w.items : w.items[s] = p
    BY <2>2, <2>3 DEF VolumesAreOfItems
  <2>5. ASSUME NEW j \in Nat, Says(u, j, "removed", p)
        PROVE  i < j
    <3>1. j + 1 \in Nat /\ Says(w, j + 1, "removed", p)
      BY <1>1, <2>5 DEF After
    <3>2. i + 1 < j + 1
      BY <2>2, <2>3, <3>1 DEF VolumesAreOfItems
    <3>3. QED
      BY <3>2
  <2>6. QED
    BY <1>2, <2>4, <2>5
<1>6. QED
  BY <1>2, <1>3, <1>4, <1>5

LEMMA TakenInTune ==
  ASSUME NEW w, Steady(w), NEW u, NEW n, TakenFrom(u, w, n), NEW s \in DOMAIN w.items, InTune(w, s)
  PROVE  \/ InTune(u, s)
         \/ n.kind = "removed" /\ w.items[s] # NoPath /\ n.path = w.items[s]
         \/ n.kind = "new" /\ w.items[s] = NoPath /\ n.path = w.path[s] /\ w.path[s] # NoPath
<1>1. After(u, w) /\ Before(u, w, n) /\ u.items = w.items /\ u.path = w.path
  BY DEF TakenFrom, Taken, SameMap
<1>2. CASE w.items[s] = w.path[s]
  BY <1>1, <1>2 DEF InTune
<1>3. CASE w.items[s] # NoPath /\ w.items[s] # w.path[s]
  <2>1. PICK j \in Nat :
          /\ Says(w, j, "removed", w.items[s])
          /\ \A i \in Nat : w.path[s] # NoPath /\ Says(w, i, "new", w.path[s]) => j < i
    BY <1>3 DEF InTune
  <2>2. CASE j = 1
    <3>1. n.kind = "removed" /\ n.path = w.items[s]
      BY <1>1, <2>1, <2>2 DEF Before
    <3>2. QED
      BY <1>3, <3>1
  <2>3. CASE j # 1
    <3>1. j - 1 \in Nat /\ Says(u, j - 1, "removed", w.items[s])
      BY <1>1, <2>1, <2>3 DEF Before
    <3>2. ASSUME NEW i \in Nat, w.path[s] # NoPath, Says(u, i, "new", w.path[s])
          PROVE  j - 1 < i
      <4>1. i + 1 \in Nat /\ Says(w, i + 1, "new", w.path[s])
        BY <1>1, <3>2 DEF After
      <4>2. j < i + 1
        BY <2>1, <3>2, <4>1
      <4>3. QED
        BY <4>2
    <3>3. QED
      BY <1>1, <1>3, <3>1, <3>2 DEF InTune
  <2>4. QED
    BY <2>2, <2>3
<1>4. CASE w.items[s] = NoPath /\ w.path[s] # NoPath
  <2>1. PICK j \in Nat : Says(w, j, "new", w.path[s])
    BY <1>4 DEF InTune
  <2>2. CASE j = 1
    <3>1. n.kind = "new" /\ n.path = w.path[s]
      BY <1>1, <2>1, <2>2 DEF Before
    <3>2. QED
      BY <1>4, <3>1
  <2>3. CASE j # 1
    <3>1. j - 1 \in Nat /\ Says(u, j - 1, "new", w.path[s])
      BY <1>1, <2>1, <2>3 DEF Before
    <3>2. QED
      BY <1>1, <1>4, <3>1 DEF InTune
  <2>4. QED
    BY <2>2, <2>3
<1>5. QED
  BY <1>2, <1>3, <1>4

\* A stream of which it says nothing follows as before.
LEMMA TakenFollows ==
  ASSUME NEW w, NEW u, NEW n, TakenFrom(u, w, n), NEW t, Follows(w, t), ~Comes(w, t.src, 1)
  PROVE  Follows(u, t)
<1> DEFINE s == t.src
<1>1. /\ After(u, w) /\ Before(u, w, n) /\ u.items = w.items /\ u.level = w.level
      /\ u.missed = w.missed
  BY DEF TakenFrom, Taken, SameMap
<1>2. ItemOf(u, s) = ItemOf(w, s)
  BY <1>1 DEF ItemOf
<1>3. \A i \in Nat : Comes(u, s, i) =>
        i + 1 \in Nat /\ Comes(w, s, i + 1) /\ u.signals[i] = w.signals[i + 1]
  BY <1>1, <1>2 DEF After, Comes
<1>4. \A i \in Nat : Comes(w, s, i) =>
        i - 1 \in Nat /\ Comes(u, s, i - 1) /\ u.signals[i - 1] = w.signals[i]
  <2>1. SUFFICES ASSUME NEW i \in Nat, Comes(w, s, i)
                 PROVE  i - 1 \in Nat /\ Comes(u, s, i - 1) /\ u.signals[i - 1] = w.signals[i]
    OBVIOUS
  <2>2. i # 1
    BY <2>1
  <2>3. QED
    BY <1>1, <1>2, <2>1, <2>2 DEF Before, Comes
<1>5. SameCarried(u, w, t)
  BY DEF TakenFrom, Taken, SameCarried
<1>6. NoneComes(w, s) => NoneComes(u, s)
  BY <1>3 DEF NoneComes
<1>7. ASSUME LastIsNow(w, s)
      PROVE  LastIsNow(u, s)
  <2>1. PICK i \in Nat : /\ Comes(w, s, i) /\ w.signals[i].channels = w.level[s]
                         /\ \A j \in Nat : Comes(w, s, j) => j <= i
    BY <1>7 DEF LastIsNow
  <2>2. i - 1 \in Nat /\ Comes(u, s, i - 1) /\ u.signals[i - 1].channels = u.level[s]
    BY <1>1, <1>4, <2>1
  <2>3. ASSUME NEW j \in Nat, Comes(u, s, j)
        PROVE  j <= i - 1
    <3>1. j + 1 <= i
      BY <1>3, <2>1, <2>3
    <3>2. QED
      BY <3>1
  <2>4. QED
    BY <2>2, <2>3 DEF LastIsNow
<1>8. QED
  BY <1>1, <1>5, <1>6, <1>7, SameCarriedKeeps DEF Follows

\* The connection is up, and everything is as it was but for one signal less.
LEMMA TakenSteady ==
  ASSUME NEW w, Steady(w), w.bus # None, NEW u, NEW n, TakenFrom(u, w, n),
         w.bus = "up" => \A s \in DOMAIN w.items : InTune(u, s)
  PROVE  Steady(u)
<1>1. /\ After(u, w) /\ u.items = w.items /\ u.path = w.path /\ u.next = w.next
      /\ u.heeded = w.heeded /\ u.complete = w.complete
  BY DEF TakenFrom, Taken, SameMap
<1>2. /\ Typed(u) /\ PathsApart(u) /\ u.bus = w.bus /\ ItemsApart(u)
      /\ VolumesAreOfItems(u) /\ Mapped(u) /\ u.freedKeys = FALSE
  BY TakenKeeps
<1>3. ASSUME w.bus = "up"
      PROVE  Tuned(u)
  <2>1. Tuned(w) /\ Aligned(w)
    BY <1>3 DEF Steady, Tuned
  <2>2. Aligned(u)
    BY <1>1, <1>3, <2>1 DEF Aligned, After
  <2>3. QED
    BY <1>1, <2>1, <2>2 DEF Tuned
<1>4. QED
  BY <1>2, <1>3 DEF Steady

-----------------------------------------------------------------------------
(* The three signals.                                                      *)

Calm(x, w) ==
  /\ Steady(x) /\ AllFollow(x) /\ x.bus = w.bus /\ x.known = w.known
  /\ DOMAIN x.items = DOMAIN w.items

LEMMA EntryAppearsFollows ==
  ASSUME NEW w, Steady(w), AllFollow(w), w.bus # None, NEW u, NEW n, TakenFrom(u, w, n),
         n.kind = "new"
  PROVE  Calm(EntryAppears(u, n.path), w)
<1> DEFINE p == n.path
           s == ObjectName(u, p)
           y == [u EXCEPT !.items[s] = p]
<1>1. /\ Taken(u, w, n) /\ Says(w, 1, "new", p)
      /\ u.items = w.items /\ u.path = w.path /\ u.next = w.next /\ u.known = w.known
      /\ u.complete = w.complete /\ u.heeded = w.heeded /\ After(u, w)
  BY DEF TakenFrom, Taken, SameMap, First
<1>2. /\ Typed(u) /\ PathsApart(u) /\ u.bus = w.bus /\ ItemsApart(u)
      /\ VolumesAreOfItems(u) /\ Mapped(u) /\ u.freedKeys = FALSE
  BY TakenKeeps
<1>3. AllFollow(u)
  <2>1. ASSUME NEW t \in Transforms
        PROVE  ~Comes(w, t.src, 1)
    BY DEF TakenFrom, First, Comes, Says
  <2>2. QED
    BY <2>1, TakenFollows DEF AllFollow
<1>4. w.bus = "up" => Tuned(w) /\ Aligned(w)
  BY DEF Steady, Tuned
<1>5. DOMAIN w.items \subseteq Streams /\ None \notin Streams
  BY StreamRestoreAssumption DEF Steady, Typed, IsWorld
\* The stream whose path this is, is named by it.
<1>6. ASSUME w.bus = "up", NEW z \in DOMAIN w.items, p = w.path[z], p # NoPath
      PROVE  s = z
  BY <1>1, <1>2, <1>5, <1>6 DEF ObjectName, Alive, PathsApart
<1>7. CASE u.complete \/ ItemAt(u, p) # None \/ s \notin DOMAIN u.items
  <2>1. EntryAppears(u, p) = u
    BY <1>7 DEF EntryAppears
  <2>2. ASSUME w.bus = "up", NEW z \in DOMAIN w.items
        PROVE  InTune(u, z)
    <3>1. \/ InTune(u, z)
          \/ w.items[z] = NoPath /\ p = w.path[z] /\ w.path[z] # NoPath
      BY <1>4, <2>2, TakenInTune DEF Aligned
    <3>2. ASSUME w.items[z] = NoPath, p = w.path[z], w.path[z] # NoPath
          PROVE  FALSE
      <4>1. s = z
        BY <1>6, <2>2, <3>2
      <4>2. ~w.complete
        BY <1>4, <2>2, <3>2 DEF Tuned
      <4>3. ItemAt(u, p) # None
        BY <1>1, <1>7, <2>2, <4>1, <4>2
      <4>4. ItemAt(u, p) \in DOMAIN w.items /\ w.items[ItemAt(u, p)] = p
        BY <1>1, <1>2, <4>3, ItemAtIs
      <4>5. z = ItemAt(u, p)
        BY <1>4, <1>5, <2>2, <3>2, <4>4 DEF Aligned
      <4>6. QED
        BY <3>2, <4>4, <4>5
    <3>3. QED
      BY <3>1, <3>2
  <2>3. Steady(u)
    BY <2>2, TakenSteady
  <2>4. QED
    BY <1>1, <1>2, <1>3, <2>1, <2>3 DEF Calm
<1>8. CASE ~(u.complete \/ ItemAt(u, p) # None \/ s \notin DOMAIN u.items)
  <2>1. EntryAppears(u, p) = UpdateObjectMap(y)
    BY <1>8 DEF EntryAppears
  <2>2. s \in DOMAIN w.items /\ s \in Streams /\ w.bus = "up" /\ w.path[s] = p
    BY <1>1, <1>2, <1>5, <1>8 DEF ObjectName, Alive
  <2>3. p # NoPath /\ p \in Nat /\ p < w.next
    BY <1>1, <1>4, <2>2 DEF Aligned
  <2> HIDE DEF s, p
  <2>4. \A z \in DOMAIN w.items : w.items[z] # p
    BY <1>1, <1>2, <1>5, <1>8, <2>3, ItemAtIs
  <2>5. w.items[s] = NoPath
    <3>1. InTune(w, s) /\ w.items[s] # w.path[s]
      BY <1>4, <2>2, <2>4 DEF Aligned
    <3>2. SUFFICES ASSUME w.items[s] # NoPath
                   PROVE  FALSE
      OBVIOUS
    <3>3. PICK j \in Nat : Says(w, j, "removed", w.items[s]) /\
                           \A i \in Nat : w.path[s] # NoPath /\ Says(w, i, "new", w.path[s]) => j < i
      BY <3>1, <3>2 DEF InTune
    <3>4. j < 1 /\ j > 0
      BY <1>1, <2>2, <2>3, <3>3 DEF Says
    <3>5. QED
      BY <3>4
  <2>6. /\ Typed(y) /\ SameRest(y, u) /\ DOMAIN y.items = DOMAIN w.items /\ y.items[s] = p
        /\ y.heeded = u.heeded
        /\ \A z \in DOMAIN w.items : z # s => y.items[z] = w.items[z]
    BY <1>1, <1>2, <2>2 DEF Typed, IsWorld, Fields, SameRest
  <2> HIDE DEF y
  <2>7. \A i, k, q : Says(y, i, k, q) <=> Says(u, i, k, q)
    BY <2>6, SaysSame DEF SameRest
  <2>8. PathsApart(y)
    BY <1>2, <2>6 DEF PathsApart, SameRest
  <2>9. ItemsApart(y)
    BY <1>1, <1>2, <2>4, <2>6 DEF ItemsApart
  <2>10. VolumesAreOfItems(y)
    <3>1. \A q : q # NoPath /\ (\E z \in DOMAIN w.items : w.items[z] = q) =>
            \E z \in DOMAIN y.items : y.items[z] = q
      BY <2>5, <2>6
    <3>2. QED
      BY <1>1, <1>2, <2>7, <3>1 DEF VolumesAreOfItems
  <2>11. Near(y)
    <3>1. Aligned(w)
      BY <1>4, <2>2
    <3>2. \A z \in DOMAIN y.items : y.items[z] # NoPath =>
            /\ y.items[z] \in Nat /\ y.items[z] < y.next
            /\ \A o \in Streams : y.path[o] = y.items[z] => o = z
      <4>1. y.path = w.path /\ y.next = w.next
        BY <1>1, <2>6 DEF SameRest
      <4>2. \A o \in Streams : w.path[o] = p => o = s
        BY <1>1, <1>2, <2>2, <2>3 DEF PathsApart
      <4>3. QED
        BY <2>3, <2>6, <3>1, <4>1, <4>2 DEF Aligned
    <3>3. ASSUME NEW z \in DOMAIN y.items, y.items[z] # NoPath
          PROVE  InTune(y, z)
      <4>1. CASE z = s
        BY <1>1, <2>2, <2>6, <4>1 DEF InTune, SameRest
      <4>2. CASE z # s
        <5>1. InTune(w, z) /\ y.items[z] = w.items[z] /\ z \in DOMAIN w.items
          BY <2>6, <3>1, <3>3, <4>2 DEF Aligned
        <5>2. InTune(u, z)
          BY <3>3, <5>1, TakenInTune
        <5>3. y.path = u.path /\ u.items[z] = y.items[z]
          BY <1>1, <2>6, <5>1 DEF SameRest
        <5>4. QED
          BY <2>7, <5>2, <5>3 DEF InTune
      <4>3. QED
        BY <4>1, <4>2
    <3>4. QED
      BY <1>1, <2>6, <2>7, <3>1, <3>2, <3>3 DEF Near, Aligned, After, SameRest
  <2>12. Loose(y) /\ y.bus = w.bus
    BY <1>2, <2>2, <2>6, <2>8, <2>9, <2>10, <2>11 DEF Loose, SameRest
  <2>13. ASSUME NEW z \in Subscribed
         PROVE  (NoneComes(u, z) /\ NoneComes(y, z)) \/ ItemOf(y, z) = ItemOf(u, z)
    <3>1. CASE z # s
      BY <1>1, <2>6, <3>1 DEF ItemOf
    <3>2. CASE z = s
      <4>1. ItemOf(u, z) = NoPath /\ ItemOf(y, z) = p
        BY <1>1, <2>2, <2>5, <2>6, <3>2 DEF ItemOf
      <4>2. \A i \in Nat : ~Says(u, i, "volume", p)
        BY <1>1, <1>2, <2>4 DEF VolumesAreOfItems
      <4>3. QED
        BY <2>7, <4>1, <4>2 DEF NoneComes, Comes
    <3>3. QED
      BY <3>1, <3>2
  <2>14. AllFollow(y)
    BY <1>3, <2>6, <2>13, SameRestFollows DEF AllFollow
  <2>15. Remapped(UpdateObjectMap(y), y)
    BY <2>12, UpdateObjectMapTunes
  <2>16. QED
    BY <1>1, <2>1, <2>6, <2>12, <2>14, <2>15 DEF Remapped, AllFollow, SameRest, Calm, p
<1>9. QED
  BY <1>7, <1>8

LEMMA EntryDisappearsFollows ==
  ASSUME NEW w, Steady(w), AllFollow(w), w.bus # None, NEW u, NEW n, TakenFrom(u, w, n),
         n.kind = "removed"
  PROVE  Calm(EntryDisappears(u, n.path), w)
<1> DEFINE p == n.path
           s == ItemAt(u, p)
           y == [u EXCEPT !.items[s] = NoPath]
<1>1. /\ Taken(u, w, n) /\ Says(w, 1, "removed", p) /\ 1 \in Nat
      /\ u.items = w.items /\ u.path = w.path /\ u.next = w.next /\ u.known = w.known
      /\ u.complete = w.complete /\ u.heeded = w.heeded /\ After(u, w)
  BY DEF TakenFrom, Taken, SameMap, First
<1>2. /\ Typed(u) /\ PathsApart(u) /\ u.bus = w.bus /\ ItemsApart(u)
      /\ VolumesAreOfItems(u) /\ Mapped(u) /\ u.freedKeys = FALSE
  BY TakenKeeps
<1>3. AllFollow(u)
  <2>1. ASSUME NEW t \in Transforms
        PROVE  ~Comes(w, t.src, 1)
    BY DEF TakenFrom, First, Comes, Says
  <2>2. QED
    BY <2>1, TakenFollows DEF AllFollow
<1>4. w.bus = "up" => Tuned(w) /\ Aligned(w)
  BY DEF Steady, Tuned
<1>5. DOMAIN w.items \subseteq Streams /\ None \notin Streams
  BY StreamRestoreAssumption DEF Steady, Typed, IsWorld
\* Those that come of that path came before.
<1>6. \A i \in Nat : ~Says(u, i, "volume", p)
  <2>1. SUFFICES ASSUME NEW i \in Nat, Says(u, i, "volume", p)
                 PROVE  FALSE
    OBVIOUS
  <2>2. i > 0 /\ i + 1 \in Nat /\ Says(w, i + 1, "volume", p)
    BY <1>1, <2>1 DEF After
  <2>3. i + 1 < 1
    BY <1>1, <2>2 DEF Steady, VolumesAreOfItems
  <2>4. QED
    BY <2>2, <2>3
<1>7. CASE s = None
  <2>1. EntryDisappears(u, p) = u
    BY <1>7 DEF EntryDisappears
  <2>2. ASSUME w.bus = "up", NEW z \in DOMAIN w.items
        PROVE  InTune(u, z)
    <3>1. InTune(u, z) \/ (w.items[z] # NoPath /\ p = w.items[z])
      BY <1>4, <2>2, TakenInTune DEF Aligned
    <3>2. w.items[z] # NoPath /\ p = w.items[z] => s = z
      BY <1>1, <1>2, ItemAtIs
    <3>3. QED
      BY <1>5, <1>7, <3>1, <3>2
  <2>3. Steady(u)
    BY <2>2, TakenSteady
  <2>4. QED
    BY <1>1, <1>2, <1>3, <2>1, <2>3 DEF Calm
<1>8. CASE s # None
  <2>1. EntryDisappears(u, p) = UpdateObjectMap(y)
    BY <1>8 DEF EntryDisappears
  <2>2. p # NoPath /\ s \in DOMAIN w.items /\ w.items[s] = p
    BY <1>1, <1>2, <1>8, ItemAtIs
  <2> HIDE DEF s, p
  <2>3. \A z \in DOMAIN w.items : z # s => w.items[z] # p
    BY <1>1, <1>2, <2>2 DEF ItemsApart
  <2>4. /\ Typed(y) /\ SameRest(y, u) /\ DOMAIN y.items = DOMAIN w.items /\ y.items[s] = NoPath
        /\ y.heeded = u.heeded
        /\ \A z \in DOMAIN w.items : z # s => y.items[z] = w.items[z]
    BY <1>1, <1>2, <2>2 DEF Typed, IsWorld, Fields, SameRest
  <2> HIDE DEF y
  <2>5. \A i, k, q : Says(y, i, k, q) <=> Says(u, i, k, q)
    BY <2>4, SaysSame DEF SameRest
  <2>6. PathsApart(y)
    BY <1>2, <2>4 DEF PathsApart, SameRest
  <2>7. ItemsApart(y)
    BY <1>1, <1>2, <2>4 DEF ItemsApart
  <2>8. VolumesAreOfItems(y)
    <3>1. \A q : q # p /\ (\E z \in DOMAIN w.items : w.items[z] = q) =>
            \E z \in DOMAIN y.items : y.items[z] = q
      BY <2>2, <2>4
    <3>2. QED
      BY <1>1, <1>2, <1>6, <2>5, <3>1 DEF VolumesAreOfItems
  <2>9. ASSUME w.bus = "up"
        PROVE  Near(y)
    <3>1. Aligned(w)
      BY <1>4, <2>9
    <3>2. y.path = w.path /\ y.next = w.next /\ y.path = u.path
      BY <1>1, <2>4 DEF SameRest
    <3>3. \A z \in DOMAIN y.items : y.items[z] # NoPath =>
            /\ y.items[z] \in Nat /\ y.items[z] < y.next
            /\ \A o \in Streams : y.path[o] = y.items[z] => o = z
      BY <2>4, <3>1, <3>2 DEF Aligned
    <3>4. ASSUME NEW z \in DOMAIN y.items, y.items[z] # NoPath
          PROVE  InTune(y, z)
      <4>1. z # s /\ z \in DOMAIN w.items /\ y.items[z] = w.items[z] /\ u.items[z] = w.items[z]
        BY <1>1, <2>4, <3>4
      <4>2. InTune(w, z) /\ w.items[z] # p
        BY <2>3, <3>1, <4>1 DEF Aligned
      <4>3. InTune(u, z)
        BY <4>1, <4>2, TakenInTune DEF p
      <4>4. QED
        BY <2>5, <3>2, <4>1, <4>3 DEF InTune
    <3>5. \A i \in Nat : \A k, q : Says(y, i, k, q) => i + 1 \in Nat /\ Says(w, i + 1, k, q)
      BY <1>1, <2>5 DEF After
    <3>6. \A i \in Nat : \A q : Says(y, i, "new", q) => q \in Nat /\ q # NoPath /\ q < y.next
      BY <3>1, <3>2, <3>5 DEF Aligned
    <3>7. \A i \in Nat : \A q : Says(y, i, "removed", q) =>
            q \in Nat /\ q # NoPath /\ q < y.next /\ \A z \in Streams : y.path[z] # q
      BY <3>1, <3>2, <3>5 DEF Aligned
    <3>8. DOMAIN y.items # {} => y.heeded.entries
      BY <1>1, <2>4, <3>1 DEF Aligned
    <3>9. QED
      BY <3>3, <3>4, <3>6, <3>7, <3>8 DEF Near
  <2>10. Loose(y) /\ y.bus = w.bus
    BY <1>2, <2>4, <2>6, <2>7, <2>8, <2>9 DEF Loose, SameRest
  <2>11. ASSUME NEW z \in Subscribed
         PROVE  (NoneComes(u, z) /\ NoneComes(y, z)) \/ ItemOf(y, z) = ItemOf(u, z)
    <3>1. CASE z # s
      BY <1>1, <2>4, <3>1 DEF ItemOf
    <3>2. CASE z = s
      <4>1. ItemOf(u, z) = p /\ ItemOf(y, z) = NoPath
        BY <1>1, <2>2, <2>4, <3>2 DEF ItemOf
      <4>2. QED
        BY <1>6, <4>1 DEF NoneComes, Comes
    <3>3. QED
      BY <3>1, <3>2
  <2>12. AllFollow(y)
    BY <1>3, <2>4, <2>11, SameRestFollows DEF AllFollow
  <2>13. Remapped(UpdateObjectMap(y), y)
    BY <2>10, UpdateObjectMapTunes
  <2>14. QED
    BY <1>1, <2>1, <2>4, <2>10, <2>12, <2>13 DEF Remapped, AllFollow, SameRest, Calm, p
<1>9. QED
  BY <1>7, <1>8

\* What becomes of a volume.
Carries(u, n) ==
  LET s == ItemAt(u, n.path)
  IN  IF s = None THEN u
      ELSE VolumeChanged(Heard(u, s, n.channels), s, FromPa(Average(n.channels)))

LEMMA VolumeFollows ==
  ASSUME TransformsAreOwn, NEW w, Steady(w), AllFollow(w), w.bus # None,
         NEW u, NEW n, TakenFrom(u, w, n), n.kind = "volume"
  PROVE  Calm(Carries(u, n), w)
<1> DEFINE s == ItemAt(u, n.path)
           c == n.channels
           v == FromPa(Average(c))
           y == Heard(u, s, c)
<1>1. /\ Taken(u, w, n) /\ Says(w, 1, "volume", n.path) /\ w.signals[1] = n
      /\ u.items = w.items /\ u.level = w.level /\ u.missed = w.missed /\ u.known = w.known
      /\ After(u, w) /\ Before(u, w, n)
  BY DEF TakenFrom, Taken, SameMap, First
<1>2. ItemsApart(u) /\ Mapped(u) /\ u.bus = w.bus
  BY TakenKeeps
<1>3. Steady(u)
  <2>1. ASSUME w.bus = "up", NEW z \in DOMAIN w.items
        PROVE  InTune(u, z)
    BY <2>1, TakenInTune DEF Steady, Tuned, Aligned
  <2>2. QED
    BY <2>1, TakenSteady
<1>4. ASSUME NEW z, Comes(w, z, 1)
      PROVE  z \in DOMAIN w.items /\ n.path # NoPath /\ w.items[z] = n.path
  BY <1>1, <1>4 DEF Comes, Says, ItemOf
<1>5. CASE s = None
  <2>1. Carries(u, n) = u
    BY <1>5 DEF Carries
  <2>2. \A z : ~Comes(w, z, 1)
    <3>1. SUFFICES ASSUME NEW z, Comes(w, z, 1)
                   PROVE  FALSE
      OBVIOUS
    <3>2. z \in DOMAIN w.items /\ n.path # NoPath /\ w.items[z] = n.path
      BY <1>4, <3>1
    <3>3. s = z
      BY <1>1, <1>2, <3>2, ItemAtIs
    <3>4. None \notin DOMAIN w.items
      BY StreamRestoreAssumption DEF Steady, Typed, IsWorld
    <3>5. QED
      BY <1>5, <3>2, <3>3, <3>4
  <2>3. AllFollow(u)
    BY <2>2, TakenFollows DEF AllFollow
  <2>4. QED
    BY <1>1, <1>2, <1>3, <2>1, <2>3 DEF Calm
<1>6. CASE s # None
  <2>1. Carries(u, n) = VolumeChanged(y, s, v)
    BY <1>6 DEF Carries
  <2>2. s \in DOMAIN w.items /\ w.items[s] = n.path /\ n.path # NoPath
    BY <1>1, <1>2, <1>6, ItemAtIs
  <2>3. s \in Subscribed
    BY <2>2 DEF Steady, Typed, IsWorld
  <2> HIDE DEF s
  <2>4. OthersFollow(u, s)
    <3>1. ASSUME NEW t \in Transforms, t.src # s
          PROVE  ~Comes(w, t.src, 1)
      BY <1>1, <1>2, <1>4, <2>2, <3>1 DEF ItemsApart
    <3>2. QED
      BY <3>1, TakenFollows DEF OthersFollow, AllFollow
  <2>5. Comes(w, s, 1)
    BY <1>1, <2>2 DEF Comes, ItemOf
  <2>6. ItemOf(u, s) = ItemOf(w, s)
    BY <1>1 DEF ItemOf
  <2>7. s \in u.missed \/ LastIsNow(u, s) \/ (NoneComes(u, s) /\ u.level[s] = c)
    <3>1. TransformOf(s) \in Transforms /\ TransformOf(s).src = s
      BY <2>3, TransformOfIs
    <3>2. s \in w.missed \/ LastIsNow(w, s)
      <4>1. ~NoneComes(w, s)
        BY <2>5 DEF NoneComes
      <4>2. QED
        BY <3>1, <4>1 DEF AllFollow, Follows
    <3>3. ASSUME LastIsNow(w, s)
          PROVE  LastIsNow(u, s) \/ (NoneComes(u, s) /\ u.level[s] = c)
      <4>1. PICK i \in Nat : /\ Comes(w, s, i) /\ w.signals[i].channels = w.level[s]
                             /\ \A j \in Nat : Comes(w, s, j) => j <= i
        BY <3>3 DEF LastIsNow
      <4>2. \A j \in Nat : Comes(u, s, j) => j > 0 /\ j + 1 \in Nat /\ Comes(w, s, j + 1)
        BY <1>1, <2>6 DEF After, Comes
      <4>3. \A j \in Nat : Comes(u, s, j) => j > 0 /\ j <= i - 1
        <5>1. SUFFICES ASSUME NEW j \in Nat, Comes(u, s, j)
                       PROVE  j > 0 /\ j <= i - 1
          OBVIOUS
        <5>2. j > 0 /\ j + 1 <= i
          BY <4>1, <4>2, <5>1
        <5>3. QED
          BY <5>2
      <4>4. CASE i = 1
        <5>1. u.level[s] = c
          BY <1>1, <4>1, <4>4
        <5>2. NoneComes(u, s)
          BY <4>3, <4>4 DEF NoneComes
        <5>3. QED
          BY <5>1, <5>2
      <4>5. CASE i # 1
        <5>1. /\ i - 1 \in Nat /\ Says(u, i - 1, "volume", ItemOf(w, s))
              /\ u.signals[i - 1] = w.signals[i]
          BY <1>1, <4>1, <4>5 DEF Before, Comes
        <5>2. Comes(u, s, i - 1) /\ u.signals[i - 1].channels = u.level[s]
          BY <1>1, <2>6, <4>1, <5>1 DEF Comes
        <5>3. QED
          BY <4>3, <5>1, <5>2 DEF LastIsNow
      <4>6. QED
        BY <4>4, <4>5
    <3>4. QED
      BY <1>1, <3>2, <3>3
  <2> HIDE DEF y, c
  <2>8. /\ Steady(y) /\ y.bus = u.bus /\ y.items = u.items /\ y.known = u.known
        /\ Ready(y, s, v) /\ OthersFollow(y, s)
    BY <1>2, <1>3, <2>3, <2>4, <2>7, HeardReady DEF y
  <2>9. Well(VolumeChanged(y, s, v), y)
    BY <1>2, <2>3, <2>8, VolumeChangedFollows
  <2>10. QED
    BY <1>1, <1>2, <2>1, <2>8, <2>9 DEF Well, Calm
<1>7. QED
  BY <1>5, <1>6
-----------------------------------------------------------------------------
(* The connection goes, PulseAudio goes and comes.                         *)

\* Only the connection is another.
LEMMA DieFollows ==
  ASSUME NEW w, Steady(w), AllFollow(w)
  PROVE  LET x == Die(w)
         IN  /\ Steady(x) /\ AllFollow(x) /\ x.items = w.items /\ x.queue = w.queue
             /\ x.queueSubscribe = w.queueSubscribe
             /\ x.bus = IF w.bus = "up" THEN "dead" ELSE w.bus
<1> DEFINE x == Die(w)
           now == IF w.bus = "up" THEN "dead" ELSE w.bus
<1>1. x = [w EXCEPT !.bus = now]
  BY DEF Die
<1>2. now \in {None, "up", "dead"} /\ (now = None <=> w.bus = None) /\ now # "up"
  BY DEF Steady, Typed, None
<1> HIDE DEF x, now
<1>3. /\ IsWorld(x) /\ x.bus = now
      /\ x.items = w.items /\ x.objectMap = w.objectMap
      /\ x.freedKeys = w.freedKeys /\ x.queueSubscribe = w.queueSubscribe
      /\ x.heeded = w.heeded /\ x.queue = w.queue /\ x.signals = w.signals
      /\ x.level = w.level /\ x.path = w.path /\ x.next = w.next /\ x.missed = w.missed
      /\ x.lost = w.lost /\ x.reordered = w.reordered /\ x.values = w.values
  BY <1>1 DEF Steady, Typed, IsWorld, Fields
<1>4. Typed(x)
  BY <1>2, <1>3 DEF Steady, Typed
<1>5. \A i, k, p : Says(x, i, k, p) <=> Says(w, i, k, p)
  BY <1>3, SaysSame
<1>6. PathsApart(x)
  BY <1>3 DEF Steady, PathsApart
<1>7. Steady(x)
  <2>1. w.bus = None => Cut(x)
    BY <1>3 DEF Steady, Cut
  <2>2. w.bus # None => ItemsApart(x) /\ VolumesAreOfItems(x) /\ Mapped(x) /\ x.freedKeys = FALSE
    BY <1>3, <1>5 DEF Steady, ItemsApart, VolumesAreOfItems, Mapped
  <2>3. QED
    BY <1>2, <1>3, <1>4, <1>6, <2>1, <2>2 DEF Steady
<1>8. \A z : HearsSame(x, w, z)
  BY <1>3, <1>5 DEF HearsSame, Comes, ItemOf
<1>9. \A t \in Transforms : SameCarried(x, w, t)
  BY <1>3 DEF SameCarried
<1>10. AllFollow(x)
  BY <1>8, <1>9, FollowsKeeps DEF AllFollow
<1>11. QED
  BY <1>3, <1>7, <1>10 DEF x, now

LEMMA DisconnectFollows ==
  ASSUME NEW w, Steady(w), AllFollow(w), w.bus # None, w.signals = <<>>
  PROVE  LET x == AfterDisconnect(w)
         IN  Steady(x) /\ AllFollow(x) /\ x.bus = None /\ DOMAIN x.items = DOMAIN w.items
<1> DEFINE items == [s \in DOMAIN w.items |-> NoPath]
           freed == w.objectMap # {}
           again == w.queueSubscribe \/ DOMAIN w.items # {}
           heeded == [entries |-> FALSE, paths |-> {}]
           x == AfterDisconnect(w)
<1>1. x = [w EXCEPT !.bus = None, !.items = items, !.freedKeys = freed,
                    !.queueSubscribe = again, !.heeded = heeded]
  BY DEF AfterDisconnect
<1>2. /\ DOMAIN items = DOMAIN w.items /\ \A s \in DOMAIN items : items[s] = NoPath
      /\ heeded.entries = FALSE /\ heeded.paths = {} /\ DOMAIN heeded = {"entries", "paths"}
  OBVIOUS
<1>3. freed \in BOOLEAN /\ (~again => DOMAIN items = {} /\ w.objectMap = {} /\ freed = FALSE)
  BY <1>2 DEF Steady, Mapped
<1> HIDE DEF items, freed, again, heeded, x
<1>4. /\ IsWorld(x) /\ x.bus = None /\ x.items = items /\ x.objectMap = w.objectMap
      /\ x.freedKeys = freed /\ x.queueSubscribe = again
      /\ x.heeded = heeded /\ x.queue = w.queue /\ x.signals = w.signals
      /\ x.level = w.level /\ x.path = w.path /\ x.next = w.next /\ x.missed = w.missed
      /\ x.lost = w.lost /\ x.reordered = w.reordered /\ x.values = w.values
  BY <1>1, <1>2 DEF Steady, Typed, IsWorld, Fields
<1>5. Typed(x)
  BY <1>4 DEF Steady, Typed
<1>6. PathsApart(x)
  BY <1>4 DEF Steady, PathsApart
<1>7. Cut(x)
  BY <1>2, <1>3, <1>4 DEF Cut
<1>8. Steady(x)
  BY <1>4, <1>5, <1>6, <1>7 DEF Steady, None
<1>9. ASSUME NEW z
      PROVE  NoneComes(w, z) /\ NoneComes(x, z)
  <2>1. \A i \in Nat : \A k, p : ~Says(w, i, k, p) /\ ~Says(x, i, k, p)
    BY <1>4 DEF Says
  <2>2. QED
    BY <2>1 DEF NoneComes, Comes
<1>10. ASSUME NEW t \in Transforms
       PROVE  Follows(x, t)
  <2>1. Follows(w, t) /\ ~LastIsNow(w, t.src)
    BY <1>9 DEF AllFollow, LastIsNow, NoneComes
  <2>2. SameCarried(x, w, t)
    BY <1>4 DEF SameCarried
  <2>3. QED
    BY <1>4, <1>9, <2>1, <2>2, SameCarriedKeeps DEF Follows
<1>11. QED
  BY <1>2, <1>4, <1>8, <1>10 DEF AllFollow, x

\* An entry is gone, and that is said to those who listen.
LEMMA RemoveEntryFollows ==
  ASSUME NEW w, Steady(w), AllFollow(w), NEW s \in Streams, w.path[s] # NoPath
  PROVE  LET x == RemoveEntry(w, s)
         IN  /\ Steady(x) /\ AllFollow(x) /\ x.bus = w.bus /\ x.items = w.items
             /\ x.queue = w.queue /\ x.queueSubscribe = w.queueSubscribe
<1> DEFINE path  == [w.path EXCEPT ![s] = NoPath]
           after == [w EXCEPT !.path = path]
           old   == w.path[s]
           e     == [kind |-> "removed", path |-> old, channels |-> <<>>]
           far   == Append(w.signals, e)
           x     == RemoveEntry(w, s)
           Rest(y) == /\ Typed(y) /\ SameMap(y, w) /\ y.queue = w.queue
                      /\ y.values = w.values /\ y.lost = w.lost
                      /\ y.reordered = w.reordered /\ y.level = w.level
                      /\ y.next = w.next /\ y.missed = w.missed /\ y.path = path
           n == Len(w.signals)
<1>1. x = IF Listens(w) THEN [after EXCEPT !.signals = far] ELSE after
  <2>1. DOMAIN w = Fields
    BY DEF Steady, Typed, IsWorld
  <2>2. after.signals = w.signals /\ after = [w EXCEPT !.path[s] = NoPath]
    BY <2>1 DEF Fields
  <2> HIDE DEF after
  <2>3. QED
    BY <2>2 DEF RemoveEntry, Send
<1>2. /\ DOMAIN path = Streams /\ path[s] = NoPath
      /\ \A z \in Streams : z # s => path[z] = w.path[z]
  BY DEF Steady, Typed, IsWorld
<1>3. LongerBehind(far, e, w.signals) /\ e.kind = "removed" /\ e.path = old
  BY Behind DEF Steady, Typed
<1>4. IsList(far)
  BY <1>3 DEF LongerBehind
<1> HIDE DEF path, far, e
<1>5. Rest(after) /\ after.signals = w.signals
  BY <1>2 DEF Steady, Typed, IsWorld, Fields, SameMap
<1>6. Rest([after EXCEPT !.signals = far]) /\ [after EXCEPT !.signals = far].signals = far
  <2> HIDE DEF after
  <2>1. QED
    BY <1>2, <1>4, <1>5 DEF Typed, IsWorld, Fields, SameMap
<1>7. Rest(x) /\ x.signals = IF Listens(w) THEN far ELSE w.signals
  BY <1>1, <1>5, <1>6
<1> HIDE DEF x, after
<1>8. /\ \A i \in Nat : \A k, p : Says(w, i, k, p) => Says(x, i, k, p) /\ x.signals[i] = w.signals[i]
      /\ \A i \in Nat : \A k, p : Says(x, i, k, p) =>
           Says(w, i, k, p) \/ (Listens(w) /\ i = n + 1 /\ k = "removed" /\ p = old)
      /\ Listens(w) => /\ n \in Nat /\ Says(x, n + 1, "removed", old)
                       /\ \A i \in Nat : \A k, p : Says(w, i, k, p) => i < n + 1
  <2>1. CASE Listens(w)
    <3>1. More(x, w, e)
      BY <1>3, <1>7, <2>1 DEF More
    <3>2. SaidMore(x, w, e)
      BY <3>1, SaysMore
    <3>3. QED
      BY <1>3, <2>1, <3>2 DEF SaidMore
  <2>2. CASE ~Listens(w)
    <3>1. \A i, k, p : Says(x, i, k, p) <=> Says(w, i, k, p)
      BY <1>7, <2>2, SaysSame
    <3>2. QED
      BY <1>7, <2>2, <3>1
  <2>3. QED
    BY <2>1, <2>2
<1>9. /\ x.items = w.items /\ x.heeded = w.heeded /\ x.complete = w.complete /\ x.next = w.next
      /\ x.bus = w.bus /\ x.path = path /\ x.objectMap = w.objectMap /\ x.freedKeys = w.freedKeys
      /\ x.level = w.level /\ x.missed = w.missed /\ x.queueSubscribe = w.queueSubscribe
  BY <1>7 DEF SameMap
<1>10. /\ PathsApart(w) /\ old \in Nat /\ old < w.next /\ old # NoPath
       /\ DOMAIN w.items \subseteq Streams
  BY StreamRestoreAssumption DEF Steady, PathsApart, Typed, IsWorld
<1> HIDE DEF Rest, old
<1>11. PathsApart(x)
  BY <1>2, <1>9, <1>10 DEF PathsApart, NoPath
<1>12. ASSUME w.bus # None
       PROVE  ItemsApart(x) /\ VolumesAreOfItems(x) /\ Mapped(x) /\ x.freedKeys = FALSE
  <2>1. ItemsApart(x) /\ Mapped(x) /\ x.freedKeys = FALSE
    BY <1>9, <1>12 DEF Steady, ItemsApart, Mapped
  <2>2. VolumesAreOfItems(x)
    <3>1. SUFFICES ASSUME NEW i \in Nat, NEW p, Says(x, i, "volume", p)
                   PROVE  /\ p # NoPath /\ \E z \in DOMAIN x.items : x.items[z] = p
                          /\ \A j \in Nat : Says(x, j, "removed", p) => i < j
      BY DEF VolumesAreOfItems
    <3>2. Says(w, i, "volume", p)
      BY <1>8, <3>1
    <3>3. /\ p # NoPath /\ \E z \in DOMAIN w.items : w.items[z] = p
          /\ \A j \in Nat : Says(w, j, "removed", p) => i < j
      BY <1>12, <3>2 DEF Steady, VolumesAreOfItems
    <3>4. \A j \in Nat : Says(x, j, "removed", p) => i < j
      BY <1>8, <3>2, <3>3
    <3>5. QED
      BY <1>9, <3>3, <3>4
  <2>3. QED
    BY <2>1, <2>2
<1>13. ASSUME w.bus = "up"
       PROVE  Tuned(x)
  <2>1. Aligned(w) /\ Tuned(w) /\ (DOMAIN w.items # {} => Listens(w))
    BY <1>13 DEF Steady, Tuned, Aligned, Listens, Alive
  <2>2. \A z \in DOMAIN x.items : x.items[z] # NoPath =>
          /\ x.items[z] \in Nat /\ x.items[z] < x.next
          /\ \A y \in Streams : x.path[y] = x.items[z] => y = z
    BY <1>2, <1>9, <2>1 DEF Aligned
  <2>3. \A i \in Nat : \A p : Says(x, i, "new", p) => p \in Nat /\ p # NoPath /\ p < x.next
    BY <1>8, <1>9, <2>1 DEF Aligned
  <2>4. ASSUME NEW i \in Nat, NEW p, Says(x, i, "removed", p)
        PROVE  p \in Nat /\ p # NoPath /\ p < x.next /\ \A z \in Streams : x.path[z] # p
    <3>1. CASE Says(w, i, "removed", p)
      BY <1>2, <1>9, <2>1, <3>1 DEF Aligned
    <3>2. CASE p = old
      BY <1>2, <1>9, <1>10, <3>2 DEF PathsApart, old
    <3>3. QED
      BY <1>8, <2>4, <3>1, <3>2
  <2>5. ASSUME NEW z \in DOMAIN x.items
        PROVE  InTune(x, z)
    <3>1. InTune(w, z) /\ x.items[z] = w.items[z] /\ Listens(w) /\ z \in Streams
      BY <1>9, <1>10, <2>1 DEF Aligned
    <3>2. CASE z # s
      <4>1. x.path[z] = w.path[z]
        BY <1>2, <1>9, <3>1, <3>2
      <4>2. \A i \in Nat : \A p : Says(x, i, "new", p) <=> Says(w, i, "new", p)
        BY <1>8
      <4>3. QED
        BY <1>8, <3>1, <4>1, <4>2 DEF InTune
    <3>3. CASE z = s
      <4>1. x.path[z] = NoPath /\ w.path[z] = old
        BY <1>2, <1>9, <3>3 DEF old
      <4>2. CASE w.items[z] = old
        <5>1. n + 1 \in Nat /\ Says(x, n + 1, "removed", old)
          BY <1>8, <3>1
        <5>2. QED
          BY <1>10, <3>1, <4>1, <4>2, <5>1 DEF InTune
      <4>3. CASE w.items[z] = NoPath
        BY <3>1, <4>1, <4>3 DEF InTune
      <4>4. CASE w.items[z] # NoPath /\ w.items[z] # old
        <5>1. \E j \in Nat : Says(w, j, "removed", w.items[z])
          BY <3>1, <4>1, <4>4 DEF InTune
        <5>2. QED
          BY <1>8, <3>1, <4>1, <4>4, <5>1 DEF InTune
      <4>5. QED
        BY <4>2, <4>3, <4>4
    <3>4. QED
      BY <3>2, <3>3
  <2>6. Aligned(x)
    BY <1>9, <2>1, <2>2, <2>3, <2>4, <2>5 DEF Aligned
  <2>7. QED
    BY <1>9, <2>1, <2>6 DEF Tuned
<1>14. w.bus = None => Cut(x)
  <2>1. w.bus = None => ~Listens(w)
    BY DEF Listens, Alive, None
  <2>2. QED
    BY <1>7, <1>9, <2>1 DEF Steady, Cut
<1>15. Steady(x)
  BY <1>7, <1>9, <1>11, <1>12, <1>13, <1>14 DEF Steady, Rest
<1>16. \A z : HearsSame(x, w, z)
  <2>1. \A z : ItemOf(x, z) = ItemOf(w, z)
    BY <1>9 DEF ItemOf
  <2>2. \A z : \A i \in Nat : Comes(x, z, i) <=> Comes(w, z, i)
    BY <1>8, <2>1 DEF Comes
  <2>3. \A z : \A i \in Nat : Comes(w, z, i) => x.signals[i] = w.signals[i]
    BY <1>8 DEF Comes
  <2>4. QED
    BY <1>9, <2>2, <2>3 DEF HearsSame
<1>17. \A t \in Transforms : SameCarried(x, w, t)
  BY <1>7 DEF SameCarried, Rest
<1>18. AllFollow(x)
  BY <1>16, <1>17, FollowsKeeps DEF AllFollow
<1>19. QED
  BY <1>7, <1>9, <1>15, <1>18 DEF x, Rest

LEMMA InjectionsAre ==
  ASSUME NEW S, NEW T, NEW f \in Injection(S, T)
  PROVE  f \in [S -> T] /\ \A a, b \in S : f[a] = f[b] => a = b
BY DEF Injection, IsInjective

\* All the paths of the entries are other ones.
GivenPaths(x, w, S, f) ==
  /\ Typed(x) /\ SameMap(x, w) /\ x.queue = w.queue /\ x.known = w.known
  /\ x.values = w.values /\ x.lost = w.lost /\ x.reordered = w.reordered
  /\ x.level = w.level /\ x.missed = w.missed /\ x.signals = w.signals
  /\ x.next = Cardinality(S) + 1
  /\ \A s \in Streams : x.path[s] = IF s \in S THEN f[s] ELSE NoPath

LEMMA GivenPathsFollow ==
  ASSUME NEW w, Steady(w), AllFollow(w), w.bus # "up",
         NEW S, S \subseteq Streams, IsFiniteSet(S),
         NEW f \in Injection(S, 1..Cardinality(S)), NEW x, GivenPaths(x, w, S, f)
  PROVE  Steady(x) /\ AllFollow(x)
<1>1. Cardinality(S) \in Nat
  BY FS_CardinalityType
<1>2. f \in [S -> 1..Cardinality(S)] /\ \A a, b \in S : f[a] = f[b] => a = b
  <2> DEFINE T == 1..Cardinality(S)
  <2>1. f \in Injection(S, T)
    OBVIOUS
  <2> HIDE DEF T
  <2>2. f \in [S -> T] /\ \A a, b \in S : f[a] = f[b] => a = b
    BY ONLY <2>1, InjectionsAre
  <2>3. QED
    BY <2>2 DEF T
<1> DEFINE n == Cardinality(S)
<1>3. x.next = n + 1 /\ n \in Nat /\ \A s \in S : f[s] \in 1..n
  BY <1>1, <1>2 DEF GivenPaths
<1> HIDE DEF n
<1>4. PathsApart(x)
  BY <1>2, <1>3 DEF PathsApart, GivenPaths, NoPath
<1>5. \A i, k, p : Says(x, i, k, p) <=> Says(w, i, k, p)
  BY SaysSame DEF GivenPaths
<1>6. Steady(x)
  <2>1. w.bus = None => Cut(x)
    BY DEF Steady, Cut, GivenPaths, SameMap
  <2>2. w.bus # None => ItemsApart(x) /\ VolumesAreOfItems(x) /\ Mapped(x) /\ x.freedKeys = FALSE
    BY <1>5 DEF Steady, ItemsApart, VolumesAreOfItems, Mapped, GivenPaths, SameMap
  <2>3. QED
    BY <1>4, <2>1, <2>2 DEF Steady, GivenPaths, SameMap
<1>7. \A z : HearsSame(x, w, z)
  BY <1>5 DEF HearsSame, Comes, ItemOf, GivenPaths, SameMap
<1>8. \A t \in Transforms : SameCarried(x, w, t)
  BY DEF SameCarried, GivenPaths
<1>9. QED
  BY <1>6, <1>7, <1>8, FollowsKeeps DEF AllFollow

\* PulseAudio knows finitely many entries at a time.
LEMMA EntriesAreFinite ==
  ASSUME NEW w, PathsApart(w)
  PROVE  IsFiniteSet({s \in Streams : w.path[s] # NoPath})
<1> DEFINE S == {s \in Streams : w.path[s] # NoPath}
           f == [s \in S |-> w.path[s]]
<1>1. w.next \in Nat /\ \A s \in S : w.path[s] \in 0..w.next
  BY DEF PathsApart
<1>2. \A s, z \in S : w.path[s] = w.path[z] => s = z
  BY DEF PathsApart
<1> HIDE DEF S
<1>3. f \in Injection(S, 0..w.next)
  BY <1>1, <1>2 DEF Injection, IsInjective
<1>4. IsFiniteSet(0..w.next)
  BY <1>1, FS_Interval
<1> HIDE DEF f
<1>5. IsFiniteSet(S)
  BY <1>3, <1>4, FS_Injection
<1>6. QED
  BY <1>5 DEF S

Restarted(w, S, f) ==
  [w EXCEPT !.path = [s \in Streams |-> IF s \in S THEN f[s] ELSE NoPath],
            !.next = Cardinality(S) + 1]

LEMMA PulseStartsFollows ==
  ASSUME NEW w, Steady(w), AllFollow(w), w.bus # "up",
         NEW S, S = {s \in Streams : w.path[s] # NoPath},
         NEW f \in Injection(S, 1..Cardinality(S))
  PROVE  LET x == Restarted(w, S, f)
         IN  /\ Steady(x) /\ AllFollow(x) /\ x.bus = w.bus /\ x.items = w.items
             /\ x.queue = w.queue /\ x.queueSubscribe = w.queueSubscribe /\ x.known = w.known
<1> DEFINE path == [s \in Streams |-> IF s \in S THEN f[s] ELSE NoPath]
           next == Cardinality(S) + 1
           x    == Restarted(w, S, f)
<1>0. x = [w EXCEPT !.path = path, !.next = next]
  BY DEF Restarted
<1> HIDE DEF x
<1>1. IsFiniteSet(S) /\ S \subseteq Streams
  BY EntriesAreFinite DEF Steady
<1>2. DOMAIN path = Streams /\ \A s \in Streams : path[s] = IF s \in S THEN f[s] ELSE NoPath
  OBVIOUS
<1> HIDE DEF path
<1>3. GivenPaths(x, w, S, f)
  <2> HIDE DEF next
  <2>1. /\ IsWorld(x) /\ x.queue = w.queue /\ x.signals = w.signals /\ x.path = path
        /\ SameMap(x, w) /\ x.queue = w.queue /\ x.known = w.known /\ x.values = w.values
        /\ x.lost = w.lost /\ x.reordered = w.reordered /\ x.level = w.level
        /\ x.missed = w.missed /\ x.next = next
    BY <1>0, <1>2 DEF Steady, Typed, IsWorld, Fields, SameMap
  <2>2. Typed(x)
    BY <2>1 DEF Steady, Typed, SameMap
  <2>3. QED
    BY <1>2, <2>1, <2>2 DEF GivenPaths, next
<1>4. Steady(x) /\ AllFollow(x)
  BY <1>1, <1>3, GivenPathsFollow
<1>5. QED
  BY <1>3, <1>4 DEF GivenPaths, SameMap, x

-----------------------------------------------------------------------------
(* A connection is there again.                                            *)

\* A connection is open to which nothing was sent yet.
Opened(y, w) ==
  /\ Typed(y) /\ y.bus \in {"up", "dead"} /\ y.signals = <<>>
  /\ y.items = w.items /\ y.objectMap = w.objectMap /\ y.freedKeys = w.freedKeys
  /\ y.heeded = w.heeded /\ y.complete = w.complete
  /\ y.level = w.level /\ y.path = w.path /\ y.next = w.next /\ y.missed = w.missed
  /\ y.lost = w.lost /\ y.reordered = w.reordered /\ y.values = w.values

LEMMA OpenedFollows ==
  ASSUME NEW w, Steady(w), AllFollow(w), w.bus = None, NEW y, Opened(y, w)
  PROVE  AllFollow(y)
<1>1. w.signals = <<>> /\ y.signals = <<>>
  BY DEF Steady, Cut, Opened
<1>2. \A z : NoneComes(w, z) /\ NoneComes(y, z)
  <2>1. \A i \in Nat : \A k, p : ~Says(w, i, k, p) /\ ~Says(y, i, k, p)
    BY <1>1 DEF Says
  <2>2. QED
    BY <2>1 DEF NoneComes, Comes
<1>3. \A t \in Transforms : SameCarried(y, w, t)
  BY DEF SameCarried, Opened
<1>4. QED
  BY <1>2, <1>3, SameCarriedKeeps DEF AllFollow, Follows, LastIsNow, NoneComes, Opened

\* Nothing was subscribed.
LEMMA OpenedSteady ==
  ASSUME NEW w, Steady(w), w.bus = None, ~w.queueSubscribe, NEW y, Opened(y, w)
  PROVE  Steady(y)
<1>1. /\ DOMAIN w.items = {} /\ w.objectMap = {} /\ w.freedKeys = FALSE
      /\ w.heeded.paths = {}
  BY DEF Steady, Cut
<1>2. \A i, k, p : ~Says(y, i, k, p)
  BY DEF Says, Opened
<1>3. PathsApart(y)
  BY DEF Steady, PathsApart, Opened
<1>4. ItemsApart(y) /\ VolumesAreOfItems(y) /\ Mapped(y) /\ y.freedKeys = FALSE
  BY <1>1, <1>2 DEF ItemsApart, VolumesAreOfItems, Mapped, Opened
<1>5. Tuned(y)
  BY <1>1, <1>2 DEF Tuned, Aligned, Opened
<1>6. QED
  BY <1>3, <1>4, <1>5 DEF Steady, Opened, None

\* What was subscribed before is subscribed again.
LEMMA OpenedListens ==
  ASSUME NEW w, Steady(w), AllFollow(w), w.bus = None, NEW y, Opened(y, w)
  PROVE  LET x == UpdateObjectMap(ListenForEntries(y))
         IN  /\ Steady(x) /\ AllFollow(x) /\ x.bus = y.bus /\ x.known = y.known
             /\ DOMAIN x.items = DOMAIN w.items
<1> DEFINE z == ListenForEntries(y)
<1>1. Cut(w)
  BY DEF Steady
<1>2. /\ Opened(z, [w EXCEPT !.heeded = z.heeded]) /\ z.bus = y.bus /\ z.known = y.known
      /\ y.bus = "up" => z.heeded.entries
  <2>1. CASE y.bus = "up"
    <3>1. z = [y EXCEPT !.heeded.entries = TRUE]
      BY <2>1 DEF ListenForEntries, Alive
    <3> HIDE DEF z
    <3>2. QED
      BY <3>1 DEF Opened, Typed, Steady, IsWorld, Fields
  <2>2. CASE y.bus # "up"
    <3>1. z = y
      BY <2>2 DEF ListenForEntries, Alive
    <3> HIDE DEF z
    <3>2. QED
      BY <2>2, <3>1 DEF Opened, Typed, Steady, IsWorld, Fields
  <2>3. QED
    BY <2>1, <2>2
<1>3. /\ Typed(z) /\ z.bus \in {"up", "dead"} /\ z.signals = <<>> /\ z.items = w.items
      /\ z.level = w.level /\ z.path = w.path /\ z.next = w.next /\ z.missed = w.missed
      /\ z.lost = w.lost /\ z.reordered = w.reordered /\ z.values = w.values
  <2> HIDE DEF z
  <2>1. QED
    BY <1>2 DEF Opened, Steady, Typed, IsWorld, Fields
<1> HIDE DEF z
<1>4. \A i, k, p : ~Says(z, i, k, p)
  BY <1>3 DEF Says
<1>5. PathsApart(z)
  BY <1>3 DEF Steady, PathsApart
<1>6. ItemsApart(z) /\ VolumesAreOfItems(z)
  BY <1>1, <1>3, <1>4 DEF Cut, ItemsApart, VolumesAreOfItems
<1>7. z.bus = "up" => Near(z)
  BY <1>1, <1>2, <1>3, <1>4 DEF Cut, Near
<1>8. Loose(z)
  BY <1>3, <1>5, <1>6, <1>7 DEF Loose, None
<1>9. Remapped(UpdateObjectMap(z), z)
  BY <1>8, UpdateObjectMapTunes
<1>10. AllFollow(z)
  <2>1. AllFollow(y)
    BY OpenedFollows
  <2>2. \A s : NoneComes(y, s) /\ NoneComes(z, s)
    <3>1. \A i, k, p : ~Says(y, i, k, p)
      BY DEF Says, Opened
    <3>2. QED
      BY <1>4, <3>1 DEF NoneComes, Comes
  <2>3. \A t \in Transforms : SameCarried(z, y, t)
    BY <1>3 DEF SameCarried, Opened
  <2>4. QED
    BY <1>3, <2>1, <2>2, <2>3, SameCarriedKeeps DEF AllFollow, Follows, LastIsNow, NoneComes, Opened
<1>11. QED
  BY <1>2, <1>3, <1>9, <1>10 DEF Remapped, SameRest, AllFollow, z

\* What is done of what waited, one thing after the other.
Served(x, w, now) ==
  Steady(x) /\ AllFollow(x) /\ x.bus = now /\ DOMAIN x.items = DOMAIN w.items /\ x.known = w.known

LEMMA DieKnows == ASSUME NEW w, Steady(w) PROVE Die(w).known = w.known
BY DEF Die, Steady, Typed, IsWorld, Fields

LEMMA ServeNextFollows ==
  ASSUME TransformsAreOwn, NEW w, Steady(w), AllFollow(w), w.bus # None,
         NEW q, QueueOwn(q), NEW k \in 1..Len(q), NEW dying
  PROVE  LET now == IF k = dying /\ w.bus = "up" THEN "dead" ELSE w.bus
         IN  Served(ServeNext(w, q, dying, k), w, now)
<1> DEFINE y == IF k = dying THEN Die(w) ELSE w
           o == q[k]
           x == ServeNext(w, q, dying, k)
           now == IF k = dying /\ w.bus = "up" THEN "dead" ELSE w.bus
<1>1. x = IF o.op = "set" THEN AddEntry(y, o.stream, o.volume) ELSE GetEntryVolume(y, o.stream)
  BY DEF ServeNext, RunOp
<1>2. Served(y, w, now)
  BY DieFollows, DieKnows DEF Served
<1>3. now # None /\ o.stream \in Streams /\ (o.op = "set" => NoDst(o.stream))
  BY DEF QueueOwn, None
<1> HIDE DEF x, y, o, now
<1>4. ASSUME o.op = "set"
      PROVE  Served(x, w, now)
  <2>1. x = AddEntry(y, o.stream, o.volume) /\ NoDst(o.stream) /\ Steady(y)
    BY <1>1, <1>2, <1>3, <1>4 DEF Served
  <2>2. SentTo(x, y, o.stream)
    BY <1>3, <2>1, AddEntrySends
  <2>3. Going(x, y)
    BY <2>1, <2>2, SentGoes
  <2>4. QED
    BY <1>2, <2>3 DEF Going, Kept, Served, AllFollow
<1>5. ASSUME o.op # "set"
      PROVE  Served(x, w, now)
  <2>1. x = GetEntryVolume(y, o.stream) /\ Steady(y) /\ AllFollow(y) /\ y.bus # None
    BY <1>1, <1>2, <1>3, <1>5 DEF Served
  <2>2. Well(x, y)
    BY <1>3, <2>1, GetEntryVolumeFollows
  <2>3. QED
    BY <1>2, <2>2 DEF Well, Served
<1>6. Served(x, w, now)
  BY <1>4, <1>5
<1>7. QED
  BY <1>6 DEF x, now

LEMMA ProcessQueuedOpsFollows ==
  ASSUME TransformsAreOwn, NEW w, Steady(w), AllFollow(w), w.bus = None, NEW dying \in Nat
  PROVE  Served(ProcessQueuedOps(w, dying), w, IF dying \in 0..Len(w.queue) THEN "dead" ELSE "up")
<1> DEFINE q     == w.queue
           open  == [w EXCEPT !.bus = "up", !.queue = <<>>, !.queueSubscribe = FALSE,
                              !.signals = <<>>]
           start == IF dying = 0 THEN Die(open) ELSE open
           tuned == IF w.queueSubscribe THEN UpdateObjectMap(ListenForEntries(start))
                                        ELSE start
           s == [i \in DOMAIN q |-> i]
           n == Len(q)
           g == CHOOSE h : ServedOf(tuned, s, q, dying, Len(s), h)
           B(m) == IF dying \in 0..m THEN "dead" ELSE "up"
           P(m) == Served(g[m], w, B(m))
           T == {m \in Nat : m <= n => P(m)}
<1>0. n \in Nat /\ DOMAIN q = 1..n /\ QueueOwn(q)
  BY DEF Steady, Typed, IsWorld, IsList
<1>1. Len(s) = n /\ \A i \in 1..n : s[i] = i
  BY <1>0
<1>2. Opened(open, w) /\ open.bus = "up" /\ open.known = w.known
  <2>1. IsList(<<>>) /\ QueueOwn(<<>>)
    BY DEF IsList, QueueOwn
  <2>2. QED
    BY <2>1 DEF Opened, Steady, Typed, IsWorld, Fields
<1> HIDE DEF open
<1>3. Opened(start, w) /\ start.bus = B(0) /\ start.known = w.known
  <2>1. CASE dying = 0
    <3>1. start = [open EXCEPT !.bus = "dead"]
      BY <1>2, <2>1 DEF Die
    <3> HIDE DEF start
    <3>2. QED
      BY <1>2, <2>1, <3>1 DEF Opened, Typed, IsWorld, Fields
  <2>2. CASE dying # 0
    BY <1>2, <2>2
  <2>3. QED
    BY <2>1, <2>2
<1> HIDE DEF start
<1>4. Served(tuned, w, B(0))
  <2>1. CASE w.queueSubscribe
    <3>1. tuned = UpdateObjectMap(ListenForEntries(start))
      BY <2>1
    <3> HIDE DEF tuned
    <3>2. /\ Steady(tuned) /\ AllFollow(tuned) /\ tuned.bus = start.bus /\ tuned.known = start.known
          /\ DOMAIN tuned.items = DOMAIN w.items
      BY <1>3, <3>1, OpenedListens
    <3>3. QED
      BY <1>3, <3>2 DEF Served
  <2>2. CASE ~w.queueSubscribe
    <3>1. tuned = start
      BY <2>2
    <3>2. Steady(start) /\ AllFollow(start)
      BY <1>3, <2>2, OpenedSteady, OpenedFollows
    <3>3. QED
      BY <1>3, <3>1, <3>2 DEF Served, Opened
  <2>3. QED
    BY <2>1, <2>2
<1> HIDE DEF s
<1>5. ServedOf(tuned, s, q, dying, Len(s), g)
  <2> HIDE DEF tuned, q
  <2>1. QED
    BY <1>0, <1>1, ServedOfExists, Zenon
<1>6. ProcessQueuedOps(w, dying) = g[n]
  BY <1>1 DEF ProcessQueuedOps, Through, ServedOf, tuned, start, open, s
<1> HIDE DEF g, tuned
<1>7. \A m \in 0..n : g[m] = IF m = 0 THEN tuned ELSE ServeNext(g[m - 1], q, dying, m)
  <2> HIDE DEF q
  <2>1. n \in Nat /\ Len(s) = n /\ \A i \in 1..n : s[i] = i
    BY <1>0, <1>1
  <2> HIDE DEF n
  <2>2. g = [m \in 0..n |-> IF m = 0 THEN tuned ELSE ServeNext(g[m - 1], q, dying, s[m])]
    BY <1>5, <2>1 DEF ServedOf
  <2>3. QED
    BY <2>1, <2>2
<1>8. 0 \in T
  <2>1. g[0] = tuned
    BY <1>0, <1>7
  <2>2. QED
    BY <2>1, <1>4
<1> HIDE DEF q, n
<1>9. ASSUME NEW m \in Nat, m \in T
      PROVE  m + 1 \in T
  <2>1. SUFFICES ASSUME m + 1 <= n
                 PROVE  P(m + 1)
    OBVIOUS
  <2>2. P(m)
    BY <1>0, <1>9, <2>1
  <2>3. g[m + 1] = ServeNext(g[m], q, dying, m + 1) /\ m + 1 \in 1..Len(q)
    BY <1>0, <1>7, <2>1 DEF n
  <2> DEFINE y == g[m]
             x == g[m + 1]
             k == m + 1
             now == IF k = dying /\ y.bus = "up" THEN "dead" ELSE y.bus
  <2>4. Served(y, w, B(m)) /\ x = ServeNext(y, q, dying, k) /\ k \in 1..Len(q)
    BY <2>2, <2>3
  <2> HIDE DEF x, y
  <2>5. y.bus = B(m) /\ y.bus # None /\ Steady(y) /\ AllFollow(y)
    BY <2>4 DEF Served, None
  <2>6. now = B(k)
    BY <2>5
  <2> HIDE DEF k, now
  <2>7. Served(x, y, now)
    BY <1>0, <2>4, <2>5, ServeNextFollows DEF now
  <2>8. Served(x, w, B(k))
    BY <2>4, <2>6, <2>7 DEF Served
  <2>9. QED
    BY <2>8 DEF x, k
<1>10. Nat \subseteq T
  <2> HIDE DEF T
  <2>1. QED
    BY <1>8, <1>9, SetInduction
<1>11. P(n)
  <2>1. n \in T
    BY <1>0, <1>10
  <2>2. QED
    BY <1>0, <2>1
<1>12. QED
  BY <1>6, <1>11 DEF n, q

-----------------------------------------------------------------------------
(* Loading, the end of it, and the context.                                *)

\* The streams of the transforms among the first m parameters.
Sources(s, m) == {s[j][2].src : j \in {i \in 1..m : s[i][1] = "transform"}}

LEMMA SourcesGrow ==
  ASSUME NEW s, NEW m \in Nat
  PROVE  Sources(s, m + 1) = Sources(s, m) \cup
           (IF s[m + 1][1] = "transform" THEN {s[m + 1][2].src} ELSE {})
<1>1. \A j \in 1..(m + 1) : j = m + 1 \/ j \in 1..m
  OBVIOUS
<1>2. m + 1 \in 1..(m + 1) /\ \A j \in 1..m : j \in 1..(m + 1)
  OBVIOUS
<1>3. \A z : z \in Sources(s, m + 1) <=>
        \E j \in 1..(m + 1) : s[j][1] = "transform" /\ z = s[j][2].src
  BY DEF Sources
<1>4. \A z : z \in Sources(s, m) <=> \E j \in 1..m : s[j][1] = "transform" /\ z = s[j][2].src
  BY DEF Sources
<1>5. ASSUME NEW z
      PROVE  z \in Sources(s, m + 1) <=>
               z \in Sources(s, m) \/ (s[m + 1][1] = "transform" /\ z = s[m + 1][2].src)
  <2> DEFINE k == m + 1
             Here(j) == s[j][1] = "transform" /\ z = s[j][2].src
  <2>1. (\E j \in 1..k : Here(j)) <=> (\E j \in 1..m : Here(j)) \/ Here(k)
    <3>1. /\ \A j \in 1..k : j = k \/ j \in 1..m
          /\ k \in 1..k /\ \A j \in 1..m : j \in 1..k
      BY <1>1, <1>2
    <3> HIDE DEF k, Here
    <3>2. QED
      BY ONLY <3>1, Zenon
  <2>2. QED
    BY <1>3, <1>4, <2>1
<1>6. QED
  BY ONLY <1>5, Zenon

\* What was read since w, of parameters with these streams.
Read(x, w, S) == Steady(x) /\ AllFollow(x) /\ x.bus = w.bus /\ DOMAIN x.items = S

LEMMA ReadParamFollows ==
  ASSUME TransformsAreOwn, NEW w, Steady(w), AllFollow(w), NEW p \in Params,
         p[1] = "transform" => p[2].src \notin DOMAIN w.items
  PROVE  Read(ReadParam(w, p), w,
              DOMAIN w.items \cup (IF p[1] = "transform" THEN {p[2].src} ELSE {}))
<1> DEFINE S == DOMAIN w.items \cup (IF p[1] = "transform" THEN {p[2].src} ELSE {})
           x == ReadParam(w, p)
<1>1. ASSUME NEW r \in DOMAIN Roles, p = <<"role", r>>
      PROVE  Read(x, w, S)
  <2> DEFINE known == Append(w.known, r)
  <2>1. x = [w EXCEPT !.known = known] /\ S = DOMAIN w.items
    BY <1>1 DEF ReadParam
  <2>2. known \in Seq(DOMAIN Roles)
    BY KnownGrows DEF Steady, Typed, IsWorld
  <2> HIDE DEF x, known
  <2>3. /\ SameSteady(x, w) /\ x.values = w.values /\ x.lost = w.lost
        /\ x.reordered = w.reordered /\ x.bus = w.bus /\ x.items = w.items
    BY <2>1, <2>2 DEF Steady, Typed, IsWorld, Fields, SameSteady, SameBut, SameMap
  <2>4. Steady(x) /\ \A z : HearsSame(x, w, z)
    BY <2>3, SameSteadyKeeps
  <2>5. \A t \in Transforms : SameCarried(x, w, t)
    BY <2>3 DEF SameCarried, SameSteady, SameBut
  <2>6. QED
    BY <2>1, <2>3, <2>4, <2>5, FollowsKeeps DEF Read, AllFollow
<1>2. ASSUME NEW f \in FixedSets, p = <<"set", f>>
      PROVE  Read(x, w, S)
  <2>1. x = Update(w, f.stream, f.volume) /\ S = DOMAIN w.items
    BY <1>2 DEF ReadParam
  <2>2. f.stream \in Streams /\ NoDst(f.stream)
    BY StreamRestoreAssumption DEF TransformsAreOwn, NoDst
  <2> HIDE DEF x
  <2>3. SentTo(x, w, f.stream)
    BY <2>1, <2>2, UpdateSends
  <2>4. Going(x, w)
    BY <2>2, <2>3, SentGoes
  <2>5. QED
    BY <2>1, <2>4 DEF Going, Kept, Read, AllFollow
<1>3. ASSUME NEW t \in Transforms, p = <<"transform", t>>
      PROVE  Read(x, w, S)
  <2> DEFINE y == Subscribe(w, t.src)
  <2>1. x = GetVolume(y, t.src) /\ S = DOMAIN w.items \cup {t.src}
    BY <1>3 DEF ReadParam
  <2>2. t.src \in Subscribed /\ t.src \in Streams /\ t.src \notin DOMAIN w.items
    BY <1>3, StreamRestoreAssumption DEF Subscribed
  <2>3. /\ Steady(y) /\ AllFollow(y) /\ y.bus = w.bus
        /\ DOMAIN y.items = DOMAIN w.items \cup {t.src}
    BY <2>2, SubscribeFollows
  <2> HIDE DEF x, y
  <2>4. Well(x, y)
    BY <2>1, <2>2, <2>3, GetVolumeFollows
  <2>5. QED
    BY <2>1, <2>3, <2>4 DEF Read, Well
<1> HIDE DEF x, S
<1>4. Read(x, w, S)
  BY <1>1, <1>2, <1>3 DEF Params
<1>5. QED
  BY <1>4 DEF x, S

LEMMA OrdersAreOnce ==
  ASSUME NEW S, NEW s \in Orders(S)
  PROVE  \A i, j \in DOMAIN s : s[i] = s[j] => i = j
BY DEF Orders

LEMMA ParamsFollow ==
  ASSUME TransformsAreOwn, NEW w, Steady(w), AllFollow(w), DOMAIN w.items = {},
         NEW s \in Orders(Params)
  PROVE  Read(Through(w, s, ReadParam), w, Subscribed)
<1> DEFINE n == Len(s)
           g == CHOOSE h : ReadOf(w, s, Len(s), h)
           P(m) == Read(g[m], w, Sources(s, m))
           T == {m \in Nat : m <= n => P(m)}
<1>0. /\ n \in Nat /\ DOMAIN s = 1..n /\ \A i \in 1..n : s[i] \in Params
      /\ \A p \in Params : \E i \in 1..n : s[i] = p
  BY OrdersAre, StreamRestoreAssumption
<1>a. \A i, j \in 1..n : s[i] = s[j] => i = j
  BY <1>0, OrdersAreOnce
<1>1. ReadOf(w, s, Len(s), g)
  BY <1>0, ReadOfExists, Zenon
<1>2. Through(w, s, ReadParam) = g[n]
  BY DEF Through, ReadOf
<1> HIDE DEF g
<1>3. \A m \in 0..n : g[m] = IF m = 0 THEN w ELSE ReadParam(g[m - 1], s[m])
  BY <1>1 DEF ReadOf
<1>4. 0 \in T
  <2>1. g[0] = w
    BY <1>0, <1>3
  <2>2. Sources(s, 0) = {}
    BY DEF Sources
  <2>3. QED
    BY <2>1, <2>2 DEF Read
<1> HIDE DEF n
<1>b. \A i \in 1..n : s[i][1] = "transform" => s[i][2] \in Transforms /\ s[i] = <<"transform", s[i][2]>>
  BY <1>0 DEF Params
<1>5. ASSUME NEW m \in Nat, m \in T
      PROVE  m + 1 \in T
  <2>1. SUFFICES ASSUME m + 1 <= n
                 PROVE  P(m + 1)
    OBVIOUS
  <2>2. P(m) /\ s[m + 1] \in Params
    BY <1>0, <1>5, <2>1
  <2>3. g[m + 1] = ReadParam(g[m], s[m + 1])
    BY <1>0, <1>3, <2>1
  <2> DEFINE y == g[m]
             x == g[m + 1]
             p == s[m + 1]
  <2>4. x = ReadParam(y, p) /\ p \in Params /\ Read(y, w, Sources(s, m))
    BY <2>2, <2>3
  <2>5. ASSUME p[1] = "transform"
        PROVE  p[2].src \notin Sources(s, m)
    <3>1. SUFFICES ASSUME NEW j \in 1..m, s[j][1] = "transform", s[j][2].src = p[2].src
                   PROVE  FALSE
      BY DEF Sources
    <3>2. j \in 1..n /\ m + 1 \in 1..n /\ j # m + 1
      BY <1>0, <2>1
    <3>3. s[j][2] \in Transforms /\ p[2] \in Transforms
      BY <1>b, <2>5, <3>1, <3>2
    <3>4. s[j][2] = p[2]
      BY <3>1, <3>3, StreamRestoreAssumption
    <3>5. s[j] = s[m + 1]
      BY <1>b, <2>5, <3>1, <3>2, <3>4
    <3>6. QED
      BY <1>a, <3>2, <3>5
  <2>6. Sources(s, m + 1) = Sources(s, m) \cup (IF p[1] = "transform" THEN {p[2].src} ELSE {})
    BY SourcesGrow
  <2> HIDE DEF x, y, p
  <2>7. Steady(y) /\ AllFollow(y) /\ DOMAIN y.items = Sources(s, m) /\ y.bus = w.bus
    BY <2>4 DEF Read
  <2>8. Read(x, y, Sources(s, m + 1))
    BY <2>4, <2>5, <2>6, <2>7, ReadParamFollows
  <2>9. Read(x, w, Sources(s, m + 1))
    BY <2>7, <2>8 DEF Read
  <2>10. QED
    BY <2>9 DEF x
<1>6. Nat \subseteq T
  <2> HIDE DEF T
  <2>1. QED
    BY <1>4, <1>5, SetInduction
<1>7. P(n)
  <2>1. n \in T
    BY <1>0, <1>6
  <2>2. QED
    BY <1>0, <2>1
<1>8. Sources(s, n) = Subscribed
  <2>1. ASSUME NEW z \in Sources(s, n)
        PROVE  z \in Subscribed
    BY <1>b, <2>1 DEF Sources, Subscribed
  <2>2. ASSUME NEW t \in Transforms
        PROVE  t.src \in Sources(s, n)
    <3>1. <<"transform", t>> \in Params
      BY DEF Params
    <3>2. PICK j \in 1..n : s[j] = <<"transform", t>>
      BY <1>0, <3>1
    <3>3. s[j][1] = "transform" /\ s[j][2] = t
      BY <3>2
    <3>4. QED
      BY <3>3 DEF Sources
  <2>3. QED
    BY <2>1, <2>2 DEF Subscribed
<1>9. QED
  BY <1>2, <1>7, <1>8

LEMMA KeysFollow ==
  ASSUME TransformsAreOwn, NEW w, Steady(w), NEW s, Len(s) \in Nat
  PROVE  Going(Through(w, s, SeesKey), w)
<1> DEFINE n == Len(s)
           g == CHOOSE h : SeenOf(w, s, Len(s), h)
           P(m) == Going(g[m], w)
           T == {m \in Nat : m <= n => P(m)}
<1>1. SeenOf(w, s, Len(s), g)
  BY SeenOfExists, Zenon
<1>2. Through(w, s, SeesKey) = g[n]
  BY DEF Through, SeenOf
<1> HIDE DEF g
<1>3. \A m \in 0..n : g[m] = IF m = 0 THEN w ELSE SeesKey(g[m - 1], s[m])
  BY <1>1 DEF SeenOf
<1>4. 0 \in T
  <2>1. g[0] = w
    BY <1>3
  <2>2. QED
    BY <2>1 DEF Going, Kept
<1> HIDE DEF n
<1>5. ASSUME NEW m \in Nat, m \in T
      PROVE  m + 1 \in T
  <2>1. SUFFICES ASSUME m + 1 <= n
                 PROVE  P(m + 1)
    OBVIOUS
  <2> DEFINE y == g[m]
             x == g[m + 1]
             k == s[m + 1]
  <2>2. Going(y, w)
    BY <1>5, <2>1 DEF n
  <2>3. x = SeesKey(y, k)
    BY <1>3, <2>1 DEF n
  <2> HIDE DEF x, y, k
  <2>4. Steady(y) /\ x = KeyChanges(y, k, y.values[k])
    BY <2>2, <2>3 DEF SeesKey, Going
  <2>5. Going(x, y)
    BY <2>4, KeyChangesGoes
  <2>6. QED
    BY <2>2, <2>5, GoingOn DEF x
<1>6. Nat \subseteq T
  <2> HIDE DEF T
  <2>1. QED
    BY <1>4, <1>5, SetInduction
<1>7. P(n)
  <2>1. n \in T
    BY <1>6 DEF n
  <2>2. QED
    BY <2>1 DEF n
<1>8. QED
  BY <1>2, <1>7 DEF n

\* What of the transforms does not depend on the route.
WithRoute(w, route, rerouted) == [w EXCEPT !.route = route, !.rerouted = rerouted]

LEMMA OtherRoute ==
  ASSUME NEW w, Steady(w), AllFollow(w), NEW route, NEW rerouted
  PROVE  LET x == WithRoute(w, route, rerouted)
         IN  Steady(x) /\ AllFollow(x) /\ x.bus = w.bus /\ x.items = w.items
<1> DEFINE x == WithRoute(w, route, rerouted)
<1>1. /\ SameSteady(x, w) /\ x.values = w.values /\ x.lost = w.lost
      /\ x.reordered = w.reordered
  BY DEF WithRoute, Steady, Typed, IsWorld, Fields, SameSteady, SameBut, SameMap
<1> HIDE DEF x
<1>2. Steady(x) /\ \A z : HearsSame(x, w, z)
  BY <1>1, SameSteadyKeeps
<1>3. \A t \in Transforms : SameCarried(x, w, t)
  BY <1>1 DEF SameCarried, SameSteady, SameBut
<1>4. AllFollow(x)
  BY <1>2, <1>3, FollowsKeeps DEF AllFollow
<1>5. QED
  BY <1>1, <1>2, <1>4 DEF SameSteady, SameBut, SameMap, x

\* A key that no transform writes to has another value.
LEMMA OtherKeyFollows ==
  ASSUME TransformsAreOwn, NEW w, Steady(w), AllFollow(w), NEW k, NEW v,
         ~\E t \in Transforms : t.toContext /\ t.dst = k
  PROVE  LET x == SetContext(w, k, v)
         IN  Steady(x) /\ AllFollow(x) /\ x.bus = w.bus /\ x.items = w.items
<1> DEFINE x == SetContext(w, k, v)
<1>1. PICK u : SetContextIs(u, w, k, v) /\ Going(x, u)
  BY SetContextGoes
<1> HIDE DEF x
<1>2. /\ SameSteady(u, w) /\ u.lost = w.lost /\ u.reordered = w.reordered
      /\ \A y \in DOMAIN w.values : y # k => y \in DOMAIN u.values /\ u.values[y] = w.values[y]
  BY <1>1 DEF SetContextIs
<1>3. Steady(u) /\ \A z : HearsSame(u, w, z)
  BY <1>2, SameSteadyKeeps
<1>4. \A t \in Transforms : SameCarried(u, w, t)
  BY <1>2 DEF SameCarried, SameSteady, SameBut
<1>5. AllFollow(u)
  BY <1>3, <1>4, FollowsKeeps DEF AllFollow
<1>6. u.bus = w.bus /\ u.items = w.items
  BY <1>2 DEF SameSteady, SameBut, SameMap
<1>7. QED
  BY <1>1, <1>5, <1>6 DEF Going, Kept, AllFollow, x

-----------------------------------------------------------------------------
(* The inductive invariant of the transforms.                              *)

\* Between two calls the volume controller knows the paths that the entries
\* have, or a signal that waits will say so; and every volume of a stream that
\* it could hear is carried over, or waits to be.
FollowInv ==
  stage # "unloaded" =>
    /\ Steady(world) /\ AllFollow(world) /\ world.bus = bus
    /\ DOMAIN world.items = IF stage = "loading" THEN {} ELSE Subscribed
    /\ stage = "loading" => ~world.queueSubscribe /\ world.known = <<>>

LEMMA SubscribedIsFinite == IsFiniteSet(Subscribed)
<1> DEFINE f == [s \in Subscribed |-> <<"transform", TransformOf(s)>>]
<1>1. ASSUME NEW s \in Subscribed
      PROVE  TransformOf(s) \in Transforms /\ TransformOf(s).src = s
  <2>1. \E t \in Transforms : t.src = s
    BY DEF Subscribed
  <2>2. QED
    BY <2>1 DEF TransformOf
<1>2. \A s \in Subscribed : <<"transform", TransformOf(s)>> \in Params
  BY <1>1 DEF Params
<1>3. \A s, z \in Subscribed : TransformOf(s) = TransformOf(z) => s = z
  BY <1>1
<1>4. f \in Injection(Subscribed, Params)
  BY <1>2, <1>3 DEF Injection, IsInjective
<1> HIDE DEF f
<1>5. QED
  BY <1>4, StreamRestoreAssumption, FS_Injection

LEMMA InjectionExists ==
  ASSUME NEW S, IsFiniteSet(S)
  PROVE  Cardinality(S) \in Nat /\ \E f : f \in Injection(S, 1..Cardinality(S))
<1> DEFINE n == Cardinality(S)
           N == 1..n
<1>1. n \in Nat /\ ExistsBijection(N, S)
  BY FS_CardinalityType
<1> HIDE DEF n, N
<1>2. PICK b : b \in Bijection(N, S)
  BY <1>1 DEF ExistsBijection
<1>3. \A s \in S : \E i \in N : b[i] = s
  BY <1>2 DEF Bijection, Surjection
<1> DEFINE At(s) == CHOOSE i \in N : b[i] = s
<1>4. \A s \in S : At(s) \in N /\ b[At(s)] = s
  BY <1>3
<1> HIDE DEF At
<1>5. \A s, z \in S : At(s) = At(z) => s = z
  BY <1>4
<1>6. [s \in S |-> At(s)] \in Injection(S, N)
  BY <1>4, <1>5 DEF Injection, IsInjective
<1>7. QED
  BY <1>1, <1>6 DEF n, N

LEMMA FollowInitHolds == Init => FollowInv
<1> SUFFICES ASSUME Init
             PROVE  FollowInv
  OBVIOUS
<1>1. PICK old \in {{}, Subscribed} :
        world = [bus |-> None, queue |-> <<>>, items |-> <<>>, objectMap |-> {},
                 freedKeys |-> FALSE, complete |-> FALSE, queueSubscribe |-> FALSE,
                 heeded |-> [entries |-> FALSE, paths |-> {}], signals |-> <<>>,
                 level |-> [s \in Streams |-> <<0>>],
                 path  |-> [s \in Streams |->
                              IF s \in old
                              THEN (CHOOSE g \in Injection(old, 1..Cardinality(old)) : TRUE)[s]
                              ELSE NoPath],
                 next  |-> Cardinality(old) + 1,
                 route |-> "default", values |-> <<>>, known |-> <<>>,
                 roles |-> [r \in DOMAIN Roles |->
                              [vals |-> [i \in DOMAIN Roles[r] |-> 0], volume |-> 0]],
                 lost  |-> Streams, reordered |-> {}, rerouted |-> {},
                 missed |-> Subscribed]
  BY DEF Init
<1> DEFINE w == world
           f == CHOOSE g \in Injection(old, 1..Cardinality(old)) : TRUE
<1>2. /\ w.bus = None /\ w.queue = <<>> /\ w.items = <<>> /\ w.objectMap = {}
      /\ w.freedKeys = FALSE /\ w.queueSubscribe = FALSE
      /\ w.heeded = [entries |-> FALSE, paths |-> {}] /\ w.signals = <<>>
      /\ w.path = [s \in Streams |-> IF s \in old THEN f[s] ELSE NoPath]
      /\ w.next = Cardinality(old) + 1
      /\ w.known = <<>> /\ w.missed = Subscribed
  BY <1>1
<1>3. stage = "loading" /\ bus = None
  BY DEF Init, LinkInit
<1>4. IsWorld(w)
  BY <1>3, RolesInitHolds DEF RolesInv, InRest, AtRest
<1> HIDE DEF w
<1>5. IsFiniteSet(old)
  BY SubscribedIsFinite, FS_EmptySet
<1>6. Cardinality(old) \in Nat /\ f \in Injection(old, 1..Cardinality(old))
  <2> DEFINE I == Injection(old, 1..Cardinality(old))
  <2>1. Cardinality(old) \in Nat /\ \E g : g \in I
    BY <1>5, InjectionExists
  <2> HIDE DEF I
  <2>2. f = CHOOSE g \in I : TRUE
    BY DEF I
  <2> HIDE DEF f
  <2>3. f \in I
    BY <2>1, <2>2
  <2>4. QED
    BY <2>1, <2>3 DEF I
<1> HIDE DEF f
<1> DEFINE n == Cardinality(old)
<1>7. n \in Nat /\ f \in [old -> 1..n] /\ \A a, b \in old : f[a] = f[b] => a = b
  <2> DEFINE T == 1..n
  <2>1. f \in Injection(old, T)
    BY <1>6
  <2> HIDE DEF T
  <2>2. f \in [old -> T] /\ \A a, b \in old : f[a] = f[b] => a = b
    BY ONLY <2>1, InjectionsAre
  <2>3. QED
    BY <1>6, <2>2 DEF T
<1>8. PathsApart(w)
  <2>1. w.next = n + 1 /\ \A s \in Streams : w.path[s] = IF s \in old THEN f[s] ELSE NoPath
    BY <1>2
  <2> HIDE DEF n
  <2>2. \A s \in old : f[s] \in 1..n
    BY <1>7
  <2>3. QED
    BY <1>7, <2>1, <2>2 DEF PathsApart, NoPath
<1>9. Typed(w)
  <2>1. IsList(<<>>) /\ QueueOwn(<<>>)
    BY DEF IsList, QueueOwn
  <2>2. QED
    BY <1>2, <1>4, <2>1 DEF Typed
<1>10. DOMAIN w.items = {}
  BY <1>2
<1>11. Cut(w)
  BY <1>2, <1>10 DEF Cut
<1>12. Steady(w)
  BY <1>2, <1>8, <1>9, <1>11 DEF Steady, None
<1>13. AllFollow(w)
  BY <1>2 DEF AllFollow, Follows, Subscribed
<1>14. QED
  BY <1>2, <1>3, <1>10, <1>12, <1>13 DEF FollowInv, w

LEMMA LoadFollows ==
  ASSUME TransformsAreOwn, FollowInv, LinkInv, Load
  PROVE  FollowInv'
<1> DEFINE w == [world EXCEPT !.bus = bus']
<1>1. stage = "loading" /\ stage' = "loaded" /\ bus' \in {None, "up", "dead"}
  BY DEF Load, LinkLoad, Connect, AskAddress, FailToOpen, Open
<1>2. /\ Steady(world) /\ AllFollow(world) /\ world.bus = None
      /\ DOMAIN world.items = {} /\ ~world.queueSubscribe
  BY <1>1 DEF FollowInv, LinkInv
<1>3. PICK s \in Orders(Params) : world' = Through(w, s, ReadParam)
  BY DEF Load
<1>4. /\ IsWorld(w) /\ w.bus = bus' /\ w.items = world.items /\ w.objectMap = world.objectMap
      /\ w.freedKeys = world.freedKeys /\ w.heeded = world.heeded /\ w.complete = world.complete
      /\ w.queueSubscribe = world.queueSubscribe /\ w.queue = world.queue
      /\ w.level = world.level /\ w.path = world.path /\ w.next = world.next
      /\ w.missed = world.missed /\ w.lost = world.lost /\ w.reordered = world.reordered
      /\ w.values = world.values /\ w.signals = world.signals /\ w.known = world.known
  BY <1>2 DEF Steady, Typed, IsWorld, Fields
<1> HIDE DEF w
<1>5. Typed(w)
  BY <1>1, <1>2, <1>4 DEF Steady, Typed
<1>6. CASE bus' = None
  <2>1. SameSteady(w, world)
    BY <1>2, <1>4, <1>5, <1>6 DEF SameSteady, SameBut, SameMap
  <2>2. Steady(w) /\ \A z : HearsSame(w, world, z)
    BY <1>2, <2>1, SameSteadyKeeps
  <2>3. \A t \in Transforms : SameCarried(w, world, t)
    BY <1>4 DEF SameCarried
  <2>4. AllFollow(w)
    BY <1>2, <2>2, <2>3, FollowsKeeps DEF AllFollow
  <2>5. Read(world', w, Subscribed)
    BY <1>2, <1>3, <1>4, <2>2, <2>4, ParamsFollow
  <2>6. QED
    BY <1>1, <1>4, <2>5 DEF FollowInv, Read
<1>7. CASE bus' # None
  <2>1. Opened(w, world)
    BY <1>1, <1>2, <1>4, <1>5, <1>7 DEF Opened, Steady, Cut
  <2>2. Steady(w) /\ AllFollow(w)
    BY <1>2, <2>1, OpenedSteady, OpenedFollows
  <2>3. Read(world', w, Subscribed)
    BY <1>2, <1>3, <1>4, <2>2, ParamsFollow
  <2>4. QED
    BY <1>1, <1>4, <2>3 DEF FollowInv, Read
<1>8. QED
  BY <1>6, <1>7

LEMMA InitDoneFollows ==
  ASSUME TransformsAreOwn, FollowInv, InitDone
  PROVE  FollowInv'
<1>1. stage = "loaded" /\ stage' = "running" /\ UNCHANGED bus
  BY DEF InitDone
<1>2. /\ Steady(world) /\ AllFollow(world) /\ world.bus = bus /\ DOMAIN world.items = Subscribed
  BY <1>1 DEF FollowInv
<1>3. PICK s \in Orders(RoleKeys \cap DOMAIN world.values) : world' = Through(Routed(world, context), s, SeesKey)
  BY DEF InitDone, Routed
<1>4. IsFiniteSet(RoleKeys \cap DOMAIN world.values)
  <2>1. RoleKeys \cap DOMAIN world.values \in SUBSET Keys
    BY DEF RoleKeys
  <2>2. QED
    BY ONLY <2>1, StreamRestoreAssumption, FS_Subset
<1>5. Len(s) \in Nat
  BY <1>4, OrdersAre
<1> DEFINE y == Routed(world, context)
<1>6. Steady(y) /\ AllFollow(y) /\ y.bus = bus /\ y.items = world.items
  <2> DEFINE rerouted == IF context = world.route THEN world.rerouted ELSE DOMAIN Roles
  <2>1. y = WithRoute(world, context, rerouted)
    BY DEF Routed, WithRoute
  <2> HIDE DEF rerouted, y
  <2>2. QED
    BY <1>2, <2>1, OtherRoute
<1> HIDE DEF y
<1>7. Going(world', y)
  BY <1>3, <1>5, <1>6, KeysFollow DEF y
<1>8. QED
  BY <1>1, <1>2, <1>6, <1>7 DEF FollowInv, Going, Kept, AllFollow

\* A step that leaves the stage as it is.
LEMMA FollowStep ==
  ASSUME FollowInv, stage' = stage, stage # "unloaded",
         Steady(world') /\ AllFollow(world') /\ world'.bus = bus'
           /\ DOMAIN world'.items = DOMAIN world.items,
         stage = "loading" => world'.queueSubscribe = world.queueSubscribe /\ world'.known = world.known
  PROVE  FollowInv'
BY DEF FollowInv

LEMMA RetryFollows ==
  ASSUME TransformsAreOwn, FollowInv, LinkInv, RetryTimeout
  PROVE  FollowInv'
<1>1. PICK dies \in BOOLEAN :
        /\ LinkRetry(dies)
        /\ IF bus' = None THEN UNCHANGED world
           ELSE \E dying \in IF bus' = "dead" THEN 0..Len(world.queue)
                                              ELSE {Len(world.queue) + 1} :
                  world' = ProcessQueuedOps(world, dying)
  BY DEF RetryTimeout
<1>2. stage \in {"loaded", "running"} /\ bus = None /\ stage' = stage
  BY <1>1 DEF LinkRetry, LinkInv, OneThingAtATime
<1>3. Steady(world) /\ AllFollow(world) /\ world.bus = None
  BY <1>2 DEF FollowInv
<1>4. bus' \in {None, "up", "dead"}
  BY <1>1 DEF LinkRetry, Connect, AskAddress, FailToOpen, Open
<1>5. CASE bus' = None
  BY <1>1, <1>2, <1>3, <1>5, FollowStep
<1>6. CASE bus' # None
  <2>1. Len(world.queue) \in Nat
    BY <1>3 DEF Steady, Typed, IsWorld, IsList
  <2>2. PICK dying \in Nat : /\ dying \in 0..Len(world.queue) <=> bus' = "dead"
                             /\ world' = ProcessQueuedOps(world, dying)
    BY <1>1, <1>6, <2>1
  <2> DEFINE up == IF dying \in 0..Len(world.queue) THEN "dead" ELSE "up"
  <2>3. up = bus'
    BY <1>4, <1>6, <2>2
  <2>4. Served(world', world, up)
    BY <1>3, <2>2, ProcessQueuedOpsFollows
  <2> HIDE DEF up
  <2>5. QED
    BY <1>2, <2>3, <2>4, FollowStep DEF Served
<1>7. QED
  BY <1>5, <1>6

LEMMA DisconnectedFollows ==
  ASSUME FollowInv, LinkInv, Disconnected
  PROVE  FollowInv'
<1>1. bus = "dead" /\ bus' = None /\ stage' = stage /\ world.signals = <<>>
  BY DEF Disconnected, LinkDisconnected
<1>2. stage \in {"loaded", "running"}
  BY <1>1 DEF LinkInv, None
<1>3. Steady(world) /\ AllFollow(world) /\ world.bus = bus /\ bus # None
  BY <1>1, <1>2 DEF FollowInv, None
<1>4. /\ Steady(world') /\ AllFollow(world') /\ world'.bus = None
      /\ DOMAIN world'.items = DOMAIN world.items
  BY <1>1, <1>3, DisconnectFollows DEF Disconnected
<1>5. QED
  BY <1>1, <1>2, <1>4, FollowStep

LEMMA SignalFollows ==
  ASSUME TransformsAreOwn, FollowInv, LinkInv, ReceiveSignal
  PROVE  FollowInv'
<1> DEFINE n == Head(world.signals)
           u == [world EXCEPT !.signals = Tail(world.signals)]
<1>1. bus # None /\ stage' = stage /\ bus' = bus /\ world.signals # <<>>
  BY DEF ReceiveSignal, link
<1>2. stage \in {"loaded", "running"}
  BY <1>1 DEF LinkInv
<1>3. Steady(world) /\ AllFollow(world) /\ world.bus = bus
  BY <1>2 DEF FollowInv
<1>4. TakenFrom(u, world, n)
  BY <1>1, <1>3, TakenIs
<1>5. \/ n.kind = "new" /\ world' = EntryAppears(u, n.path)
      \/ n.kind = "removed" /\ world' = EntryDisappears(u, n.path)
      \/ n.kind = "volume" /\ world' = Carries(u, n)
  BY DEF ReceiveSignal, Carries
<1> HIDE DEF u, n
<1>6. Calm(world', world)
  BY <1>1, <1>3, <1>4, <1>5, EntryAppearsFollows, EntryDisappearsFollows, VolumeFollows
<1>7. QED
  BY <1>1, <1>2, <1>3, <1>6, FollowStep DEF Calm

LEMMA ChangeKeyFollows ==
  ASSUME TransformsAreOwn, FollowInv, NEW k, NEW v, ChangeKey(k, v)
  PROVE  FollowInv'
<1>1. /\ stage # "unloaded" /\ stage' = stage /\ bus' = bus /\ world' = SetContext(world, k, v)
      /\ ~\E t \in Transforms : t.toContext /\ t.dst = k
  BY DEF ChangeKey, Changing, link
<1>2. Steady(world) /\ AllFollow(world) /\ world.bus = bus
  BY <1>1 DEF FollowInv
<1>3. Steady(world') /\ AllFollow(world') /\ world'.bus = world.bus /\ world'.items = world.items
  BY <1>1, <1>2, OtherKeyFollows
<1>4. ASSUME stage = "loading"
      PROVE  world'.queueSubscribe = world.queueSubscribe /\ world'.known = world.known
  <2>1. world.known = <<>> /\ IsWorld(world)
    BY <1>2, <1>4 DEF FollowInv, Steady, Typed
  <2>2. QED
    BY <1>1, <2>1, NobodyFollows
<1>5. QED
  BY <1>1, <1>2, <1>3, <1>4, FollowStep

LEMMA ChangeRouteFollows ==
  ASSUME FollowInv, NEW r, ChangeRoute(r)
  PROVE  FollowInv'
<1>1. /\ stage # "unloaded" /\ stage' = stage /\ bus' = bus
      /\ world' = IF stage = "loading" THEN world
                  ELSE [world EXCEPT !.route = r, !.rerouted = DOMAIN Roles]
  BY DEF ChangeRoute, Changing, link
<1>2. Steady(world) /\ AllFollow(world) /\ world.bus = bus
  BY <1>1 DEF FollowInv
<1>3. CASE stage = "loading"
  BY <1>1, <1>2, <1>3, FollowStep
<1>4. CASE stage # "loading"
  <2>1. world' = WithRoute(world, r, DOMAIN Roles)
    BY <1>1, <1>4 DEF WithRoute
  <2>2. Steady(world') /\ AllFollow(world') /\ world'.bus = world.bus /\ world'.items = world.items
    BY <1>2, <2>1, OtherRoute
  <2>3. QED
    BY <1>1, <1>2, <1>4, <2>2, FollowStep
<1>5. QED
  BY <1>3, <1>4

LEMMA OthersSetFollows ==
  ASSUME TransformsAreOwn, FollowInv, NEW s \in Subscribed, NEW mix, OthersSet(s, mix)
  PROVE  FollowInv'
<1>1. stage # "unloaded" /\ stage' = stage /\ bus' = bus /\ world' = SetLevel(world, s, mix)
  BY DEF OthersSet, Changing, link
<1>2. Steady(world) /\ AllFollow(world) /\ world.bus = bus
  BY <1>1 DEF FollowInv
<1>3. s \in Streams /\ \A t \in Transforms : ~t.toContext => t.dst # s
  BY StreamRestoreAssumption DEF TransformsAreOwn
<1>4. Steady(world')
  BY <1>1, <1>2, <1>3, SetLevelSteady
<1>5. \A t \in Transforms : Follows(world', t)
  BY <1>1, <1>2, <1>3, SetLevelFollows DEF AllFollow
<1>6. LevelSet(world', world, s, mix)
  BY <1>1, <1>2, <1>3, SetLevelIs DEF Steady
<1>7. QED
  BY <1>1, <1>2, <1>4, <1>5, <1>6, FollowStep DEF LevelSet, SameMap, AllFollow

LEMMA OthersRemoveFollows ==
  ASSUME FollowInv, NEW s \in Subscribed, OthersRemove(s)
  PROVE  FollowInv'
<1>1. /\ stage # "unloaded" /\ stage' = stage /\ bus' = bus
      /\ world' = RemoveEntry(world, s) /\ world.path[s] # NoPath
  BY DEF OthersRemove, Changing, link
<1>2. Steady(world) /\ AllFollow(world) /\ world.bus = bus /\ s \in Streams
  BY <1>1, StreamRestoreAssumption DEF FollowInv
<1>3. /\ Steady(world') /\ AllFollow(world') /\ world'.bus = world.bus
      /\ world'.items = world.items /\ world'.queueSubscribe = world.queueSubscribe
  BY <1>1, <1>2, RemoveEntryFollows
<1>4. world'.known = world.known
  BY <1>1, <1>2, RemoveEntryQuiet DEF Quiet, SameRoles, Steady, Typed
<1>5. QED
  BY <1>1, <1>2, <1>3, <1>4, FollowStep

LEMMA PulseStopsFollows ==
  ASSUME FollowInv, PulseStops
  PROVE  FollowInv'
<1>1. /\ stage # "unloaded" /\ stage' = stage
      /\ bus' = IF bus = "up" THEN "dead" ELSE bus
      /\ world' = Die(world)
  BY DEF PulseStops, PulseGoes
<1>2. Steady(world) /\ AllFollow(world) /\ world.bus = bus
  BY <1>1 DEF FollowInv
<1>3. /\ Steady(world') /\ AllFollow(world') /\ world'.items = world.items
      /\ world'.queueSubscribe = world.queueSubscribe /\ world'.known = world.known
      /\ world'.bus = IF world.bus = "up" THEN "dead" ELSE world.bus
  BY <1>1, <1>2, DieFollows, DieKnows
<1>4. QED
  BY <1>1, <1>2, <1>3, FollowStep

LEMMA PulseComesFollows ==
  ASSUME FollowInv, LinkInv, NEW a, PulseStarts(a)
  PROVE  FollowInv'
<1> DEFINE S == {s \in Streams : world.path[s] # NoPath}
<1>1. stage # "unloaded" /\ stage' = stage /\ bus' = bus /\ server = None
  BY DEF PulseStarts, PulseComes
<1>2. Steady(world) /\ AllFollow(world) /\ world.bus = bus /\ bus # "up"
  BY <1>1 DEF FollowInv, LinkInv
<1>3. PICK f \in Injection(S, 1..Cardinality(S)) : world' = Restarted(world, S, f)
  BY DEF PulseStarts, Restarted
<1>4. S = {s \in Streams : world.path[s] # NoPath}
  OBVIOUS
<1> HIDE DEF S
<1>5. /\ Steady(world') /\ AllFollow(world') /\ world'.bus = world.bus
      /\ world'.items = world.items /\ world'.queueSubscribe = world.queueSubscribe
      /\ world'.known = world.known
  BY <1>2, <1>3, <1>4, PulseStartsFollows
<1>6. QED
  BY <1>1, <1>2, <1>5, FollowStep

LEMMA FollowNextKeeps ==
  ASSUME TransformsAreOwn, FollowInv, LinkInv, [Next]_vars
  PROVE  FollowInv'
<1>1. CASE Load
  BY <1>1, LoadFollows
<1>2. CASE InitDone
  BY <1>2, InitDoneFollows
<1>3. CASE AddressReply
  <2>1. stage' = stage /\ bus' = bus /\ world' = world
    BY <1>3 DEF AddressReply, LinkAddressReply
  <2>2. QED
    BY <2>1 DEF FollowInv
<1>4. CASE RetryTimeout
  BY <1>4, RetryFollows
<1>5. CASE Disconnected
  BY <1>5, DisconnectedFollows
<1>6. CASE ReceiveSignal
  BY <1>6, SignalFollows
<1>7. CASE Unload
  BY <1>7 DEF Unload, LinkUnload, FollowInv
<1>8. CASE PulseStops
  BY <1>8, PulseStopsFollows
<1>9. CASE \E k \in Keys, v \in Values : ChangeKey(k, v)
  BY <1>9, ChangeKeyFollows
<1>10. CASE \E r \in Routes : ChangeRoute(r)
  BY <1>10, ChangeRouteFollows
<1>11. CASE \E s \in Subscribed, mix \in Mixes : OthersSet(s, mix)
  BY <1>11, OthersSetFollows
<1>12. CASE \E s \in Subscribed : OthersRemove(s)
  BY <1>12, OthersRemoveFollows
<1>13. CASE \E a \in Addresses : PulseStarts(a)
  BY <1>13, PulseComesFollows
<1>14. CASE UNCHANGED vars
  <2>1. stage' = stage /\ bus' = bus /\ world' = world
    BY <1>14 DEF vars, link
  <2>2. QED
    BY <2>1 DEF FollowInv
<1>15. QED
  BY <1>1, <1>2, <1>3, <1>4, <1>5, <1>6, <1>7, <1>8, <1>9, <1>10, <1>11, <1>12, <1>13, <1>14
     DEF Next

\* What the invariant says of a connection on which no signal waits.
LEMMA FollowInvCarries == FollowInv /\ LinkInv => TransformsFollow
<1> SUFFICES ASSUME FollowInv, LinkInv
             PROVE  TransformsFollow
  OBVIOUS
<1>1. ASSUME bus # None
      PROVE  ~world.freedKeys /\ stage # "unloaded" /\ world.bus = bus /\ Steady(world)
  BY <1>1 DEF LinkInv, FollowInv, Steady
<1>2. ASSUME stage # "loading", bus = "up", world.signals = <<>>
      PROVE  /\ world.heeded.paths = {world.path[s] : s \in Subscribed} \ {NoPath}
             /\ \A t \in Transforms :
                  /\ world.heeded.entries
                  /\ world.items[t.src] = world.path[t.src]
                  /\ t.src \notin world.missed => CarriedOver(world, t)
  <2>1. /\ Steady(world) /\ AllFollow(world) /\ world.bus = "up"
        /\ DOMAIN world.items = Subscribed
    BY <1>1, <1>2 DEF FollowInv, None
  <2>2. Tuned(world) /\ Aligned(world)
    BY <2>1 DEF Steady, Tuned
  <2>3. \A i \in Nat : \A k, p : ~Says(world, i, k, p)
    BY <1>2 DEF Says
  <2>4. \A s \in Subscribed : world.items[s] = world.path[s]
    BY <2>1, <2>2, <2>3 DEF Aligned, InTune
  <2>5. \A p : p \in world.heeded.paths <=> p # NoPath /\ \E s \in Subscribed : world.path[s] = p
    BY <2>1, <2>2, <2>4 DEF Tuned
  <2>6. world.heeded.paths = {world.path[s] : s \in Subscribed} \ {NoPath}
    BY <2>5
  <2>7. ASSUME NEW t \in Transforms
        PROVE  /\ world.heeded.entries
               /\ world.items[t.src] = world.path[t.src]
               /\ t.src \notin world.missed => CarriedOver(world, t)
    <3>1. t.src \in Subscribed
      BY DEF Subscribed
    <3>2. world.heeded.entries
      BY <2>1, <2>2, <3>1 DEF Aligned
    <3>3. Follows(world, t) /\ ~LastIsNow(world, t.src)
      BY <2>1, <2>3 DEF AllFollow, LastIsNow, Comes
    <3>4. QED
      BY <2>4, <3>1, <3>2, <3>3 DEF Follows
  <2>8. QED
    BY <2>6, <2>7
<1>3. QED
  BY <1>1, <1>2 DEF TransformsFollow

\* The object map, the paths of the entries and what the connection listens to
\* stay in step with PulseAudio through every order of its signals (NewEntry,
\* EntryRemoved, VolumeUpdated) and every restart, and no volume of a stream
\* that could be heard is left behind (volume_changed_cb): for every set of
\* transforms to whose destinations nothing else writes.
THEOREM TransformsAreFollowed == TransformsAreOwn => (Spec => []TransformsFollow)
<1> SUFFICES ASSUME TransformsAreOwn PROVE Spec => []TransformsFollow
  OBVIOUS
<1>1. Init => FollowInv
  BY FollowInitHolds
<1>2. FollowInv /\ LinkInv /\ [Next]_vars => FollowInv'
  BY FollowNextKeeps
<1>3. FollowInv /\ LinkInv => TransformsFollow
  BY FollowInvCarries
<1>4. QED
  BY <1>1, <1>2, <1>3, LinkInvHolds, PTL DEF Spec
=============================================================================
