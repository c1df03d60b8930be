--------------------------- MODULE CoreDbusProofs ---------------------------
(***************************************************************************)
(* Theorems about CoreDbus for every set of buses, keys and callbacks and  *)
(* every bound on the calls: no connection is given up under its users, and*)
(* the first listeners of a signal hear it.                                *)
(***************************************************************************)
EXTENDS CoreDbus, FiniteSetTheorems, TLAPS

-----------------------------------------------------------------------------
(* The inductive invariant.                                                *)

\* The two sets HeldByMatches counts: the matches of a bus, and their callbacks.
MatchesOf(t) == {k \in Keys : matches[k] # None /\ matches[k].bus = t}
CallbacksOf(t) ==
  UNION {{<<k, c>> : c \in matches[k].callbacks} : k \in MatchesOf(t)}

\* Every listener is in the match of its key, and the ids that were given out
\* are below the next one.
Listening ==
  /\ \A w \in wanted : /\ matches[w.key] # None
                       /\ [id |-> w.id, cb |-> w.cb] \in matches[w.key].callbacks
  /\ \A k \in Keys : matches[k] # None =>
       \A c \in matches[k].callbacks : c.id <= lastId

\* A match has its rule, and its bus was given the filter once; only giving the
\* connection up takes the filter off.
Routed ==
  /\ \A k \in Keys : matches[k] # None =>
       <<matches[k].bus, k>> \in rules /\ matches[k].bus \in filterSet
  /\ filterSet \ released \subseteq hooked

Finite ==
  \A t \in Buses : IsFiniteSet(MatchesOf(t)) /\ IsFiniteSet(CallbacksOf(t))

Held(t) == Cardinality(MatchesOf(t)) + Cardinality(CallbacksOf(t))

Counted ==
  \A t \in Buses : /\ ref[t] >= Held(t) + pending[t]
                   /\ t \notin reused => ref[t] = Held(t) + pending[t]

Inv == TypeOK /\ Listening /\ Routed /\ Finite /\ Counted

-----------------------------------------------------------------------------
(* How the counts change.                                                  *)

\* They are natural numbers, and they are what the property counts.
LEMMA HeldType ==
  ASSUME Inv, NEW t \in Buses
  PROVE  /\ Held(t) \in Nat /\ Held(t) = HeldByMatches(t)
         /\ Cardinality(MatchesOf(t)) \in Nat
         /\ Cardinality(CallbacksOf(t)) \in Nat
BY FS_CardinalityType DEF Inv, Finite, Held, HeldByMatches, MatchesOf, CallbacksOf

\* A step that leaves the matches alone leaves what they hold alone.
LEMMA SameMatches ==
  ASSUME UNCHANGED matches, NEW t \in Buses
  PROVE  /\ MatchesOf(t)' = MatchesOf(t) /\ CallbacksOf(t)' = CallbacksOf(t)
         /\ Held(t)' = Held(t)
BY DEF MatchesOf, CallbacksOf, Held

\* A step that rewrites the match of one key leaves the other buses alone.
LEMMA OtherBuses ==
  ASSUME Inv, NEW k \in Keys, NEW m \in Match \cup {None},
         matches' = [matches EXCEPT ![k] = m], NEW t \in Buses,
         k \notin MatchesOf(t), m = None \/ m.bus # t
  PROVE  /\ MatchesOf(t)' = MatchesOf(t) /\ CallbacksOf(t)' = CallbacksOf(t)
         /\ Held(t)' = Held(t)
<1>1. \A l \in Keys : matches'[l] = IF l = k THEN m ELSE matches[l]
  BY DEF Inv, TypeOK
<1>2. MatchesOf(t)' = MatchesOf(t)
  BY <1>1 DEF MatchesOf
<1>3. \A l \in MatchesOf(t) : l \in Keys /\ matches'[l] = matches[l]
  BY <1>1 DEF MatchesOf
<1>4. CallbacksOf(t)' = CallbacksOf(t)
  BY <1>2, <1>3 DEF CallbacksOf
<1>5. QED
  BY <1>2, <1>4 DEF Held

\* n_dbus_add_match makes a match with one callback.
LEMMA MatchMade ==
  ASSUME Inv, NEW k \in Keys, NEW t \in Buses, NEW c, matches[k] = None,
         [bus |-> t, callbacks |-> {c}] \in Match,
         matches' = [matches EXCEPT ![k] = [bus |-> t, callbacks |-> {c}]]
  PROVE  /\ IsFiniteSet(MatchesOf(t)') /\ IsFiniteSet(CallbacksOf(t)')
         /\ Held(t)' = Held(t) + 2
<1>1. \A l \in Keys : matches'[l] = IF l = k THEN [bus |-> t, callbacks |-> {c}]
                                             ELSE matches[l]
  BY DEF Inv, TypeOK
<1>2. [bus |-> t, callbacks |-> {c}] # None
  BY NoneAssumption
<1>3. k \notin MatchesOf(t) /\ MatchesOf(t)' = MatchesOf(t) \cup {k}
  BY <1>1, <1>2 DEF MatchesOf
<1>4. \A l \in MatchesOf(t) : l \in Keys /\ l # k /\ matches'[l] = matches[l]
  BY <1>1, <1>3 DEF MatchesOf
<1>5. matches'[k].callbacks = {c}
  BY <1>1
<1>6. /\ <<k, c>> \notin CallbacksOf(t)
      /\ CallbacksOf(t)' = CallbacksOf(t) \cup {<<k, c>>}
  <2>1. <<k, c>> \notin CallbacksOf(t)
    BY <1>4 DEF CallbacksOf
  <2>2. \A p : p \in CallbacksOf(t)' <=> p \in CallbacksOf(t) \cup {<<k, c>>}
    BY <1>3, <1>4, <1>5 DEF CallbacksOf
  <2>3. QED
    BY <2>1, <2>2
<1>7. /\ IsFiniteSet(MatchesOf(t)) /\ IsFiniteSet(CallbacksOf(t))
      /\ Cardinality(MatchesOf(t)) \in Nat /\ Cardinality(CallbacksOf(t)) \in Nat
  BY HeldType DEF Inv, Finite
<1>8. QED
  <2>1. /\ IsFiniteSet(MatchesOf(t) \cup {k})
        /\ Cardinality(MatchesOf(t) \cup {k}) = Cardinality(MatchesOf(t)) + 1
    BY <1>3, <1>7, FS_AddElement
  <2>2. /\ IsFiniteSet(CallbacksOf(t) \cup {<<k, c>>})
        /\ Cardinality(CallbacksOf(t) \cup {<<k, c>>})
             = Cardinality(CallbacksOf(t)) + 1
    BY <1>6, <1>7, FS_AddElement
  <2>3. QED
    BY <1>3, <1>6, <1>7, <2>1, <2>2 DEF Held

\* It adds a callback to a match that is there.
LEMMA CallbackAdded ==
  ASSUME Inv, NEW k \in Keys, NEW c, NEW t \in Buses,
         matches[k] # None, matches[k].bus = t,
         c \notin matches[k].callbacks,
         [matches[k] EXCEPT !.callbacks = @ \cup {c}] \in Match,
         matches' = [matches EXCEPT ![k].callbacks = @ \cup {c}]
  PROVE  /\ IsFiniteSet(MatchesOf(t)') /\ IsFiniteSet(CallbacksOf(t)')
         /\ Held(t)' = Held(t) + 1
<1> DEFINE m == [matches[k] EXCEPT !.callbacks = @ \cup {c}]
<1>1. \A l \in Keys : matches'[l] = IF l = k THEN m ELSE matches[l]
  BY DEF Inv, TypeOK
<1>2. /\ matches[k] \in Match
      /\ m # None /\ m.bus = t /\ m.callbacks = matches[k].callbacks \cup {c}
  BY NoneAssumption DEF Inv, TypeOK, Match
<1> HIDE DEF m
<1>3. k \in MatchesOf(t) /\ MatchesOf(t)' = MatchesOf(t)
  BY <1>1, <1>2 DEF MatchesOf
<1>4. <<k, c>> \notin CallbacksOf(t)
  BY DEF CallbacksOf
<1>5. \A p : p \in CallbacksOf(t)' <=> p \in CallbacksOf(t) \cup {<<k, c>>}
  <2>1. \A l \in MatchesOf(t) :
          matches'[l].callbacks = IF l = k THEN matches[k].callbacks \cup {c}
                                           ELSE matches[l].callbacks
    BY <1>1, <1>2 DEF MatchesOf
  <2>2. QED
    BY <1>3, <2>1 DEF CallbacksOf
<1>6. CallbacksOf(t)' = CallbacksOf(t) \cup {<<k, c>>}
  BY <1>5
<1>7. /\ IsFiniteSet(MatchesOf(t)) /\ IsFiniteSet(CallbacksOf(t))
      /\ Cardinality(MatchesOf(t)) \in Nat /\ Cardinality(CallbacksOf(t)) \in Nat
  BY <1>2, HeldType DEF Inv, Finite
<1>8. QED
  <2>1. /\ IsFiniteSet(CallbacksOf(t) \cup {<<k, c>>})
        /\ Cardinality(CallbacksOf(t) \cup {<<k, c>>})
             = Cardinality(CallbacksOf(t)) + 1
    BY <1>4, <1>7, FS_AddElement
  <2>2. QED
    BY <1>2, <1>3, <1>6, <1>7, <2>1 DEF Held

\* A callback is removed, and with the last one its match.
LEMMA CallbackRemoved ==
  ASSUME Inv, NEW k \in Keys, NEW t \in Buses,
         matches[k] # None, matches[k].bus = t,
         NEW c \in matches[k].callbacks, Removes(k, c)
  PROVE  LET n == IF matches[k].callbacks = {c} THEN 2 ELSE 1
         IN  /\ IsFiniteSet(MatchesOf(t)') /\ IsFiniteSet(CallbacksOf(t)')
             /\ Held(t)' = Held(t) - n /\ Held(t) >= n
<1> DEFINE m == [matches[k] EXCEPT !.callbacks = @ \ {c}]
<1>1. matches[k] \in Match
  BY DEF Inv, TypeOK, Match
<1>2. m # None /\ m.bus = t /\ m.callbacks = matches[k].callbacks \ {c}
  BY <1>1, NoneAssumption DEF Match
<1>3. \A l \in Keys : matches'[l] =
        IF l = k THEN (IF matches[k].callbacks = {c} THEN None ELSE m)
                 ELSE matches[l]
  BY DEF Removes, Inv, TypeOK
<1> HIDE DEF m
<1>4. k \in MatchesOf(t) /\ <<k, c>> \in CallbacksOf(t)
  BY DEF MatchesOf, CallbacksOf
<1>5. MatchesOf(t)' = IF matches[k].callbacks = {c} THEN MatchesOf(t) \ {k}
                                                    ELSE MatchesOf(t)
  <2>1. CASE matches[k].callbacks = {c}
    BY <1>3, <2>1 DEF MatchesOf
  <2>2. CASE matches[k].callbacks # {c}
    BY <1>2, <1>3, <1>4, <2>2 DEF MatchesOf
  <2>3. QED
    BY <2>1, <2>2
<1>6. \A p : p \in CallbacksOf(t)' <=> p \in CallbacksOf(t) \ {<<k, c>>}
  <2>1. \A l \in MatchesOf(t) : l # k => matches'[l] = matches[l]
    BY <1>3 DEF MatchesOf
  <2>2. CASE matches[k].callbacks = {c}
    BY <1>4, <1>5, <2>1, <2>2 DEF CallbacksOf
  <2>3. CASE matches[k].callbacks # {c}
    <3>1. matches'[k].callbacks = matches[k].callbacks \ {c}
      BY <1>2, <1>3, <2>3
    <3>2. QED
      BY <1>4, <1>5, <2>1, <2>3, <3>1 DEF CallbacksOf
  <2>4. QED
    BY <2>2, <2>3
<1>7. CallbacksOf(t)' = CallbacksOf(t) \ {<<k, c>>}
  BY <1>6
<1>8. /\ IsFiniteSet(MatchesOf(t)) /\ IsFiniteSet(CallbacksOf(t))
      /\ Cardinality(MatchesOf(t)) \in Nat /\ Cardinality(CallbacksOf(t)) \in Nat
  BY <1>1, HeldType DEF Inv, Finite
<1>9. Cardinality(MatchesOf(t)) # 0 /\ Cardinality(CallbacksOf(t)) # 0
  BY <1>4, <1>8, FS_EmptySet
<1>10. QED
  <2>1. /\ IsFiniteSet(MatchesOf(t) \ {k})
        /\ Cardinality(MatchesOf(t) \ {k}) = Cardinality(MatchesOf(t)) - 1
    BY <1>4, <1>8, FS_RemoveElement
  <2>2. /\ IsFiniteSet(CallbacksOf(t) \ {<<k, c>>})
        /\ Cardinality(CallbacksOf(t) \ {<<k, c>>})
             = Cardinality(CallbacksOf(t)) - 1
    BY <1>4, <1>8, FS_RemoveElement
  <2>3. CASE matches[k].callbacks = {c}
    BY <1>1, <1>5, <1>7, <1>8, <1>9, <2>1, <2>2, <2>3 DEF Held
  <2>4. CASE matches[k].callbacks # {c}
    BY <1>1, <1>5, <1>7, <1>8, <1>9, <2>1, <2>2, <2>4 DEF Held
  <2>5. QED
    BY <2>3, <2>4

-----------------------------------------------------------------------------
(* Every call keeps the invariant.                                         *)

\* At the start nothing is held and nobody listens.
LEMMA InitInv == Init => Inv
<1> SUFFICES ASSUME Init
             PROVE  Inv
  OBVIOUS
<1>1. TypeOK /\ Listening /\ Routed
  BY BoundAssumption DEF Init, TypeOK, Listening, Routed
<1>2. \A t \in Buses : MatchesOf(t) = {} /\ CallbacksOf(t) = {}
  BY DEF Init, MatchesOf, CallbacksOf
<1>3. Finite /\ Counted
  BY <1>2, FS_EmptySet DEF Init, Finite, Counted, Held
<1>4. QED
  BY <1>1, <1>3 DEF Inv

\* What the types say of one bus.
LEMMA BusTypes ==
  ASSUME Inv, NEW t \in Buses
  PROVE  /\ ref[t] \in Nat /\ pending[t] \in Nat
         /\ (t \in connected <=> ref[t] > 0)
BY BoundAssumption DEF Inv, TypeOK

\* A connection that was taken n times more is kept, with its filter.
LEMMA GetsKeeps ==
  ASSUME Inv, NEW t \in Buses, NEW n \in Nat \ {0}, NEW filter \in BOOLEAN,
         Gets(t, n, filter)
  PROVE  /\ ref' \in [Buses -> Nat] /\ connected' = {b \in Buses : ref'[b] > 0}
         /\ \A b \in Buses : ref'[b] = IF b = t THEN ref[b] + n ELSE ref[b]
         /\ filterSet \subseteq filterSet' /\ filterSet' \subseteq Buses
         /\ hooked' \subseteq filterSet'
         /\ filterSet' \ released \subseteq hooked'
         /\ filter => t \in filterSet'
<1>1. ref \in [Buses -> Nat] /\ connected = {b \in Buses : ref[b] > 0}
  BY DEF Inv, TypeOK
<1>2. ref' = [ref EXCEPT ![t] = @ + n] /\ connected' = connected \cup {t}
  BY DEF Gets
<1>3. /\ \A b \in Buses : ref'[b] = IF b = t THEN ref[b] + n ELSE ref[b]
      /\ ref' \in [Buses -> Nat]
  BY <1>1, <1>2
<1>4. connected' = {b \in Buses : ref'[b] > 0}
  BY <1>1, <1>2, <1>3
<1>5. QED
  BY <1>3, <1>4 DEF Gets, Inv, TypeOK, Routed

\* A connection that is given back n times, of at least n references.
LEMMA UnrefsKeeps ==
  ASSUME Inv, NEW t \in Buses, NEW n \in Nat \ {0}, ref[t] >= n, Unrefs(t, n)
  PROVE  /\ ref' \in [Buses -> Nat] /\ connected' = {b \in Buses : ref'[b] > 0}
         /\ \A b \in Buses : ref'[b] = IF b = t THEN ref[b] - n ELSE ref[b]
         /\ filterSet' = filterSet /\ hooked' \subseteq filterSet'
         /\ filterSet' \ released' \subseteq hooked'
         /\ released' \subseteq Buses
<1>1. ref \in [Buses -> Nat] /\ connected = {b \in Buses : ref[b] > 0}
  BY DEF Inv, TypeOK
<1>2. /\ ref' = [ref EXCEPT ![t] = @ - n]
      /\ connected' = IF ref[t] = n THEN connected \ {t} ELSE connected
  BY DEF Unrefs
<1>3. /\ \A b \in Buses : ref'[b] = IF b = t THEN ref[b] - n ELSE ref[b]
      /\ ref' \in [Buses -> Nat]
  BY <1>1, <1>2
<1>4. connected' = {b \in Buses : ref'[b] > 0}
  <2>1. CASE ref[t] = n
    BY <1>1, <1>2, <1>3, <2>1
  <2>2. CASE ref[t] # n
    BY <1>1, <1>2, <1>3, <2>2
  <2>3. QED
    BY <2>1, <2>2
<1>5. QED
  BY <1>3, <1>4 DEF Unrefs, Inv, TypeOK, Routed

\* The first listener of a key.
LEMMA AddNewInv ==
  ASSUME Inv, NEW cb \in Callbacks, NEW t \in Buses, NEW k \in Keys,
         AddMatch(cb, t, k), AddNew(cb, t, k, lastId + 1)
  PROVE  Inv'
<1> DEFINE c == [id |-> lastId + 1, cb |-> cb]
           m == [bus |-> t, callbacks |-> {c}]
<1>1. /\ lastId \in 0..MaxId /\ lastId' = lastId + 1 /\ lastId' \in 1..MaxId
      /\ matches \in [Keys -> Match \cup {None}]
  BY BoundAssumption DEF AddMatch, Inv, TypeOK
<1>2. m \in Match /\ m # None
  BY <1>1, NoneAssumption DEF Match
<1>3. /\ matches' = [matches EXCEPT ![k] = m] /\ matches[k] = None
      /\ rules' = rules \cup {<<t, k>>} /\ Gets(t, 2, TRUE)
      /\ UNCHANGED <<reused, pending, released, helper>>
      /\ wanted' = wanted \cup {[id |-> lastId', cb |-> cb, bus |-> t, key |-> k]}
  BY <1>1 DEF AddMatch, AddNew
<1>4. \A l \in Keys : matches'[l] = IF l = k THEN m ELSE matches[l]
  BY <1>1, <1>3
<1>5. /\ ref' \in [Buses -> Nat] /\ connected' = {b \in Buses : ref'[b] > 0}
      /\ \A b \in Buses : ref'[b] = IF b = t THEN ref[b] + 2 ELSE ref[b]
      /\ filterSet \subseteq filterSet' /\ filterSet' \subseteq Buses
      /\ hooked' \subseteq filterSet' /\ filterSet' \ released' \subseteq hooked'
      /\ t \in filterSet'
  <2>1. 2 \in Nat \ {0} /\ TRUE \in BOOLEAN
    OBVIOUS
  <2>2. QED
    BY <1>3, <2>1, GetsKeeps
<1>6. TypeOK'
  <2>1. matches' \in [Keys -> Match \cup {None}]
    BY <1>1, <1>2, <1>3
  <2>2. wanted' \subseteq Listener
    BY <1>1, <1>3 DEF Listener, Inv, TypeOK
  <2>3. QED
    BY <1>1, <1>3, <1>5, <2>1, <2>2 DEF Inv, TypeOK
<1>7. Listening'
  <2>1. m.callbacks = {c}
    OBVIOUS
  <2>2. \A w \in wanted : matches'[w.key] = matches[w.key]
    BY <1>3, <1>4 DEF Inv, TypeOK, Listening, Listener
  <2> HIDE DEF m
  <2>3. \A w \in wanted' : /\ matches'[w.key] # None
                           /\ [id |-> w.id, cb |-> w.cb] \in matches'[w.key].callbacks
    <3>1. \A w \in wanted : /\ matches'[w.key] # None
                            /\ [id |-> w.id, cb |-> w.cb] \in matches'[w.key].callbacks
      BY <2>2 DEF Inv, Listening
    <3>2. matches'[k] = m
      BY <1>4
    <3>3. [id |-> lastId', cb |-> cb] \in m.callbacks
      BY <1>1, <2>1
    <3>4. \A w \in wanted' :
            w \in wanted \/ (w.id = lastId' /\ w.cb = cb /\ w.key = k)
      BY <1>3
    <3>5. QED
      BY <1>2, <3>1, <3>2, <3>3, <3>4
  <2>4. \A l \in Keys : matches'[l] # None =>
          \A d \in matches'[l].callbacks : d.id <= lastId'
    <3>1. \A l \in Keys \ {k} : matches'[l] # None =>
            \A d \in matches'[l].callbacks : d.id \in 1..MaxId /\ d.id <= lastId
      BY <1>1, <1>4 DEF Inv, Listening, Match
    <3>2. QED
      BY <1>1, <1>4, <2>1, <3>1
  <2>5. QED
    BY <2>3, <2>4 DEF Listening
<1>8. Routed'
  BY <1>3, <1>4, <1>5 DEF Inv, Routed
<1>9. ASSUME NEW b \in Buses
      PROVE  /\ IsFiniteSet(MatchesOf(b)') /\ IsFiniteSet(CallbacksOf(b)')
             /\ Held(b)' = IF b = t THEN Held(b) + 2 ELSE Held(b)
  <2>1. CASE b = t
    BY <1>2, <1>3, <2>1, MatchMade
  <2>2. CASE b # t
    <3>1. b \notin {m.bus} /\ k \notin MatchesOf(b)
      BY <1>3, <2>2 DEF MatchesOf
    <3>2. MatchesOf(b)' = MatchesOf(b) /\ CallbacksOf(b)' = CallbacksOf(b)
          /\ Held(b)' = Held(b)
      BY <1>2, <1>3, <3>1, OtherBuses
    <3>3. QED
      BY <2>2, <3>2 DEF Inv, Finite
  <2>3. QED
    BY <2>1, <2>2
<1>10. Finite' /\ Counted'
  <2>1. \A b \in Buses : Held(b) \in Nat /\ ref[b] \in Nat /\ pending[b] \in Nat
    BY HeldType, BusTypes
  <2>2. QED
    BY <1>3, <1>5, <1>9, <2>1 DEF Inv, Finite, Counted
<1>11. QED
  BY <1>6, <1>7, <1>8, <1>10 DEF Inv

\* A listener of a key that has its match; the bus of the caller gets a
\* reference too, and is noted in reused.
LEMMA AddToExistingInv ==
  ASSUME Inv, NEW cb \in Callbacks, NEW t \in Buses, NEW k \in Keys,
         AddMatch(cb, t, k), AddToExisting(cb, t, k, lastId + 1)
  PROVE  Inv'
<1> DEFINE c == [id |-> lastId + 1, cb |-> cb]
           m == [matches[k] EXCEPT !.callbacks = @ \cup {c}]
<1>1. /\ lastId \in 0..MaxId /\ lastId' = lastId + 1 /\ lastId' \in 1..MaxId
      /\ matches \in [Keys -> Match \cup {None}] /\ matches[k] # None
      /\ matches[k] \in Match
  BY BoundAssumption DEF AddMatch, AddToExisting, Inv, TypeOK
<1> PICK u \in Buses : u = matches[k].bus
  BY <1>1 DEF Match
<1>2. m \in Match /\ m # None /\ m.bus = u
      /\ m.callbacks = matches[k].callbacks \cup {c}
  <2>1. c \in [id : 1..MaxId, cb : Callbacks]
    BY <1>1
  <2> HIDE DEF c
  <2>2. m \in Match /\ m.bus = u /\ m.callbacks = matches[k].callbacks \cup {c}
    BY <1>1, <2>1 DEF Match
  <2>3. QED
    BY <2>2, NoneAssumption
<1>3. /\ matches' = [matches EXCEPT ![k].callbacks = @ \cup {c}]
      /\ connected' = connected \cup {t}
      /\ ref' = [b \in Buses |-> ref[b] + (IF b = t THEN 1 ELSE 0)
                                        + (IF b = u THEN 1 ELSE 0)]
      /\ filterSet' = filterSet \cup {t}
      /\ hooked' = IF t \in filterSet THEN hooked ELSE hooked \cup {t}
      /\ reused' = reused \cup {t}
      /\ UNCHANGED <<rules, pending, released, helper>>
      /\ wanted' = wanted \cup {[id |-> lastId', cb |-> cb, bus |-> t, key |-> k]}
  BY <1>1 DEF AddMatch, AddToExisting
<1>4. \A l \in Keys : matches'[l] = IF l = k THEN m ELSE matches[l]
  BY <1>1, <1>3
<1>5. c \notin matches[k].callbacks
  <2>1. \A d \in matches[k].callbacks : d.id <= lastId
    BY <1>1 DEF Inv, Listening
  <2>2. QED
    BY <1>1, <2>1
<1>6. k \in MatchesOf(u)
  BY <1>1 DEF MatchesOf
<1>7. ASSUME NEW b \in Buses
      PROVE  /\ IsFiniteSet(MatchesOf(b)') /\ IsFiniteSet(CallbacksOf(b)')
             /\ Held(b)' = IF b = u THEN Held(b) + 1 ELSE Held(b)
  <2>1. CASE b = u
    BY <1>1, <1>2, <1>3, <1>5, <2>1, CallbackAdded
  <2>2. CASE b # u
    <3>1. k \notin MatchesOf(b) /\ m.bus # b /\ m \in Match
      BY <1>2, <2>2 DEF MatchesOf
    <3>2. matches' = [matches EXCEPT ![k] = m]
      BY <1>3
    <3> HIDE DEF m
    <3>3. /\ MatchesOf(b)' = MatchesOf(b) /\ CallbacksOf(b)' = CallbacksOf(b)
          /\ Held(b)' = Held(b)
      BY <3>1, <3>2, OtherBuses
    <3>4. QED
      BY <2>2, <3>3 DEF Inv, Finite
  <2>3. QED
    BY <2>1, <2>2
<1> HIDE DEF m
<1>8. \A b \in Buses : /\ Held(b) \in Nat /\ ref[b] \in Nat /\ pending[b] \in Nat
                       /\ (b \in connected <=> ref[b] > 0)
  BY HeldType, BusTypes
<1>9. ref[u] > 0 /\ u \in filterSet /\ u \in connected
  <2>1. Cardinality(MatchesOf(u)) # 0
    BY <1>6, FS_EmptySet DEF Inv, Finite
  <2>2. Held(u) > 0
    BY <2>1, HeldType DEF Held
  <2>3. QED
    <3>1. ref[u] >= Held(u) + pending[u]
      BY DEF Inv, Counted
    <3>2. ref[u] > 0 /\ u \in connected
      <4>1. Held(u) \in Nat /\ ref[u] \in Nat /\ pending[u] \in Nat
        BY <1>8
      <4>2. ref[u] > 0
        BY <2>2, <3>1, <4>1
      <4>3. QED
        BY <1>8, <4>2
    <3>3. u \in filterSet
      BY <1>1 DEF Inv, Routed
    <3>4. QED
      BY <3>2, <3>3
<1>10. TypeOK'
  <2>1. matches' \in [Keys -> Match \cup {None}]
    BY <1>1, <1>2, <1>4, <1>3
  <2>2. wanted' \subseteq Listener
    BY <1>1, <1>3 DEF Listener, Inv, TypeOK
  <2>3. ref' \in [Buses -> Nat] /\ connected' = {b \in Buses : ref'[b] > 0}
    <3>1. \A b \in Buses : /\ ref'[b] \in Nat
                           /\ ref'[b] > 0 <=> b \in connected \/ b = t
      BY <1>3, <1>8, <1>9
    <3>2. connected' = {b \in Buses : ref'[b] > 0}
      BY <1>3, <3>1 DEF Inv, TypeOK
    <3>3. QED
      BY <1>3, <3>1, <3>2
  <2>4. QED
    BY <1>1, <1>3, <2>1, <2>2, <2>3 DEF Inv, TypeOK
<1>11. Listening'
  <2>1. \A w \in wanted : w.key \in Keys
    BY DEF Inv, TypeOK, Listener
  <2>2. \A w \in wanted : /\ matches'[w.key] # None
                          /\ [id |-> w.id, cb |-> w.cb] \in matches'[w.key].callbacks
    BY <1>2, <1>4, <2>1 DEF Inv, Listening
  <2>3. [id |-> lastId', cb |-> cb] \in matches'[k].callbacks /\ matches'[k] # None
    <3>1. matches'[k] = m
      BY <1>4
    <3>2. [id |-> lastId', cb |-> cb] = c
      BY <1>1
    <3> HIDE DEF c
    <3>3. QED
      BY <1>2, <3>1, <3>2
  <2>4. \A w \in wanted' :
          w \in wanted \/ (w.id = lastId' /\ w.cb = cb /\ w.key = k)
    BY <1>3
  <2>5. \A l \in Keys : matches'[l] # None =>
          \A d \in matches'[l].callbacks : d.id <= lastId'
    <3>1. \A l \in Keys : matches[l] # None =>
            \A d \in matches[l].callbacks : d.id \in 1..MaxId /\ d.id <= lastId
      BY <1>1 DEF Inv, Listening, Match
    <3>2. c.id <= lastId'
      BY <1>1
    <3> HIDE DEF c
    <3>3. QED
      BY <1>1, <1>2, <1>4, <3>1, <3>2
  <2>6. QED
    BY <2>2, <2>3, <2>4, <2>5 DEF Listening
<1>12. Routed'
  BY <1>1, <1>2, <1>3, <1>4 DEF Inv, Routed
<1>13. Finite' /\ Counted'
  BY <1>3, <1>7, <1>8 DEF Inv, Finite, Counted
<1>14. QED
  BY <1>10, <1>11, <1>12, <1>13 DEF Inv

\* A listener is removed, with the last one its match and its rule.
LEMMA RemovesInv ==
  ASSUME Inv, NEW k \in Keys, matches[k] # None,
         NEW c \in matches[k].callbacks, Removes(k, c)
  PROVE  Inv'
<1> DEFINE m == [matches[k] EXCEPT !.callbacks = @ \ {c}]
           n == IF matches[k].callbacks = {c} THEN 2 ELSE 1
<1>1. matches \in [Keys -> Match \cup {None}] /\ matches[k] \in Match
  BY DEF Inv, TypeOK
<1> PICK t \in Buses : t = matches[k].bus
  BY <1>1 DEF Match
<1>2. m \in Match /\ m # None /\ m.bus = t
      /\ m.callbacks = matches[k].callbacks \ {c}
  BY <1>1, NoneAssumption DEF Match
<1>3. /\ matches' = [matches EXCEPT ![k] =
                       IF matches[k].callbacks = {c} THEN None ELSE m]
      /\ rules' = IF matches[k].callbacks = {c} THEN rules \ {<<t, k>>} ELSE rules
      /\ wanted' = {w \in wanted : w.id # c.id}
      /\ UNCHANGED <<lastId, pending, reused, helper>>
      /\ Unrefs(t, n)
  BY DEF Removes
<1>4. \A l \in Keys : matches'[l] =
        IF l = k THEN (IF matches[k].callbacks = {c} THEN None ELSE m)
                 ELSE matches[l]
  BY <1>1, <1>3
<1>5. ASSUME NEW b \in Buses
      PROVE  /\ IsFiniteSet(MatchesOf(b)') /\ IsFiniteSet(CallbacksOf(b)')
             /\ Held(b)' = (IF b = t THEN Held(b) - n ELSE Held(b))
             /\ b = t => Held(b) >= n
  <2>1. CASE b = t
    BY <2>1, CallbackRemoved
  <2>2. CASE b # t
    <3> DEFINE p == IF matches[k].callbacks = {c} THEN None ELSE m
    <3>1. /\ k \notin MatchesOf(b) /\ p \in Match \cup {None}
          /\ p = None \/ p.bus # b
      BY <1>2, <2>2 DEF MatchesOf
    <3>2. matches' = [matches EXCEPT ![k] = p]
      BY <1>3
    <3> HIDE DEF p
    <3>3. /\ MatchesOf(b)' = MatchesOf(b) /\ CallbacksOf(b)' = CallbacksOf(b)
          /\ Held(b)' = Held(b)
      BY <3>1, <3>2, OtherBuses
    <3>4. QED
      BY <2>2, <3>3 DEF Inv, Finite
  <2>3. QED
    BY <2>1, <2>2
<1> HIDE DEF m
<1>6. \A b \in Buses : Held(b) \in Nat /\ ref[b] \in Nat /\ pending[b] \in Nat
  BY HeldType, BusTypes
<1>7. n \in Nat \ {0} /\ ref[t] >= n
  BY <1>5, <1>6 DEF Inv, Counted
<1>8. /\ ref' \in [Buses -> Nat] /\ connected' = {b \in Buses : ref'[b] > 0}
      /\ \A b \in Buses : ref'[b] = IF b = t THEN ref[b] - n ELSE ref[b]
      /\ filterSet' = filterSet /\ hooked' \subseteq filterSet'
      /\ filterSet' \ released' \subseteq hooked'
      /\ released' \subseteq Buses
  BY <1>3, <1>7, UnrefsKeeps
<1> HIDE DEF n
<1>9. TypeOK'
  <2>1. matches' \in [Keys -> Match \cup {None}]
    BY <1>1, <1>2, <1>3
  <2>2. wanted' \subseteq Listener /\ rules' \subseteq Buses \X Keys
    BY <1>3 DEF Inv, TypeOK
  <2>3. QED
    BY <1>3, <1>8, <2>1, <2>2 DEF Inv, TypeOK
<1>10. Listening'
  <2>1. \A w \in wanted : w.key \in Keys
    BY DEF Inv, TypeOK, Listener
  <2>2. ASSUME NEW w \in wanted'
        PROVE  /\ matches'[w.key] # None
               /\ [id |-> w.id, cb |-> w.cb] \in matches'[w.key].callbacks
    <3>1. /\ w \in wanted /\ w.id # c.id /\ [id |-> w.id, cb |-> w.cb] # c
          /\ matches[w.key] # None
          /\ [id |-> w.id, cb |-> w.cb] \in matches[w.key].callbacks
      BY <1>3 DEF Inv, Listening
    <3>2. QED
      BY <1>2, <1>4, <2>1, <3>1
  <2>3. \A l \in Keys : matches'[l] # None =>
          \A d \in matches'[l].callbacks : d.id <= lastId'
    BY <1>2, <1>3, <1>4 DEF Inv, Listening
  <2>4. QED
    BY <2>2, <2>3 DEF Listening
<1>11. Routed'
  BY <1>2, <1>3, <1>4, <1>8 DEF Inv, Routed
<1>12. Finite' /\ Counted'
  BY <1>3, <1>5, <1>6, <1>7, <1>8 DEF Inv, Finite, Counted
<1>13. QED
  BY <1>9, <1>10, <1>11, <1>12 DEF Inv

\* A call takes a reference and its reply returns it; one without a reply does
\* so at once; the helper is freed.
LEMMA CallsInv ==
  ASSUME Inv,
         \/ Free
         \/ \E t \in Buses : Call(t) \/ CallWithoutReply(t) \/ Reply(t)
  PROVE  Inv'
<1>1. /\ UNCHANGED <<matches, lastId, rules, wanted, reused>>
      /\ filterSet' = filterSet
  BY DEF Free, Call, CallWithoutReply, Reply, Gets, Unrefs, busVars
<1>2. Listening' /\ Finite'
  BY <1>1, SameMatches DEF Inv, Listening, Finite
<1>3. \A b \in Buses : /\ Held(b)' = Held(b) /\ Held(b) \in Nat
                       /\ ref[b] \in Nat /\ pending[b] \in 0..MaxCalls
  BY <1>1, SameMatches, HeldType, BusTypes DEF Inv, TypeOK
<1>4. CASE Free
  <2>1. TypeOK' /\ Routed' /\ Counted'
    BY <1>3, <1>4 DEF Free, busVars, Inv, TypeOK, Routed, Counted
  <2>2. QED
    BY <1>2, <2>1 DEF Inv
<1>5. ASSUME NEW t \in Buses, Call(t)
      PROVE  Inv'
  <2>1. /\ Gets(t, 1, FALSE) /\ pending' = [pending EXCEPT ![t] = @ + 1]
        /\ pending[t] < MaxCalls /\ UNCHANGED <<helper, released>>
    BY <1>5 DEF Call
  <2>2. /\ ref' \in [Buses -> Nat] /\ connected' = {b \in Buses : ref'[b] > 0}
        /\ \A b \in Buses : ref'[b] = IF b = t THEN ref[b] + 1 ELSE ref[b]
        /\ hooked' \subseteq filterSet' /\ filterSet' \ released \subseteq hooked'
    <3>1. 1 \in Nat \ {0} /\ FALSE \in BOOLEAN
      OBVIOUS
    <3>2. QED
      BY <2>1, <3>1, GetsKeeps
  <2>3. pending' \in [Buses -> 0..MaxCalls]
    BY <1>3, <2>1, BoundAssumption DEF Inv, TypeOK
  <2>4. \A b \in Buses : pending'[b] = IF b = t THEN pending[b] + 1 ELSE pending[b]
    BY <2>1 DEF Inv, TypeOK
  <2>5. TypeOK' /\ Routed'
    BY <1>1, <2>1, <2>2, <2>3 DEF Inv, TypeOK, Routed
  <2>6. Counted'
    BY <1>1, <1>3, <2>2, <2>4 DEF Inv, Counted
  <2>7. QED
    BY <1>2, <2>5, <2>6 DEF Inv
<1>6. ASSUME NEW t \in Buses, CallWithoutReply(t)
      PROVE  Inv'
  <2>1. /\ released \subseteq released' /\ released' \subseteq Buses
        /\ hooked' \subseteq filterSet' /\ filterSet' \ released' \subseteq hooked'
        /\ UNCHANGED <<connected, ref, pending, helper>>
    BY <1>6 DEF CallWithoutReply, Inv, TypeOK, Routed
  <2>2. TypeOK' /\ Routed' /\ Counted'
    BY <1>1, <1>3, <2>1 DEF Inv, TypeOK, Routed, Counted
  <2>3. QED
    BY <1>2, <2>2 DEF Inv
<1>7. ASSUME NEW t \in Buses, Reply(t)
      PROVE  Inv'
  <2>1. /\ Unrefs(t, 1) /\ pending' = [pending EXCEPT ![t] = @ - 1]
        /\ pending[t] > 0 /\ UNCHANGED helper
    BY <1>7 DEF Reply
  <2>2. 1 \in Nat \ {0} /\ ref[t] >= 1
    BY <1>3, <2>1 DEF Inv, Counted
  <2>3. /\ ref' \in [Buses -> Nat] /\ connected' = {b \in Buses : ref'[b] > 0}
        /\ \A b \in Buses : ref'[b] = IF b = t THEN ref[b] - 1 ELSE ref[b]
        /\ hooked' \subseteq filterSet' /\ filterSet' \ released' \subseteq hooked'
        /\ released' \subseteq Buses
    BY <2>1, <2>2, UnrefsKeeps
  <2>4. pending' \in [Buses -> 0..MaxCalls]
    BY <1>3, <2>1, BoundAssumption DEF Inv, TypeOK
  <2>5. \A b \in Buses : pending'[b] = IF b = t THEN pending[b] - 1 ELSE pending[b]
    BY <2>1 DEF Inv, TypeOK
  <2>6. TypeOK' /\ Routed'
    BY <1>1, <2>1, <2>3, <2>4 DEF Inv, TypeOK, Routed
  <2>7. Counted'
    BY <1>1, <1>3, <2>1, <2>3, <2>5 DEF Inv, Counted
  <2>8. QED
    BY <1>2, <2>6, <2>7 DEF Inv
<1>8. QED
  BY <1>4, <1>5, <1>6, <1>7

LEMMA NextInv == Inv /\ [Next]_vars => Inv'
<1> SUFFICES ASSUME Inv, [Next]_vars
             PROVE  Inv'
  OBVIOUS
<1>1. CASE UNCHANGED vars
  <2>1. Finite' /\ Counted'
    BY <1>1, SameMatches DEF vars, busVars, Inv, Finite, Counted
  <2>2. TypeOK' /\ Listening' /\ Routed'
    BY <1>1 DEF vars, busVars, Inv, TypeOK, Listening, Routed
  <2>3. QED
    BY <2>1, <2>2 DEF Inv
<1>2. ASSUME NEW cb \in Callbacks, NEW t \in Buses, NEW k \in Keys,
             AddMatch(cb, t, k)
      PROVE  Inv'
  BY <1>2, AddNewInv, AddToExistingInv DEF AddMatch
<1>3. CASE \/ \E id \in 1..MaxId : RemoveById(id)
           \/ \E cb \in Callbacks : RemoveByCb(cb)
  <2>1. PICK k \in Keys : /\ matches[k] # None
                          /\ \E c \in matches[k].callbacks : Removes(k, c)
    BY <1>3 DEF RemoveById, RemoveByCb
  <2>2. QED
    BY <2>1, RemovesInv
<1>4. QED
  BY <1>1, <1>2, <1>3, CallsInv DEF Next

-----------------------------------------------------------------------------
(* The theorems.                                                           *)

\* bus[type].ref counts the matches, the callbacks and the calls that wait, and
\* more only on a bus whose caller joined a match; a connection is kept exactly
\* while it is referenced.
THEOREM ReferencesCount == Spec => []RefsAreCounted
<1>1. Inv => RefsAreCounted
  BY HeldType, BusTypes DEF Inv, Counted, RefsAreCounted
<1>2. QED
  BY <1>1, InitInv, NextInv, PTL DEF Spec

\* Whatever is added, removed and called, filter_cb hears the signals of every
\* listener whose bus was never given up and whose match is of that bus.
THEOREM ListenersHear == Spec => []FirstListenersHear
<1>1. Inv => FirstListenersHear
  <2> SUFFICES ASSUME Inv, NEW w \in wanted, w.bus \notin released,
                      matches[w.key] # None => matches[w.key].bus = w.bus
               PROVE  Hears(w)
    BY DEF FirstListenersHear
  <2>1. w.key \in Keys /\ matches[w.key] # None /\ matches[w.key].bus = w.bus
    BY DEF Inv, TypeOK, Listener, Listening
  <2>2. QED
    BY <2>1 DEF Inv, Listening, Routed, Hears
<1>2. QED
  BY <1>1, InitInv, NextInv, PTL DEF Spec
=============================================================================
