------------------------------ MODULE CoreDbus ------------------------------
(***************************************************************************)
(* The D-Bus helper of the core (src/src/ngf/core-dbus.c): one connection  *)
(* per bus, shared and counted, the matches that plugins listen with, and  *)
(* the asynchronous calls they make.                                       *)
(*                                                                         *)
(* External: the bus, which routes the signals it was given a rule for,    *)
(* and libdbus, which hands them to the filter if it was added to the      *)
(* connection.  A definition introduced by "Slip" is no part of the model. *)
(***************************************************************************)
EXTENDS Integers, FiniteSets

CONSTANTS
  Buses,      \* system and session
  Keys,       \* match strings: interface, path and member
  Callbacks,  \* filter functions of the plugins
  None,       \* no match
  MaxId,      \* bound: calls of n_dbus_add_match
  MaxCalls    \* bound: calls waiting for their reply on one bus

ASSUME BoundAssumption == MaxId \in Nat /\ MaxCalls \in Nat

VARIABLES
  connected,  \* buses whose connection is kept
  ref,        \* bus[type].ref
  filterSet,  \* buses whose filter_set is TRUE
  matches,    \* the hash table: a match for a key, or None
  lastId,     \* id_counter
  pending,    \* number of calls without a reply
  hooked,     \* external: connections that filter_cb was added to
  rules,      \* external: the rules of each bus, <<bus, key>>
  wanted,     \* what the plugins listen to: every add_match not yet removed
  reused,     \* buses for which add_match found the match of its key
  released,   \* buses whose connection was given up at some time
  helper      \* "up", "freed", or "aborted" by an assertion

busVars == <<connected, ref, filterSet, hooked>>
vars == <<busVars, matches, lastId, pending, rules, wanted, reused, released,
          helper>>

\* n_dbus_match, with the id and the function of each callback.
Match == [bus : Buses, callbacks : SUBSET [id : 1..MaxId, cb : Callbacks]]

ASSUME NoneAssumption == None \notin Match

Listener == [id : 1..MaxId, cb : Callbacks, bus : Buses, key : Keys]

-----------------------------------------------------------------------------
(* The connection of bus t: each operator gives the bus variables after    *)
(* n references were taken (with or without the filter) or given back.     *)

\* Slip: the filter is not looked at when the connection is kept.
GetsOnce(t, n, filter) ==
  /\ connected' = connected \cup {t}
  /\ ref' = [ref EXCEPT ![t] = @ + n]
  /\ IF filter /\ t \notin connected
     THEN filterSet' = filterSet \cup {t} /\ hooked' = hooked \cup {t}
     ELSE UNCHANGED <<filterSet, hooked>>

\* connection_get and connection_ref.
Gets(t, n, filter) ==
  /\ connected' = connected \cup {t}
  /\ ref' = [ref EXCEPT ![t] = @ + n]
  /\ IF filter /\ t \notin filterSet
     THEN filterSet' = filterSet \cup {t} /\ hooked' = hooked \cup {t}
     ELSE UNCHANGED <<filterSet, hooked>>

\* Slip: the connection is forgotten and the reference kept.
UnrefsNot(t, n) ==
  /\ connected' = IF ref[t] = n THEN connected \ {t} ELSE connected
  /\ released' = IF ref[t] = n THEN released \cup {t} ELSE released
  /\ UNCHANGED <<ref, hooked, filterSet>>

\* connection_unref: the last one removes the filter and forgets the
\* connection; filter_set keeps its value.
Unrefs(t, n) ==
  /\ ref' = [ref EXCEPT ![t] = @ - n]
  /\ IF ref[t] = n
     THEN /\ connected' = connected \ {t} /\ released' = released \cup {t}
          /\ hooked' = IF t \in filterSet THEN hooked \ {t} ELSE hooked
     ELSE UNCHANGED <<connected, hooked, released>>
  /\ UNCHANGED filterSet

-----------------------------------------------------------------------------
(* Calls of the plugins.                                                   *)

\* A match is made: one reference for it, one for its callback.
AddNew(cb, t, k, id) ==
  /\ matches[k] = None
  /\ Gets(t, 2, TRUE)
  /\ matches' = [matches EXCEPT
       ![k] = [bus |-> t, callbacks |-> {[id |-> id, cb |-> cb]}]]
  /\ rules' = rules \cup {<<t, k>>}
  /\ UNCHANGED reused

\* The match is there, of whatever bus: it gets the callback and a reference
\* to its own bus, and the reference to the bus of the caller is not returned.
AddToExisting(cb, t, k, id) ==
  /\ matches[k] # None
  /\ LET u == matches[k].bus
     IN  /\ connected' = connected \cup {t}
         /\ ref' = [b \in Buses |-> ref[b] + (IF b = t THEN 1 ELSE 0)
                                           + (IF b = u THEN 1 ELSE 0)]
         /\ filterSet' = filterSet \cup {t}
         /\ hooked' = IF t \in filterSet THEN hooked ELSE hooked \cup {t}
  /\ matches' = [matches EXCEPT ![k].callbacks = @ \cup {[id |-> id, cb |-> cb]}]
  /\ reused' = reused \cup {t}
  /\ UNCHANGED rules

\* n_dbus_add_match; without a bus it returns 0 and does nothing.
AddMatch(cb, t, k) ==
  LET id == lastId + 1
  IN  /\ lastId < MaxId
      /\ lastId' = id
      /\ AddNew(cb, t, k, id) \/ AddToExisting(cb, t, k, id)
      /\ wanted' = wanted \cup {[id |-> id, cb |-> cb, bus |-> t, key |-> k]}
      /\ UNCHANGED <<pending, released, helper>>

\* The callback c of the match of k is removed, the last one with its match.
Removes(k, c) ==
  LET match == matches[k]
      last  == match.callbacks = {c}
  IN  /\ Unrefs(match.bus, IF last THEN 2 ELSE 1)
      /\ matches' = [matches EXCEPT ![k] =
           IF last THEN None ELSE [match EXCEPT !.callbacks = @ \ {c}]]
      /\ rules' = IF last THEN rules \ {<<match.bus, k>>} ELSE rules
      /\ wanted' = {w \in wanted : w.id # c.id}
      /\ UNCHANGED <<lastId, pending, reused, helper>>

RemoveById(id) ==
  \E k \in Keys : matches[k] # None
    /\ \E c \in matches[k].callbacks : c.id = id /\ Removes(k, c)

\* The first callback of a match, whichever the hash table gives first.
RemoveByCb(cb) ==
  \E k \in Keys : matches[k] # None
    /\ \E c \in matches[k].callbacks :
         /\ c.cb = cb
         /\ \A d \in matches[k].callbacks : d.cb = cb => c.id <= d.id
         /\ Removes(k, c)

\* n_dbus_async_call_full with a callback: the reply is waited for with a
\* reference; without one, or if it cannot be sent, the reference is returned.
Call(t) ==
  /\ pending[t] < MaxCalls
  /\ Gets(t, 1, FALSE)
  /\ pending' = [pending EXCEPT ![t] = @ + 1]
  /\ UNCHANGED <<matches, lastId, rules, wanted, reused, released, helper>>

CallWithoutReply(t) ==
  /\ IF ref[t] = 0
     THEN /\ released' = released \cup {t}
          /\ hooked' = IF t \in filterSet THEN hooked \ {t} ELSE hooked
     ELSE UNCHANGED <<released, hooked>>
  /\ UNCHANGED <<connected, ref, filterSet, matches, lastId, pending, rules,
                 wanted, reused, helper>>

\* Slip: the reply does not return the reference.
ReplyKeeps(t) ==
  /\ pending[t] > 0
  /\ pending' = [pending EXCEPT ![t] = @ - 1]
  /\ UNCHANGED <<busVars, matches, lastId, rules, wanted, reused, released,
                 helper>>

\* async_call_cb: the reply, or the error of a call without one.
Reply(t) ==
  /\ pending[t] > 0
  /\ pending' = [pending EXCEPT ![t] = @ - 1]
  /\ Unrefs(t, 1)
  /\ UNCHANGED <<matches, lastId, rules, wanted, reused, helper>>

\* n_dbus_helper_free removes what matches are left and asserts that nobody
\* holds a connection.
HeldByMatches(t) ==
  LET ks == {k \in Keys : matches[k] # None /\ matches[k].bus = t}
  IN  Cardinality(ks)
      + Cardinality(UNION {{<<k, c>> : c \in matches[k].callbacks} : k \in ks})

Free ==
  /\ helper' = IF \A t \in Buses : ref[t] = HeldByMatches(t) THEN "freed"
                                                             ELSE "aborted"
  /\ UNCHANGED <<busVars, matches, lastId, pending, rules, wanted, reused,
                 released>>

-----------------------------------------------------------------------------
Init ==
  /\ connected = {} /\ ref = [t \in Buses |-> 0]
  /\ filterSet = {} /\ hooked = {} /\ rules = {}
  /\ matches = [k \in Keys |-> None] /\ lastId = 0
  /\ pending = [t \in Buses |-> 0]
  /\ wanted = {} /\ reused = {} /\ released = {}
  /\ helper = "up"

Next ==
  /\ helper = "up"
  /\ \/ Free
     \/ \E t \in Buses : Call(t) \/ CallWithoutReply(t) \/ Reply(t)
     \/ \E cb \in Callbacks, t \in Buses, k \in Keys : AddMatch(cb, t, k)
     \/ \E id \in 1..MaxId : RemoveById(id)
     \/ \E cb \in Callbacks : RemoveByCb(cb)

Spec == Init /\ [][Next]_vars

-----------------------------------------------------------------------------
\* Every variable has its type; a connection is kept while it is referenced.
TypeOK ==
  /\ connected = {t \in Buses : ref[t] > 0}
  /\ ref \in [Buses -> Nat] /\ filterSet \subseteq Buses
  /\ hooked \subseteq filterSet
  /\ matches \in [Keys -> Match \cup {None}]
  /\ lastId \in 0..MaxId /\ pending \in [Buses -> 0..MaxCalls]
  /\ rules \subseteq Buses \X Keys
  /\ wanted \subseteq Listener
  /\ reused \subseteq Buses /\ released \subseteq Buses
  /\ helper \in {"up", "freed", "aborted"}

\* Nobody's connection is given up under it: there is a reference for every
\* match, callback and call that waits, and no other one on a bus for which no
\* listener joined the match of another; it is kept while it is referenced.
RefsAreCounted ==
  TypeOK /\ \A t \in Buses :
    LET users == HeldByMatches(t) + pending[t]
    IN  ref[t] >= users /\ (t \notin reused => ref[t] = users)

\* A listener hears its signal: the bus routes it, the filter is in place and
\* the match has its callback; unless the connection was given up before, or
\* the key belongs to a listener of the other bus.
Hears(w) ==
  /\ <<w.bus, w.key>> \in rules /\ w.bus \in hooked
  /\ matches[w.key] # None
  /\ [id |-> w.id, cb |-> w.cb] \in matches[w.key].callbacks
FirstListenersHear ==
  \A w \in wanted :
    /\ w.bus \notin released
    /\ matches[w.key] # None => matches[w.key].bus = w.bus
    => Hears(w)
=============================================================================
