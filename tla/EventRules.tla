----------------------------- MODULE EventRules -----------------------------
(***************************************************************************)
(* The event list of the core (src/src/ngf/eventlist.c, event.c,           *)
(* eventrule.c), the context it listens to (context.c) and its reload      *)
(* (core.c).  An event file is a sequence of groups; a group has the name  *)
(* of an event, a priority, rules and properties.  Equal rules are one     *)
(* object, whose cached answer a context subscription keeps up to date.    *)
(* A definition introduced by "Slip" is the one below it with a bug.       *)
(***************************************************************************)
EXTENDS Lists, SequencesExt

CONSTANTS
  Names,      \* names of events
  Keys,       \* context keys the rules look at
  Values,     \* values a context key takes: records of a type and a value
  NoValue,    \* a key that was never set
  Star,       \* the string "*"
  Boots,      \* configurations the daemon may start with: [sys, user]
  Files,      \* configurations found on disk by a reload
  Asked,      \* requests that are evaluated: [name, props]
  MaxReloads  \* bound: reloads of one run

ASSUME BootAssumption == Boots # {} /\ Names # {}
ASSUME ReloadAssumption == MaxReloads \in Nat

\* What the parser makes of files: groups of events, with rules on the request
\* or on keys of the context, a number for the priority, and properties by key.
ASSUME FilesAssumption ==
  \A c \in Boots \cup Files : \A groups \in {c.sys, c.user} :
    /\ groups \in Seq(ToSet(groups))
    /\ \A g \in ToSet(groups) :
         /\ g.name \in Names /\ g.rules \in Seq(ToSet(g.rules)) /\ g.prio \in Int
         /\ g.props = [k \in DOMAIN g.props |-> g.props[k]]
         /\ \A rule \in ToSet(g.rules) : rule.target = "context" => rule.key \in Keys

ASSUME AskedAssumption == \A r \in Asked : r.name \in Names

VARIABLES
  values,     \* context->values
  subs,       \* key -> subscribers with cache_rule_context_cb, in order
  list,       \* core->eventlist
  config,     \* the configuration the list was made of
  made        \* event lists made since the start

vars == <<values, subs, list, config, made>>

-----------------------------------------------------------------------------
(* Rules.                                                                  *)

\* The types of values and the operators; only numbers are ordered.
Compare(op, v, w) ==
  CASE op = "equals"    -> v = w
    [] op = "nequals"   -> v # w
    [] op = "less"      -> v.type = "int" /\ v.val < w.val
    [] op = "greater"   -> v.type = "int" /\ v.val > w.val
    [] op = "atMost"    -> v.type = "int" /\ v.val <= w.val
    [] op = "atLeast"   -> v.type = "int" /\ v.val >= w.val
    [] OTHER            -> TRUE

\* n_event_rule_match.  The parser turns the value "*" into the operator
\* always; a context value "*" satisfies every rule.
Matches(rule, v) ==
  /\ v # NoValue
  /\ \/ rule.op = "always"
     \/ v = Star
     \/ v.type = rule.value.type /\ Compare(rule.op, v, rule.value)

\* n_event_rule_equal: the target is not compared.
RuleEqual(a, b) == a.key = b.key /\ a.op = b.op /\ a.value = b.value

\* merge_rules: every new rule is replaced by an equal one of the rule list,
\* or joins it.  The result is the rule list and the places of the new rules.
MergeRule(acc, rule) ==
  LET p == SelectInSeq(acc.rules, LAMBDA r : RuleEqual(rule, r))
  IN  IF p # 0 THEN [acc EXCEPT !.ids = Append(@, p)]
      ELSE [rules |-> Append(acc.rules, rule),
            cache |-> Append(acc.cache, "inactive"),
            ids   |-> Append(acc.ids, Len(acc.rules) + 1)]

MergeRules(l, rules) ==
  Through([rules |-> l.rules, cache |-> l.cache, ids |-> <<>>], rules, MergeRule)

OnContext(l, i) == l.rules[i].target = "context"

\* g_slist_sort with sort_rules_cb: the context rules first.
ContextFirst(l, ids) ==
  LET onContext == {i \in DOMAIN l.rules : OnContext(l, i)}
  IN  Only(ids, onContext) \o Only(ids, DOMAIN l.rules \ onContext)

-----------------------------------------------------------------------------
(* Events.                                                                 *)

CountOf(l, e, target) ==
  Cardinality({q \in DOMAIN e.rules : l.rules[e.rules[q]].target = target})

\* Slip: more context rules go first.
BeforeByContext(l, a, b) ==
  LET n(e) == CountOf(l, e, "request")
      c(e) == CountOf(l, e, "context")
  IN  \/ a.prio > b.prio
      \/ a.prio = b.prio /\ c(a) > c(b)
      \/ a.prio = b.prio /\ c(a) = c(b) /\ n(a) > n(b)

\* sort_event_cb.
Before(l, a, b) ==
  LET n(e) == CountOf(l, e, "request")
      c(e) == CountOf(l, e, "context")
  IN  \/ a.prio > b.prio
      \/ a.prio = b.prio /\ n(a) > n(b)
      \/ a.prio = b.prio /\ n(a) = n(b) /\ c(a) > c(b)

\* n_event_rules_equal: as many rules, and each rule of a among those of b.
RulesEqual(a, b) ==
  Len(a) = Len(b) /\ ToSet(a) \subseteq ToSet(b)

\* The properties of a later group replace those of an earlier one, after the
\* keys it unsets were dropped.
Layered(old, g) ==
  [k \in ((DOMAIN old) \ g.unset) \cup DOMAIN g.props |->
     IF k \in DOMAIN g.props THEN g.props[k] ELSE old[k]]

\* Stable sort of a sorted list with one new element at its end.
Inserted(l, events, e) ==
  LET after == {x \in ToSet(events) : Before(l, e, x)}
  IN  Append(Only(events, ToSet(events) \ after), e) \o Only(events, after)

\* Slip: a rule that events share is subscribed for each of them.
SubscribeAgain(l, i) ==
  IF ~OnContext(l, i) THEN l
  ELSE [l EXCEPT !.cache[i] = "unset",
          !.subs[l.rules[i].key] = Append(@, [list |-> l.id, rule |-> i])]

\* subscribe_event_rules_cb.
SubscribeRule(l, i) ==
  IF ~OnContext(l, i) \/ l.cache[i] # "inactive" THEN l
  ELSE [l EXCEPT !.cache[i] = "unset",
          !.subs[l.rules[i].key] = Append(@, [list |-> l.id, rule |-> i])]

Subscribe(l, ids) == Through(l, ids, SubscribeRule)

\* event_list_add_event and the subscription that follows it.
AddGroup(l, g) ==
  LET merged == MergeRules(l, g.rules)
      base   == [l EXCEPT !.rules = merged.rules, !.cache = merged.cache]
      ids    == ContextFirst(base, merged.ids)
      events == l.events[g.name]
      same   == SelectInSeq(events, LAMBDA e : RulesEqual(e.rules, ids))
      fresh  == [rules |-> ids, prio |-> g.prio, props |-> g.props]
  IN  IF same = 0 THEN
        Subscribe([base EXCEPT !.events[g.name] = Inserted(base, events, fresh)], ids)
      ELSE IF g.unsetEvent THEN
        [base EXCEPT !.events[g.name] = RemoveAt(events, same)]
      ELSE
        LET layered == [events EXCEPT ![same].props = Layered(@, g)]
        IN  Subscribe([base EXCEPT !.events[g.name] = layered], events[same].rules)

EmptyList(id, s) ==
  [id |-> id, rules |-> <<>>, cache |-> <<>>, subs |-> s,
   events |-> [n \in Names |-> <<>>]]

\* n_core_parse_events: the groups in the order of the files.
ParseEvents(l, groups) == Through(l, groups, AddGroup)

NoEvents(l) == \A n \in Names : l.events[n] = <<>>

\* The rules that listen to key k.
Listeners(l, k) ==
  {i \in DOMAIN l.rules :
     OnContext(l, i) /\ l.rules[i].key = k /\ l.cache[i] # "inactive"}

\* Slip: the subscriber that came last is dropped.
UnsubscribedNewest(s, l) ==
  [k \in Keys |-> SubSeq(s[k], 1, Len(s[k]) - Cardinality(Listeners(l, k)))]

\* unsubscribe_event_rules_cb for every rule of the rule list; for each, the
\* context drops the first subscriber of the key that has the same callback.
Unsubscribed(s, l) ==
  [k \in Keys |-> SubSeq(s[k], Cardinality(Listeners(l, k)) + 1, Len(s[k]))]

Body(l) == [id |-> l.id, rules |-> l.rules, cache |-> l.cache, events |-> l.events]

-----------------------------------------------------------------------------
(* Evaluation of a request.                                                *)

Truth(b) == IF b THEN "true" ELSE "false"

\* Slip: an answer that is not known yet counts as no.
RuleHoldsKnown(i, props) ==
  LET rule == list.rules[i]
  IN  IF OnContext(list, i) THEN list.cache[i] = "true"
      ELSE Matches(rule, IF rule.key \in DOMAIN props THEN props[rule.key] ELSE NoValue)

\* match_event_rule_cb.
RuleHolds(i, props) ==
  LET rule == list.rules[i]
  IN  IF OnContext(list, i)
      THEN IF list.cache[i] \in {"true", "false"}
           THEN list.cache[i] = "true" ELSE Matches(rule, values[rule.key])
      ELSE Matches(rule, IF rule.key \in DOMAIN props THEN props[rule.key] ELSE NoValue)

EventHolds(e, props) == \A q \in DOMAIN e.rules : RuleHolds(e.rules[q], props)

\* n_event_list_match_request: the place of the first event that holds, or 0.
Found(r) ==
  SelectInSeq(list.events[r.name], LAMBDA e : EventHolds(e, r.props))

\* The rules that were looked at: of every event up to the one found, the
\* rules up to the first that fails.
LookedAt(r) ==
  LET events == list.events[r.name]
      last   == IF Found(r) = 0 THEN Len(events) ELSE Found(r)
  IN  UNION {LET ids == events[p].rules
             IN  {ids[q] : q \in {q \in DOMAIN ids :
                    \A b \in 1..(q - 1) : RuleHolds(ids[b], r.props)}} : p \in 1..last}

-----------------------------------------------------------------------------
(* Actions.                                                                *)

\* The list is made before any plugin could set a value.
Init ==
  /\ values = [k \in Keys |-> NoValue]
  /\ config \in Boots
  /\ LET nobody == [k \in Keys |-> <<>>]
         l == ParseEvents(ParseEvents(EmptyList(1, nobody), config.sys), config.user)
     IN  list = Body(l) /\ subs = l.subs
  /\ made = 1

\* Slip: only the first subscriber of the key hears of the change.
SetValueFirst(k, v) ==
  /\ values' = [values EXCEPT ![k] = v]
  /\ list' = [list EXCEPT !.cache = [i \in DOMAIN list.cache |->
       IF subs[k] # <<>> /\ Head(subs[k]) = [list |-> list.id, rule |-> i]
       THEN Truth(Matches(list.rules[i], v)) ELSE list.cache[i]]]
  /\ UNCHANGED <<subs, config, made>>

\* n_context_set_value, and cache_rule_context_cb of every subscriber.
SetValue(k, v) ==
  /\ values' = [values EXCEPT ![k] = v]
  /\ list' = [list EXCEPT !.cache = [i \in DOMAIN list.cache |->
       IF Contains(subs[k], [list |-> list.id, rule |-> i])
       THEN Truth(Matches(list.rules[i], v)) ELSE list.cache[i]]]
  /\ UNCHANGED <<subs, config, made>>

\* Slip: the answers of rules on the request are kept as well.
EvaluateKeepsAll(r) ==
  /\ list' = [list EXCEPT !.cache = [i \in DOMAIN list.cache |->
       IF i \in LookedAt(r) THEN Truth(RuleHolds(i, r.props)) ELSE list.cache[i]]]
  /\ UNCHANGED <<values, subs, config, made>>

\* n_core_evaluate_request: the answer of a rule that is looked at is kept.
Evaluate(r) ==
  /\ list' = [list EXCEPT !.cache = [i \in DOMAIN list.cache |->
       IF i \in LookedAt(r) /\ OnContext(list, i)
       THEN Truth(RuleHolds(i, r.props)) ELSE list.cache[i]]]
  /\ UNCHANGED <<values, subs, config, made>>

\* n_core_reload_events when the system's files define an event: the requests
\* are stopped (Player: StopAll), the old list goes, the new one stays.
Reload(c) ==
  LET sys == ParseEvents(EmptyList(made + 1, subs), c.sys)
      all == ParseEvents(sys, c.user)
  IN  /\ made <= MaxReloads
      /\ ~NoEvents(sys)
      /\ list' = Body(all)
      /\ subs' = Unsubscribed(all.subs, list)
      /\ config' = c
      /\ made' = made + 1
      /\ UNCHANGED values

\* ... and when they define none: the new list goes.
ReloadFails(c) ==
  LET sys == ParseEvents(EmptyList(made + 1, subs), c.sys)
  IN  /\ made <= MaxReloads
      /\ NoEvents(sys)
      /\ subs' = Unsubscribed(sys.subs, sys)
      /\ made' = made + 1
      /\ UNCHANGED <<values, list, config>>

Next ==
  \/ \E k \in Keys, v \in Values : SetValue(k, v)
  \/ \E r \in Asked : Evaluate(r)
  \/ \E c \in Files : Reload(c) \/ ReloadFails(c)

Spec == Init /\ [][Next]_vars

-----------------------------------------------------------------------------
(* What an evaluation promises, from the text of the configuration alone.  *)

Written == config.sys \o config.user

Title(g) == <<g.name, ToSet(g.rules)>>

\* The groups that make up the event of a title: those after the last that
\* removed it.
Layers(t) ==
  LET all == {i \in DOMAIN Written : Title(Written[i]) = t}
  IN  {i \in all : \A j \in all : Written[j].unsetEvent => j < i}

\* A key has the value of the last layer that mentions it, if that sets it.
PropsOf(t) ==
  LET Says(i, k) == k \in Written[i].unset \cup DOMAIN Written[i].props
      keys == UNION {DOMAIN Written[i].props : i \in Layers(t)}
      top(k) == Max({i \in Layers(t) : Says(i, k)})
  IN  [k \in {k \in keys : k \in DOMAIN Written[top(k)].props} |->
         Written[top(k)].props[k]]

HoldsNow(rule, r) ==
  Matches(rule, IF rule.target = "context" THEN values[rule.key]
                ELSE IF rule.key \in DOMAIN r.props THEN r.props[rule.key] ELSE NoValue)

Candidates(r) ==
  {t \in {Title(Written[i]) : i \in DOMAIN Written} :
     /\ t[1] = r.name /\ Layers(t) # {}
     /\ \A rule \in t[2] : HoldsNow(rule, r)}

\* Priority first, then the rules on the request, then those on the context,
\* then the place in the files.
Weight(t) ==
  <<Written[Min(Layers(t))].prio,
    Cardinality({rule \in t[2] : rule.target = "request"}),
    Cardinality({rule \in t[2] : rule.target = "context"}), -Min(Layers(t))>>

Heavier(a, b) ==
  \E n \in 1..4 : a[n] > b[n] /\ \A m \in 1..(n - 1) : a[m] = b[m]

Promised(r) ==
  CHOOSE t \in Candidates(r) :
    \A u \in Candidates(r) \ {t} : Heavier(Weight(t), Weight(u))

-----------------------------------------------------------------------------
(* Properties.                                                             *)

TypeOK ==
  /\ values \in [Keys -> Values \cup {NoValue}]
  /\ made \in 1..(MaxReloads + 1) /\ list.id \in 1..made
  /\ Len(list.cache) = Len(list.rules)
  /\ \A i \in DOMAIN list.cache :
       list.cache[i] \in IF OnContext(list, i)
                        THEN {"inactive", "unset", "true", "false"} ELSE {"inactive"}
  /\ \A n \in Names : \A p \in DOMAIN list.events[n] :
       ToSet(list.events[n][p].rules) \subseteq DOMAIN list.rules

\* A cached answer is the one the rule would get from the context now,
\* whatever was set, evaluated and reloaded in between (and has its type).
CacheIsFresh ==
  TypeOK /\ \A i \in DOMAIN list.rules :
    list.cache[i] \in {"true", "false"} =>
      list.cache[i] = Truth(Matches(list.rules[i], values[list.rules[i].key]))

\* The callbacks of a context change reach rules of the list in use, each
\* once, and never a rule that was freed with its list.
CallbacksReachLiveRules ==
  \A k \in Keys :
    /\ IsInjective(subs[k])
    /\ \A q \in DOMAIN subs[k] :
         /\ subs[k][q].list = list.id
         /\ list.rules[subs[k][q].rule].target = "context"

\* Every context rule an evaluation can look at hears of the changes of its
\* key, before and after a reload.
UsedRulesListen ==
  \A n \in Names : \A p \in DOMAIN list.events[n] :
    \A i \in ToSet(list.events[n][p].rules) :
      OnContext(list, i) =>
        Contains(subs[list.rules[i].key], [list |-> list.id, rule |-> i])

\* A request is evaluated to the event the files promise for the present
\* context: of the events with its name whose rules all hold, the one with
\* the highest priority and the most rules; its properties are layered in the
\* order of the files.
EvaluationIsExact ==
  \A r \in Asked :
    IF Candidates(r) = {} THEN Found(r) = 0
    ELSE /\ Found(r) # 0
         /\ list.events[r.name][Found(r)].props = PropsOf(Promised(r))
         /\ list.events[r.name][Found(r)].prio = Weight(Promised(r))[1]

\* What files must say for EvaluationIsExact: a group names each of its rules
\* once, no two rules differ in their target alone, and a group that removes an
\* event finds it.
FilesMakeSense ==
  \A c \in Boots \cup Files :
    LET all == c.sys \o c.user
    IN  /\ \A g \in ToSet(all) : IsInjective(g.rules)
        /\ \A g, h \in ToSet(all) : \A a \in ToSet(g.rules), b \in ToSet(h.rules) :
             RuleEqual(a, b) => a = b
        /\ \A i \in DOMAIN all : all[i].unsetEvent =>
             \E j \in 1..(i - 1) :
               /\ Title(all[j]) = Title(all[i])
               /\ \A k \in j..(i - 1) : Title(all[k]) = Title(all[i]) => ~all[k].unsetEvent
=============================================================================
