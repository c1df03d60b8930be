----------------------------- MODULE CoreProofs -----------------------------
(***************************************************************************)
(* Theorems about EventRules, for all files and requests and any number of *)
(* reloads, and about CoreBoot, for all plugins, whatever they register    *)
(* and wherever they fail, and all configurations of the request pipeline. *)
(***************************************************************************)
EXTENDS EventRules, CoreBoot, SequenceTheorems, FiniteSetTheorems, WellFoundedInduction, TLAPS

-----------------------------------------------------------------------------
(* Numbers and lists.                                                      *)

\* A set of numbers that is not empty has a least member.
LEMMA LeastExists ==
  ASSUME NEW S, S \subseteq Nat, S # {}
  PROVE  \E x \in S : \A y \in S : x <= y
<1>1. PICK x \in S : \A y \in S : ~ (<<y, x>> \in OpToRel(<, Nat))
  BY ONLY S # {}, S \subseteq Nat, WFMin, NatLessThanWellFounded, Zenon
<1>2. \A y \in S : y < x => <<y, x>> \in OpToRel(<, Nat)
  BY <1>1 DEF OpToRel
<1>3. \A y \in S : ~ (y < x)
  BY <1>1, <1>2, Zenon
<1>4. QED
  BY ONLY <1>3, S \subseteq Nat, x \in S

\* Induction over a set of numbers, which is the form the provers can use.
LEMMA SetInduction ==
  ASSUME NEW T, 0 \in T, \A n \in Nat : n \in T => n + 1 \in T
  PROVE  Nat \subseteq T
<1> DEFINE Rest == Nat \ T
<1>1. SUFFICES ASSUME Rest # {}
               PROVE  FALSE
  OBVIOUS
<1>2. PICK x \in Rest : \A y \in Rest : x <= y
  <2>1. Rest \subseteq Nat
    OBVIOUS
  <2> HIDE DEF Rest
  <2>2. QED
    BY <1>1, <2>1, LeastExists
<1>3. x # 0 /\ x - 1 \in Nat /\ x - 1 \notin T
  BY <1>2
<1>4. QED
  BY <1>2, <1>3

-----------------------------------------------------------------------------
(* The lists that are made step by step: each step exists.                 *)

\* The members of s in E, up to the place m.
Kept(s, E, m, f) ==
  f = [n \in 0..m |-> IF n = 0 THEN <<>>
                      ELSE IF s[n] \in E THEN Append(f[n - 1], s[n]) ELSE f[n - 1]]

LEMMA KeptExists ==
  ASSUME NEW S, NEW s \in Seq(S), NEW E
  PROVE  \E f : Kept(s, E, Len(s), f)
<1> DEFINE T == {m \in Nat : \E f : Kept(s, E, m, f)}
<1>1. 0 \in T
  <2>1. Kept(s, E, 0, [n \in 0..0 |-> <<>>])
    BY DEF Kept
  <2>2. QED
    BY <2>1
<1>2. ASSUME NEW m \in Nat, m \in T
      PROVE  m + 1 \in T
  <2>1. PICK f : Kept(s, E, m, f)
    BY <1>2
  <2> DEFINE last == (IF s[m + 1] \in E THEN Append(f[m], s[m + 1]) ELSE f[m])
             g    == [n \in 0..(m + 1) |-> IF n = m + 1 THEN last ELSE f[n]]
  <2>2. ASSUME NEW n \in 0..(m + 1)
        PROVE  g[n] = IF n = 0 THEN <<>> ELSE (IF s[n] \in E THEN Append(g[n - 1], s[n]) ELSE g[n - 1])
    <3>1. CASE n = m + 1
      <4>1. n # 0 /\ n - 1 = m /\ n - 1 \in 0..(m + 1) /\ n - 1 # m + 1
        BY <3>1
      <4>2. g[n - 1] = f[m] /\ g[n] = last
        BY <3>1, <4>1
      <4>3. QED
        BY <3>1, <4>1, <4>2
    <3>2. CASE n # m + 1
      <4>1. n \in 0..m /\ g[n] = f[n] /\ (n # 0 => g[n - 1] = f[n - 1])
        BY <3>2
      <4>2. f[n] = IF n = 0 THEN <<>> ELSE (IF s[n] \in E THEN Append(f[n - 1], s[n]) ELSE f[n - 1])
        BY <2>1, <4>1 DEF Kept
      <4>3. QED
        BY <4>1, <4>2
    <3>3. QED
      BY <3>1, <3>2
  <2> HIDE DEF last
  <2>3. Kept(s, E, m + 1, g)
    BY <2>2 DEF Kept
  <2>4. QED
    BY <2>3
<1>3. Nat \subseteq T
  <2> HIDE DEF T
  <2>1. QED
    BY <1>1, <1>2, SetInduction
<1>4. QED
  BY <1>3

\* The rule list after the first m rules of a group.
Merged(base, rules, m, f) ==
  f = [n \in 0..m |-> IF n = 0 THEN base ELSE MergeRule(f[n - 1], rules[n])]

LEMMA MergedExists ==
  ASSUME NEW base, NEW S, NEW rules \in Seq(S)
  PROVE  \E f : Merged(base, rules, Len(rules), f)
<1> DEFINE T == {m \in Nat : \E f : Merged(base, rules, m, f)}
<1>1. 0 \in T
  <2>1. Merged(base, rules, 0, [n \in 0..0 |-> base])
    BY DEF Merged
  <2>2. QED
    BY <2>1
<1>2. ASSUME NEW m \in Nat, m \in T
      PROVE  m + 1 \in T
  <2>1. PICK f : Merged(base, rules, m, f)
    BY <1>2
  <2> DEFINE last == MergeRule(f[m], rules[m + 1])
             g    == [n \in 0..(m + 1) |-> IF n = m + 1 THEN last ELSE f[n]]
  <2>2. ASSUME NEW n \in 0..(m + 1)
        PROVE  g[n] = IF n = 0 THEN base ELSE MergeRule(g[n - 1], rules[n])
    <3>1. CASE n = m + 1
      <4>1. n # 0 /\ n - 1 = m /\ n - 1 \in 0..(m + 1) /\ n - 1 # m + 1
        BY <3>1
      <4>2. g[n - 1] = f[m] /\ g[n] = last
        BY <3>1, <4>1
      <4>3. QED
        BY <3>1, <4>1, <4>2
    <3>2. CASE n # m + 1
      <4>1. n \in 0..m /\ g[n] = f[n] /\ (n # 0 => g[n - 1] = f[n - 1])
        BY <3>2
      <4>2. f[n] = IF n = 0 THEN base ELSE MergeRule(f[n - 1], rules[n])
        BY <2>1, <4>1 DEF Merged
      <4>3. QED
        BY <4>1, <4>2
    <3>3. QED
      BY <3>1, <3>2
  <2> HIDE DEF last
  <2>3. Merged(base, rules, m + 1, g)
    BY <2>2 DEF Merged
  <2>4. QED
    BY <2>3
<1>3. Nat \subseteq T
  <2> HIDE DEF T
  <2>1. QED
    BY <1>1, <1>2, SetInduction
<1>4. QED
  BY <1>3

\* The list after the subscription of the first m rules of an event.
Listening(base, ids, m, f) ==
  f = [n \in 0..m |-> IF n = 0 THEN base ELSE SubscribeRule(f[n - 1], ids[n])]

LEMMA ListeningExists ==
  ASSUME NEW base, NEW S, NEW ids \in Seq(S)
  PROVE  \E f : Listening(base, ids, Len(ids), f)
<1> DEFINE T == {m \in Nat : \E f : Listening(base, ids, m, f)}
<1>1. 0 \in T
  <2>1. Listening(base, ids, 0, [n \in 0..0 |-> base])
    BY DEF Listening
  <2>2. QED
    BY <2>1
<1>2. ASSUME NEW m \in Nat, m \in T
      PROVE  m + 1 \in T
  <2>1. PICK f : Listening(base, ids, m, f)
    BY <1>2
  <2> DEFINE last == SubscribeRule(f[m], ids[m + 1])
             g    == [n \in 0..(m + 1) |-> IF n = m + 1 THEN last ELSE f[n]]
  <2>2. ASSUME NEW n \in 0..(m + 1)
        PROVE  g[n] = IF n = 0 THEN base ELSE SubscribeRule(g[n - 1], ids[n])
    <3>1. CASE n = m + 1
      <4>1. n # 0 /\ n - 1 = m /\ n - 1 \in 0..(m + 1) /\ n - 1 # m + 1
        BY <3>1
      <4>2. g[n - 1] = f[m] /\ g[n] = last
        BY <3>1, <4>1
      <4>3. QED
        BY <3>1, <4>1, <4>2
    <3>2. CASE n # m + 1
      <4>1. n \in 0..m /\ g[n] = f[n] /\ (n # 0 => g[n - 1] = f[n - 1])
        BY <3>2
      <4>2. f[n] = IF n = 0 THEN base ELSE SubscribeRule(f[n - 1], ids[n])
        BY <2>1, <4>1 DEF Listening
      <4>3. QED
        BY <4>1, <4>2
    <3>3. QED
      BY <3>1, <3>2
  <2> HIDE DEF last
  <2>3. Listening(base, ids, m + 1, g)
    BY <2>2 DEF Listening
  <2>4. QED
    BY <2>3
<1>3. Nat \subseteq T
  <2> HIDE DEF T
  <2>1. QED
    BY <1>1, <1>2, SetInduction
<1>4. QED
  BY <1>3

\* The list after the first m groups.
Parsed(base, groups, m, f) ==
  f = [n \in 0..m |-> IF n = 0 THEN base ELSE AddGroup(f[n - 1], groups[n])]

LEMMA ParsedExists ==
  ASSUME NEW base, NEW S, NEW groups \in Seq(S)
  PROVE  \E f : Parsed(base, groups, Len(groups), f)
<1> DEFINE T == {m \in Nat : \E f : Parsed(base, groups, m, f)}
<1>1. 0 \in T
  <2>1. Parsed(base, groups, 0, [n \in 0..0 |-> base])
    BY DEF Parsed
  <2>2. QED
    BY <2>1
<1>2. ASSUME NEW m \in Nat, m \in T
      PROVE  m + 1 \in T
  <2>1. PICK f : Parsed(base, groups, m, f)
    BY <1>2
  <2> DEFINE last == AddGroup(f[m], groups[m + 1])
             g    == [n \in 0..(m + 1) |-> IF n = m + 1 THEN last ELSE f[n]]
  <2>2. ASSUME NEW n \in 0..(m + 1)
        PROVE  g[n] = IF n = 0 THEN base ELSE AddGroup(g[n - 1], groups[n])
    <3>1. CASE n = m + 1
      <4>1. n # 0 /\ n - 1 = m /\ n - 1 \in 0..(m + 1) /\ n - 1 # m + 1
        BY <3>1
      <4>2. g[n - 1] = f[m] /\ g[n] = last
        BY <3>1, <4>1
      <4>3. QED
        BY <3>1, <4>1, <4>2
    <3>2. CASE n # m + 1
      <4>1. n \in 0..m /\ g[n] = f[n] /\ (n # 0 => g[n - 1] = f[n - 1])
        BY <3>2
      <4>2. f[n] = IF n = 0 THEN base ELSE AddGroup(f[n - 1], groups[n])
        BY <2>1, <4>1 DEF Parsed
      <4>3. QED
        BY <4>1, <4>2
    <3>3. QED
      BY <3>1, <3>2
  <2> HIDE DEF last
  <2>3. Parsed(base, groups, m + 1, g)
    BY <2>2 DEF Parsed
  <2>4. QED
    BY <2>3
<1>3. Nat \subseteq T
  <2> HIDE DEF T
  <2>1. QED
    BY <1>1, <1>2, SetInduction
<1>4. QED
  BY <1>3

-----------------------------------------------------------------------------
(* What the steps make.                                                    *)

\* A list is one of its own members.
LEMMA OwnMembers ==
  ASSUME NEW S, NEW s \in Seq(S)
  PROVE  s \in Seq(ToSet(s)) /\ ToSet(s) \subseteq S
BY DEF ToSet

LEMMA MembersIn ==
  ASSUME NEW S, NEW s, s \in Seq(ToSet(s)), ToSet(s) \subseteq S
  PROVE  s \in Seq(S)
<1>1. \A i \in 1..Len(s) : s[i] \in S
  BY DEF ToSet
<1>2. s = [i \in 1..Len(s) |-> s[i]] /\ Len(s) \in Nat
  OBVIOUS
<1>3. QED
  BY <1>1, <1>2

LEMMA OnlyFacts ==
  ASSUME NEW S, NEW s \in Seq(S), NEW E
  PROVE  Only(s, E) \in Seq(S)
<1> DEFINE g == CHOOSE h : Kept(s, E, Len(s), h)
<1>1. Kept(s, E, Len(s), g)
  BY KeptExists, Zenon
<1>2. Only(s, E) = g[Len(s)]
  BY DEF Only, Through, Kept
<1> HIDE DEF g
<1> DEFINE T == {m \in Nat : m <= Len(s) => g[m] \in Seq(S)}
<1>3. \A n \in 0..Len(s) :
        g[n] = IF n = 0 THEN <<>>
               ELSE IF s[n] \in E THEN Append(g[n - 1], s[n]) ELSE g[n - 1]
  BY <1>1 DEF Kept
<1>4. 0 \in T
  <2>1. g[0] = <<>> /\ <<>> \in Seq(S)
    BY <1>3
  <2>2. QED
    BY <2>1
<1>5. ASSUME NEW m \in Nat, m \in T
      PROVE  m + 1 \in T
  <2>1. SUFFICES ASSUME m + 1 <= Len(s)
                 PROVE  g[m + 1] \in Seq(S)
    OBVIOUS
  <2>2. g[m] \in Seq(S) /\ m + 1 \in 0..Len(s) /\ s[m + 1] \in S /\ m + 1 # 0
    BY <1>5, <2>1
  <2>3. g[m + 1] = IF s[m + 1] \in E THEN Append(g[m], s[m + 1]) ELSE g[m]
    BY <1>3, <2>2
  <2>4. Append(g[m], s[m + 1]) \in Seq(S)
    BY ONLY <2>2
  <2>5. QED
    BY <2>2, <2>3, <2>4
<1>6. Nat \subseteq T
  <2> HIDE DEF T
  <2>1. QED
    BY <1>4, <1>5, SetInduction
<1>7. Len(s) \in T
  BY <1>6
<1>8. QED
  BY <1>2, <1>7

\* The first place at which a test holds is a place, or 0.
LEMMA FirstPlace ==
  ASSUME NEW n \in Nat, NEW I, I \subseteq 1..n
  PROVE  (IF I # {} THEN Min(I) ELSE 0) \in {0} \cup I
<1>1. CASE I # {}
  <2>1. \E x \in I : \A y \in I : x =< y
    <3>1. I \subseteq Nat
      OBVIOUS
    <3>2. QED
      BY ONLY <1>1, <3>1, LeastExists
  <2>2. Min(I) \in I
    BY <2>1 DEF Min
  <2>3. QED
    BY <1>1, <2>2
<1>2. QED
  BY <1>1

-----------------------------------------------------------------------------
(* What is true of a list, finished or in the making.                      *)

Rules ==
  UNION {ToSet(g.rules) : g \in UNION {ToSet(c.sys) \cup ToSet(c.user) : c \in Boots \cup Files}}
Answers     == {"inactive", "unset", "true", "false"}
Subscribers == [list : Nat, rule : Nat]

\* Rules and their caches.
IsList(l) ==
  /\ l.id \in Nat
  /\ l.rules \in Seq(Rules) /\ l.cache \in Seq(Answers) /\ Len(l.cache) = Len(l.rules)
  /\ \A i \in DOMAIN l.rules : ~OnContext(l, i) => l.cache[i] = "inactive"

IsEvent(l, e) ==
  /\ e = [rules |-> e.rules, prio |-> e.prio, props |-> e.props]
  /\ e.rules \in Seq(1..Len(l.rules))

\* The context rules of an event were subscribed.
Attached(l, e) ==
  \A q \in DOMAIN e.rules : OnContext(l, e.rules[q]) => l.cache[e.rules[q]] # "inactive"

HasEvents(l) ==
  /\ l.events = [n \in Names |-> l.events[n]]
  /\ \A n \in Names : /\ l.events[n] \in Seq(ToSet(l.events[n]))
                      /\ \A e \in ToSet(l.events[n]) : IsEvent(l, e)

AllAttached(l) == \A n \in Names : \A e \in ToSet(l.events[n]) : Attached(l, e)

\* Behind place b the subscribers t of key k are the rules of l that listen to
\* it, each once.
Registered(l, t, b, k) ==
  /\ t \in Seq(Subscribers) /\ b \in Nat /\ b <= Len(t)
  /\ \A q \in (b + 1)..Len(t) : t[q].list = l.id /\ t[q].rule \in Listeners(l, k)
  /\ \A i \in Listeners(l, k) : \E q \in (b + 1)..Len(t) : t[q].rule = i
  /\ \A p, q \in (b + 1)..Len(t) : t[p].rule = t[q].rule => p = q

\* A list in the making, where s were the subscribers before.
InTheMaking(l, s) ==
  /\ l = [id |-> l.id, rules |-> l.rules, cache |-> l.cache, subs |-> l.subs, events |-> l.events]
  /\ IsList(l) /\ HasEvents(l)
  /\ \A i \in DOMAIN l.cache : l.cache[i] \in {"inactive", "unset"}
  /\ l.subs = [k \in Keys |-> l.subs[k]]
  /\ \A k \in Keys : Registered(l, l.subs[k], Len(s[k]), k)

-----------------------------------------------------------------------------
(* Merging rules.                                                          *)

\* m is the rule list of l, and perhaps more rules, whose caches are inactive.
Extends(m, l) ==
  /\ m = [rules |-> m.rules, cache |-> m.cache, ids |-> m.ids]
  /\ m.rules \in Seq(Rules) /\ m.cache \in Seq(Answers) /\ Len(m.cache) = Len(m.rules)
  /\ Len(l.rules) <= Len(m.rules)
  /\ \A i \in 1..Len(l.rules) : m.rules[i] = l.rules[i] /\ m.cache[i] = l.cache[i]
  /\ \A i \in (Len(l.rules) + 1)..Len(m.rules) : m.cache[i] = "inactive"
  /\ m.ids \in Seq(1..Len(m.rules))

LEMMA LongerIds ==
  ASSUME NEW a \in Nat, NEW b \in Nat, a <= b, NEW s \in Seq(1..a)
  PROVE  s \in Seq(1..b)
<1>1. \A i \in 1..Len(s) : s[i] \in 1..b
  OBVIOUS
<1>2. s = [i \in 1..Len(s) |-> s[i]] /\ Len(s) \in Nat
  OBVIOUS
<1>3. QED
  BY <1>1, <1>2

LEMMA MergeRuleExtends ==
  ASSUME NEW l, l.rules \in Seq(Rules), NEW m, Extends(m, l), NEW rule \in Rules
  PROVE  Extends(MergeRule(m, rule), l)
<1> DEFINE I == {i \in 1..Len(m.rules) : RuleEqual(rule, m.rules[i])}
           p == IF I # {} THEN Min(I) ELSE 0
           n == Len(m.rules)
<1>0. n \in Nat /\ Len(l.rules) \in Nat
  BY DEF Extends
<1>1. p \in 0..n /\ SelectInSeq(m.rules, LAMBDA r : RuleEqual(rule, r)) = p
  <2>1. p \in {0} \cup I
    <3>1. I \subseteq 1..n
      OBVIOUS
    <3> HIDE DEF I
    <3>2. QED
      BY <1>0, <3>1, FirstPlace
  <2>2. SelectInSeq(m.rules, LAMBDA r : RuleEqual(rule, r)) = p
    BY DEF SelectInSeq
  <2> HIDE DEF p
  <2>3. QED
    BY <1>0, <2>1, <2>2
<1>2. MergeRule(m, rule) =
        IF p # 0 THEN [m EXCEPT !.ids = Append(@, p)]
        ELSE [rules |-> Append(m.rules, rule), cache |-> Append(m.cache, "inactive"),
              ids |-> Append(m.ids, n + 1)]
  BY <1>1 DEF MergeRule
<1> HIDE DEF p, I
<1>3. CASE p # 0
  <2>1. MergeRule(m, rule) = [rules |-> m.rules, cache |-> m.cache, ids |-> Append(m.ids, p)]
    BY <1>2, <1>3 DEF Extends
  <2>2. Append(m.ids, p) \in Seq(1..n)
    BY <1>0, <1>1, <1>3 DEF Extends
  <2>3. QED
    BY <2>1, <2>2 DEF Extends
<1>4. CASE p = 0
  <2> DEFINE r == Append(m.rules, rule)
             c == Append(m.cache, "inactive")
             d == Append(m.ids, n + 1)
  <2>1. MergeRule(m, rule) = [rules |-> r, cache |-> c, ids |-> d]
    BY <1>2, <1>4
  <2>2. /\ r \in Seq(Rules) /\ Len(r) = n + 1
        /\ \A i \in 1..n : r[i] = m.rules[i]
    BY <1>0 DEF Extends
  <2>3. /\ c \in Seq(Answers) /\ Len(c) = n + 1 /\ c[n + 1] = "inactive"
        /\ \A i \in 1..n : c[i] = m.cache[i]
    <3>1. m.cache \in Seq(Answers) /\ Len(m.cache) = n /\ "inactive" \in Answers
      BY DEF Extends, Answers
    <3>2. QED
      BY ONLY <1>0, <3>1
  <2>4. d \in Seq(1..(n + 1))
    <3>1. m.ids \in Seq(1..(n + 1))
      <4>1. m.ids \in Seq(1..n)
        BY DEF Extends
      <4>2. QED
        BY <1>0, <4>1, LongerIds
    <3>2. n + 1 \in 1..(n + 1)
      BY <1>0
    <3>3. QED
      BY ONLY <3>1, <3>2
  <2>5. /\ Len(l.rules) <= n
        /\ \A i \in 1..Len(l.rules) : m.rules[i] = l.rules[i] /\ m.cache[i] = l.cache[i]
        /\ \A i \in (Len(l.rules) + 1)..n : m.cache[i] = "inactive"
    BY DEF Extends
  <2> HIDE DEF r, c, d, n
  <2>6. \A i \in (Len(l.rules) + 1)..(n + 1) : c[i] = "inactive"
    BY <1>0, <2>3, <2>5
  <2>7. Len(l.rules) <= n + 1 /\ \A i \in 1..Len(l.rules) : i \in 1..n
    BY <1>0, <2>5
  <2>8. \A i \in 1..Len(l.rules) : r[i] = l.rules[i] /\ c[i] = l.cache[i]
    BY <2>2, <2>3, <2>5, <2>7
  <2>9. QED
    BY <2>1, <2>2, <2>3, <2>4, <2>6, <2>7, <2>8 DEF Extends
<1>5. QED
  BY <1>0, <1>1, <1>3, <1>4

LEMMA MergeExtends ==
  ASSUME NEW l, IsList(l), NEW rules \in Seq(Rules)
  PROVE  Extends(MergeRules(l, rules), l)
<1> DEFINE base == [rules |-> l.rules, cache |-> l.cache, ids |-> <<>>]
           g == CHOOSE h : Merged(base, rules, Len(rules), h)
<1>1. Merged(base, rules, Len(rules), g)
  <2> HIDE DEF base
  <2>1. QED
    BY MergedExists, Zenon
<1>2. MergeRules(l, rules) = g[Len(rules)]
  BY DEF MergeRules, Through, Merged
<1>3. Extends(base, l)
  <2>1. <<>> \in Seq(1..Len(l.rules))
    OBVIOUS
  <2>2. QED
    BY <2>1 DEF Extends, IsList
<1> HIDE DEF g, base
<1> DEFINE T == {m \in Nat : m <= Len(rules) => Extends(g[m], l)}
<1>4. \A n \in 0..Len(rules) :
        g[n] = IF n = 0 THEN base ELSE MergeRule(g[n - 1], rules[n])
  BY <1>1 DEF Merged
<1>5. 0 \in T
  <2>1. g[0] = base
    BY <1>4
  <2>2. QED
    BY <2>1, <1>3
<1>6. ASSUME NEW m \in Nat, m \in T
      PROVE  m + 1 \in T
  <2>1. SUFFICES ASSUME m + 1 <= Len(rules)
                 PROVE  Extends(g[m + 1], l)
    OBVIOUS
  <2>2. Extends(g[m], l) /\ rules[m + 1] \in Rules
    BY <1>6, <2>1
  <2>3. m + 1 \in 0..Len(rules) /\ m + 1 # 0 /\ (m + 1) - 1 = m
    BY <2>1
  <2>4. g[m + 1] = MergeRule(g[m], rules[m + 1])
    BY <1>4, <2>3
  <2>5. QED
    BY <2>2, <2>4, MergeRuleExtends DEF IsList
<1>7. Nat \subseteq T
  <2> HIDE DEF T
  <2>1. QED
    BY <1>5, <1>6, SetInduction
<1>8. Len(rules) \in T
  BY <1>7
<1>9. QED
  BY <1>2, <1>8

-----------------------------------------------------------------------------
(* Subscribing rules.                                                      *)

LEMMA ContextKeys ==
  ASSUME NEW rule \in Rules, rule.target = "context"
  PROVE  rule.key \in Keys
<1>1. PICK c \in Boots \cup Files : \E g \in ToSet(c.sys) \cup ToSet(c.user) : rule \in ToSet(g.rules)
  BY DEF Rules
<1>2. PICK groups \in {c.sys, c.user} : \E g \in ToSet(groups) : rule \in ToSet(g.rules)
  BY <1>1
<1>3. QED
  BY <1>2, FilesAssumption

\* One more subscriber of its key.
LEMMA OneMoreRegistered ==
  ASSUME NEW l, NEW m, NEW t, NEW b, NEW k, NEW i \in Nat, Registered(l, t, b, k),
         l.id \in Nat, m.id = l.id,
         i \notin Listeners(l, k), Listeners(m, k) = Listeners(l, k) \cup {i}
  PROVE  Registered(m, Append(t, [list |-> l.id, rule |-> i]), b, k)
<1> DEFINE e == [list |-> l.id, rule |-> i]
           u == Append(t, e)
           n == Len(t)
<1>1. /\ t \in Seq(Subscribers) /\ b \in Nat /\ b <= n /\ n \in Nat
      /\ \A q \in (b + 1)..n : t[q].list = l.id /\ t[q].rule \in Listeners(l, k)
      /\ \A j \in Listeners(l, k) : \E q \in (b + 1)..n : t[q].rule = j
      /\ \A p, q \in (b + 1)..n : t[p].rule = t[q].rule => p = q
  BY DEF Registered
<1>2. e \in Subscribers /\ e.list = l.id /\ e.rule = i
  BY DEF Subscribers
<1> HIDE DEF e
<1>3. /\ u \in Seq(Subscribers) /\ Len(u) = n + 1 /\ u[n + 1] = e
      /\ \A q \in 1..n : u[q] = t[q]
  BY ONLY <1>1, <1>2
<1> HIDE DEF u
<1>4. n + 1 \in (b + 1)..(n + 1)
  BY <1>1
<1>5. \A q \in (b + 1)..(n + 1) : q = n + 1 \/ (q \in (b + 1)..n /\ u[q] = t[q])
  BY <1>1, <1>3
<1>6. \A q \in (b + 1)..n : q \in (b + 1)..(n + 1) /\ u[q] = t[q]
  BY <1>1, <1>3
<1> HIDE DEF n
<1>7. \A q \in (b + 1)..(n + 1) : u[q].list = m.id /\ u[q].rule \in Listeners(m, k)
  BY <1>1, <1>2, <1>3, <1>5
<1>8. \A j \in Listeners(m, k) : \E q \in (b + 1)..(n + 1) : u[q].rule = j
  <2>1. ASSUME NEW j \in Listeners(l, k)
        PROVE  \E q \in (b + 1)..(n + 1) : u[q].rule = j
    BY <1>1, <1>6
  <2>2. u[n + 1].rule = i
    BY <1>2, <1>3
  <2>3. QED
    BY <1>4, <2>1, <2>2
<1>9. \A p, q \in (b + 1)..(n + 1) : u[p].rule = u[q].rule => p = q
  BY <1>1, <1>2, <1>3, <1>5
<1>10. b <= n + 1
  BY <1>1
<1>11. Registered(m, u, b, k)
  BY <1>1, <1>3, <1>7, <1>8, <1>9, <1>10 DEF Registered
<1>12. QED
  BY <1>11 DEF u, e

\* Subscribed(m, l): m is l with more rules subscribed.
Subscribed(m, l) ==
  /\ m.id = l.id /\ m.rules = l.rules /\ m.events = l.events
  /\ \A j \in DOMAIN l.rules : l.cache[j] # "inactive" => m.cache[j] # "inactive"

LEMMA SubscribeRuleFacts ==
  ASSUME NEW s, NEW l, InTheMaking(l, s), NEW i \in 1..Len(l.rules)
  PROVE  /\ InTheMaking(SubscribeRule(l, i), s) /\ Subscribed(SubscribeRule(l, i), l)
         /\ OnContext(l, i) => SubscribeRule(l, i).cache[i] # "inactive"
<1> DEFINE m == SubscribeRule(l, i)
<1>1. CASE ~OnContext(l, i) \/ l.cache[i] # "inactive"
  BY <1>1 DEF SubscribeRule, Subscribed
<1>2. CASE OnContext(l, i) /\ l.cache[i] = "inactive"
  <2> DEFINE key == l.rules[i].key
             c == [l.cache EXCEPT ![i] = "unset"]
             u == [l.subs EXCEPT ![key] = Append(@, [list |-> l.id, rule |-> i])]
  <2>0. /\ l = [id |-> l.id, rules |-> l.rules, cache |-> l.cache, subs |-> l.subs, events |-> l.events]
        /\ IsList(l) /\ HasEvents(l)
        /\ l.subs = [k \in Keys |-> l.subs[k]]
        /\ \A j \in DOMAIN l.cache : l.cache[j] \in {"inactive", "unset"}
        /\ \A k \in Keys : Registered(l, l.subs[k], Len(s[k]), k)
    BY DEF InTheMaking
  <2>1. m = [id |-> l.id, rules |-> l.rules, cache |-> c, subs |-> u, events |-> l.events]
    <3>1. m = [l EXCEPT !.cache[i] = "unset",
                 !.subs[l.rules[i].key] = Append(@, [list |-> l.id, rule |-> i])]
      BY <1>2 DEF SubscribeRule
    <3>2. QED
      BY ONLY <2>0, <3>1
  <2>2. /\ m.id = l.id /\ m.rules = l.rules /\ m.cache = c /\ m.subs = u /\ m.events = l.events
        /\ m = [id |-> m.id, rules |-> m.rules, cache |-> m.cache, subs |-> m.subs, events |-> m.events]
    BY <2>1
  <2> HIDE DEF m
  <2>3. l.rules \in Seq(Rules) /\ l.cache \in Seq(Answers) /\ Len(l.cache) = Len(l.rules) /\ l.id \in Nat
    BY <2>0 DEF IsList
  <2>4. key \in Keys
    <3>1. l.rules[i] \in Rules
      BY <2>3
    <3>2. QED
      BY <1>2, <3>1, ContextKeys DEF OnContext
  <2>5. /\ c \in Seq(Answers) /\ Len(c) = Len(l.rules) /\ c[i] = "unset"
        /\ \A j \in 1..Len(l.rules) : j # i => c[j] = l.cache[j]
    <3>1. "unset" \in Answers
      BY DEF Answers
    <3>2. QED
      BY ONLY <2>3, <3>1, i \in 1..Len(l.rules)
  <2> HIDE DEF c
  <2>6. \A j : OnContext(m, j) <=> OnContext(l, j)
    BY <2>2 DEF OnContext
  <2>7. IsList(m)
    <3>1. \A j \in 1..Len(l.rules) : ~OnContext(m, j) => c[j] = "inactive"
      BY <1>2, <2>0, <2>3, <2>5, <2>6 DEF IsList
    <3>2. DOMAIN l.rules = 1..Len(l.rules)
      BY <2>3
    <3>3. QED
      BY <2>2, <2>3, <2>5, <3>1, <3>2 DEF IsList
  <2>8. \A j \in DOMAIN c : c[j] \in {"inactive", "unset"}
    BY <2>0, <2>3, <2>5
  <2>9. HasEvents(m)
    BY <2>0, <2>2 DEF HasEvents, IsEvent
  <2>10. \A k \in Keys : Listeners(m, k) = IF k = key THEN Listeners(l, k) \cup {i} ELSE Listeners(l, k)
    <3>1. DOMAIN l.rules = 1..Len(l.rules)
      BY ONLY <2>3
    <3>2. PICK all : all = 1..Len(l.rules)
      OBVIOUS
    <3>3. \A k : Listeners(m, k) =
            {j \in all : OnContext(l, j) /\ l.rules[j].key = k /\ c[j] # "inactive"}
      BY ONLY <2>2, <2>6, <3>1, <3>2 DEF Listeners
    <3>4. \A k : Listeners(l, k) =
            {j \in all : OnContext(l, j) /\ l.rules[j].key = k /\ l.cache[j] # "inactive"}
      BY ONLY <3>1, <3>2 DEF Listeners
    <3>5. /\ i \in all /\ OnContext(l, i) /\ c[i] # "inactive"
          /\ \A j \in all : j # i => c[j] = l.cache[j]
      BY <1>2, <2>5, <3>2
    <3>6. ASSUME NEW k \in Keys, NEW j
          PROVE  j \in Listeners(m, k) <=> j \in Listeners(l, k) \/ (k = key /\ j = i)
      <4>1. j \in Listeners(m, k) <=>
              j \in all /\ OnContext(l, j) /\ l.rules[j].key = k /\ c[j] # "inactive"
        BY ONLY <3>3, Zenon
      <4>2. j \in Listeners(l, k) <=>
              j \in all /\ OnContext(l, j) /\ l.rules[j].key = k /\ l.cache[j] # "inactive"
        BY ONLY <3>4, Zenon
      <4>3. CASE j = i
        BY ONLY <3>5, <4>1, <4>2, <4>3
      <4>4. CASE j # i
        BY ONLY <3>5, <4>1, <4>2, <4>4
      <4>5. QED
        BY ONLY <4>3, <4>4
    <3> HIDE DEF key
    <3>7. QED
      BY ONLY <3>6
  <2>11. i \notin Listeners(l, key)
    BY <1>2 DEF Listeners
  <2>12. /\ u = [k \in Keys |-> u[k]] /\ u[key] = Append(l.subs[key], [list |-> l.id, rule |-> i])
         /\ \A k \in Keys : k # key => u[k] = l.subs[k]
    BY <2>0, <2>4
  <2> HIDE DEF u, key
  <2>13. ASSUME NEW k \in Keys
         PROVE  Registered(m, u[k], Len(s[k]), k)
    <3>1. Registered(l, l.subs[k], Len(s[k]), k)
      BY <2>0
    <3>2. CASE k = key
      <4>1. Listeners(m, k) = Listeners(l, k) \cup {i} /\ i \notin Listeners(l, k) /\ i \in Nat
        BY <2>10, <2>11, <3>2
      <4>2. u[k] = Append(l.subs[k], [list |-> l.id, rule |-> i])
        BY <2>12, <3>2
      <4>3. m.id = l.id /\ l.id \in Nat
        BY ONLY <2>2, <2>3
      <4>4. QED
        BY ONLY <3>1, <4>1, <4>2, <4>3, OneMoreRegistered
    <3>3. CASE k # key
      <4>1. Listeners(m, k) = Listeners(l, k) /\ u[k] = l.subs[k] /\ m.id = l.id
        BY <2>2, <2>10, <2>12, <3>3
      <4>2. QED
        BY ONLY <3>1, <4>1 DEF Registered
    <3>4. QED
      BY <3>2, <3>3
  <2>14. InTheMaking(m, s)
    BY <2>2, <2>7, <2>8, <2>9, <2>12, <2>13 DEF InTheMaking
  <2>15. Subscribed(m, l)
    BY <2>2, <2>3, <2>5 DEF Subscribed
  <2>16. m.cache[i] # "inactive"
    BY <2>2, <2>5
  <2>17. QED
    BY <2>14, <2>15, <2>16 DEF m
<1>3. QED
  BY <1>1, <1>2

LEMMA SubscribeFacts ==
  ASSUME NEW s, NEW l, InTheMaking(l, s), NEW ids \in Seq(1..Len(l.rules))
  PROVE  /\ InTheMaking(Subscribe(l, ids), s) /\ Subscribed(Subscribe(l, ids), l)
         /\ \A q \in DOMAIN ids : OnContext(l, ids[q]) => Subscribe(l, ids).cache[ids[q]] # "inactive"
<1> DEFINE g == CHOOSE h : Listening(l, ids, Len(ids), h)
           Done(n, m) ==
             /\ InTheMaking(m, s) /\ Subscribed(m, l)
             /\ \A q \in 1..n : OnContext(l, ids[q]) => m.cache[ids[q]] # "inactive"
<1>1. Listening(l, ids, Len(ids), g)
  BY ListeningExists, Zenon
<1>2. Subscribe(l, ids) = g[Len(ids)]
  BY DEF Subscribe, Through, Listening
<1> HIDE DEF g
<1> DEFINE T == {m \in Nat : m <= Len(ids) => Done(m, g[m])}
<1>3. \A n \in 0..Len(ids) :
        g[n] = IF n = 0 THEN l ELSE SubscribeRule(g[n - 1], ids[n])
  BY <1>1 DEF Listening
<1>4. 0 \in T
  <2>1. g[0] = l
    BY <1>3
  <2>2. Done(0, l)
    BY DEF Subscribed
  <2>3. QED
    BY <2>1, <2>2
<1>5. ASSUME NEW m \in Nat, m \in T
      PROVE  m + 1 \in T
  <2>1. SUFFICES ASSUME m + 1 <= Len(ids)
                 PROVE  Done(m + 1, g[m + 1])
    <3> HIDE DEF Done
    <3>1. QED
      BY m + 1 \in Nat
  <2> DEFINE i == ids[m + 1]
  <2>2. InTheMaking(g[m], s) /\ Subscribed(g[m], l)
        /\ (\A q \in 1..m : OnContext(l, ids[q]) => g[m].cache[ids[q]] # "inactive")
    BY <1>5, <2>1
  <2>3. m + 1 \in 0..Len(ids) /\ m + 1 # 0 /\ (m + 1) - 1 = m /\ i \in 1..Len(l.rules)
    BY <2>1
  <2>4. g[m + 1] = SubscribeRule(g[m], i)
    BY <1>3, <2>3
  <2>5. g[m].rules = l.rules /\ g[m].id = l.id /\ g[m].events = l.events
    BY <2>2 DEF Subscribed
  <2>6. /\ InTheMaking(g[m + 1], s) /\ Subscribed(g[m + 1], g[m])
        /\ OnContext(g[m], i) => g[m + 1].cache[i] # "inactive"
    BY <2>2, <2>3, <2>4, <2>5, SubscribeRuleFacts
  <2>7. Subscribed(g[m + 1], l)
    BY <2>2, <2>5, <2>6 DEF Subscribed
  <2>8. ASSUME NEW q \in 1..(m + 1), OnContext(l, ids[q])
        PROVE  g[m + 1].cache[ids[q]] # "inactive"
    <3>1. CASE q = m + 1
      BY <2>5, <2>6, <2>8, <3>1 DEF OnContext
    <3>2. CASE q # m + 1
      <4>1. q \in 1..m /\ ids[q] \in DOMAIN l.rules
        <5>1. l.rules \in Seq(Rules)
          BY DEF InTheMaking, IsList
        <5>2. QED
          BY <2>1, <3>2, <5>1
      <4>2. g[m].cache[ids[q]] # "inactive"
        BY <2>2, <2>8, <4>1
      <4>3. QED
        BY <2>5, <2>6, <4>1, <4>2 DEF Subscribed
    <3>3. QED
      BY <3>1, <3>2
  <2>9. QED
    BY <2>6, <2>7, <2>8
<1>6. Nat \subseteq T
  <2> HIDE DEF T
  <2>1. QED
    BY <1>4, <1>5, SetInduction
<1>7. Len(ids) \in T
  BY <1>6
<1>8. DOMAIN ids = 1..Len(ids)
  OBVIOUS
<1>9. QED
  BY <1>2, <1>7, <1>8

-----------------------------------------------------------------------------
(* Adding groups.                                                          *)

LEMMA BaseFacts ==
  ASSUME NEW s, NEW l, InTheMaking(l, s), AllAttached(l), NEW m, Extends(m, l),
         NEW base, base = [l EXCEPT !.rules = m.rules, !.cache = m.cache]
  PROVE  /\ base.id = l.id /\ base.rules = m.rules /\ base.events = l.events
         /\ InTheMaking(base, s) /\ AllAttached(base)
<1> DEFINE n == Len(l.rules)
<1>1. /\ l = [id |-> l.id, rules |-> l.rules, cache |-> l.cache, subs |-> l.subs, events |-> l.events]
      /\ IsList(l) /\ HasEvents(l)
      /\ l.subs = [k \in Keys |-> l.subs[k]]
      /\ \A j \in DOMAIN l.cache : l.cache[j] \in {"inactive", "unset"}
      /\ \A k \in Keys : Registered(l, l.subs[k], Len(s[k]), k)
  BY DEF InTheMaking
<1>2. /\ base.id = l.id /\ base.rules = m.rules /\ base.cache = m.cache
      /\ base.subs = l.subs /\ base.events = l.events
      /\ base = [id |-> base.id, rules |-> base.rules, cache |-> base.cache,
                 subs |-> base.subs, events |-> base.events]
  <2>1. base = [id |-> l.id, rules |-> m.rules, cache |-> m.cache, subs |-> l.subs, events |-> l.events]
    BY ONLY <1>1, base = [l EXCEPT !.rules = m.rules, !.cache = m.cache]
  <2>2. QED
    BY ONLY <2>1
<1>3. /\ l.rules \in Seq(Rules) /\ l.cache \in Seq(Answers) /\ Len(l.cache) = n /\ l.id \in Nat
      /\ n \in Nat
      /\ \A i \in 1..n : ~OnContext(l, i) => l.cache[i] = "inactive"
  BY <1>1 DEF IsList
<1>4. /\ m.rules \in Seq(Rules) /\ m.cache \in Seq(Answers) /\ Len(m.cache) = Len(m.rules)
      /\ n <= Len(m.rules) /\ Len(m.rules) \in Nat
      /\ \A i \in 1..n : m.rules[i] = l.rules[i] /\ m.cache[i] = l.cache[i]
      /\ \A i \in (n + 1)..Len(m.rules) : m.cache[i] = "inactive"
  BY DEF Extends
<1> HIDE DEF n
<1>5. \A i \in 1..n : OnContext(base, i) <=> OnContext(l, i)
  BY <1>2, <1>4 DEF OnContext
<1>6. \A i \in 1..Len(m.rules) : i \in 1..n \/ m.cache[i] = "inactive"
  BY <1>3, <1>4
<1>7. DOMAIN m.rules = 1..Len(m.rules) /\ DOMAIN m.cache = 1..Len(m.rules) /\ DOMAIN l.rules = 1..n
      /\ DOMAIN l.cache = 1..n /\ 1..n \subseteq 1..Len(m.rules)
  BY <1>3, <1>4 DEF n
<1>8. IsList(base)
  <2>1. \A i \in 1..Len(m.rules) : ~OnContext(base, i) => m.cache[i] = "inactive"
    BY <1>3, <1>4, <1>5, <1>6
  <2>2. QED
    BY <1>2, <1>3, <1>4, <1>7, <2>1 DEF IsList
<1>9. HasEvents(base)
  <2>1. ASSUME NEW e, IsEvent(l, e)
        PROVE  IsEvent(base, e)
    BY <1>2, <1>3, <1>4, <2>1, LongerIds DEF IsEvent, n
  <2>2. QED
    BY <1>1, <1>2, <2>1 DEF HasEvents
<1>10. AllAttached(base)
  <2>1. ASSUME NEW e, IsEvent(l, e), Attached(l, e)
        PROVE  Attached(base, e)
    <3>1. \A q \in DOMAIN e.rules : e.rules[q] \in 1..n
      BY <2>1 DEF IsEvent, n
    <3>2. QED
      BY <1>2, <1>4, <1>5, <2>1, <3>1 DEF Attached
  <2>2. QED
    BY <1>1, <1>2, <2>1 DEF AllAttached, HasEvents
<1>11. \A k \in Keys : Listeners(base, k) = Listeners(l, k)
  <2>1. ASSUME NEW k \in Keys, NEW i \in 1..Len(m.rules)
        PROVE  i \in Listeners(base, k) <=> i \in Listeners(l, k)
    BY <1>2, <1>4, <1>5, <1>6, <1>7 DEF Listeners
  <2>2. \A k \in Keys : Listeners(base, k) \subseteq 1..Len(m.rules) /\ Listeners(l, k) \subseteq 1..Len(m.rules)
    BY <1>2, <1>7 DEF Listeners
  <2>3. QED
    BY <2>1, <2>2
<1>12. \A k \in Keys : Registered(base, base.subs[k], Len(s[k]), k)
  BY <1>1, <1>2, <1>11 DEF Registered
<1>13. \A j \in DOMAIN base.cache : base.cache[j] \in {"inactive", "unset"}
  BY <1>1, <1>2, <1>4, <1>6, <1>7
<1>14. InTheMaking(base, s)
  BY <1>1, <1>2, <1>8, <1>9, <1>12, <1>13 DEF InTheMaking
<1>15. QED
  BY <1>2, <1>10, <1>14

LEMMA SortedIds ==
  ASSUME NEW l, NEW ids \in Seq(1..Len(l.rules))
  PROVE  ContextFirst(l, ids) \in Seq(1..Len(l.rules))
<1> DEFINE E == {i \in DOMAIN l.rules : OnContext(l, i)}
<1>1. Only(ids, E) \in Seq(1..Len(l.rules)) /\ Only(ids, DOMAIN l.rules \ E) \in Seq(1..Len(l.rules))
  BY OnlyFacts
<1>2. ContextFirst(l, ids) = Only(ids, E) \o Only(ids, DOMAIN l.rules \ E)
  BY DEF ContextFirst
<1>3. QED
  BY ONLY <1>1, <1>2

\* The events of one name are replaced by other events.
WithEvents(l, name, ev) == [l EXCEPT !.events[name] = ev]

LEMMA EventsChange ==
  ASSUME NEW s, NEW l, InTheMaking(l, s), NEW name \in Names, NEW ev,
         ev \in Seq(ToSet(ev)), \A e \in ToSet(ev) : IsEvent(l, e)
  PROVE  LET m == WithEvents(l, name, ev)
         IN  /\ InTheMaking(m, s)
             /\ m.id = l.id /\ m.rules = l.rules /\ m.cache = l.cache /\ m.events[name] = ev
             /\ \A n \in Names \ {name} : m.events[n] = l.events[n]
<1> DEFINE u == [l.events EXCEPT ![name] = ev]
           m == WithEvents(l, name, ev)
<1>1. /\ l = [id |-> l.id, rules |-> l.rules, cache |-> l.cache, subs |-> l.subs, events |-> l.events]
      /\ IsList(l) /\ HasEvents(l)
      /\ l.subs = [k \in Keys |-> l.subs[k]]
      /\ \A j \in DOMAIN l.cache : l.cache[j] \in {"inactive", "unset"}
      /\ \A k \in Keys : Registered(l, l.subs[k], Len(s[k]), k)
  BY DEF InTheMaking
<1>2. m = [id |-> l.id, rules |-> l.rules, cache |-> l.cache, subs |-> l.subs, events |-> u]
  BY ONLY <1>1 DEF WithEvents
<1> HIDE DEF u, m
<1>3. /\ m.id = l.id /\ m.rules = l.rules /\ m.cache = l.cache
      /\ m.subs = l.subs /\ m.events = u
      /\ m = [id |-> m.id, rules |-> m.rules, cache |-> m.cache, subs |-> m.subs, events |-> m.events]
  BY ONLY <1>2
<1>4. /\ l.events = [n \in Names |-> l.events[n]]
      /\ \A n \in Names : /\ l.events[n] \in Seq(ToSet(l.events[n]))
                          /\ \A e \in ToSet(l.events[n]) : IsEvent(l, e)
  BY <1>1 DEF HasEvents
<1>5. u = [n \in Names |-> u[n]] /\ u[name] = ev /\ \A n \in Names \ {name} : u[n] = l.events[n]
  BY <1>4 DEF u
<1>6. \A e : IsEvent(l, e) => IsEvent(m, e)
  BY <1>3 DEF IsEvent
<1>7. HasEvents(m)
  <2>1. ASSUME NEW n \in Names
        PROVE  u[n] \in Seq(ToSet(u[n])) /\ \A e \in ToSet(u[n]) : IsEvent(m, e)
    <3>1. CASE n = name
      BY <1>5, <1>6, <3>1
    <3>2. CASE n # name
      BY <1>4, <1>5, <1>6, <3>2
    <3>3. QED
      BY <3>1, <3>2
  <2>2. QED
    BY <1>3, <1>5, <2>1 DEF HasEvents
<1>8. IsList(m)
  BY <1>1, <1>3 DEF IsList, OnContext
<1>9. \A k \in Keys : Registered(m, m.subs[k], Len(s[k]), k)
  <2>1. \A k : Listeners(m, k) = Listeners(l, k)
    BY <1>3 DEF Listeners, OnContext
  <2>2. m.id = l.id /\ m.subs = l.subs /\ \A k \in Keys : Registered(l, l.subs[k], Len(s[k]), k)
    BY <1>1, <1>3
  <2>3. QED
    BY ONLY <2>1, <2>2 DEF Registered
<1>10. InTheMaking(m, s)
  BY <1>1, <1>3, <1>7, <1>8, <1>9 DEF InTheMaking
<1>11. QED
  BY <1>3, <1>5, <1>10 DEF m

\* When all other events are attached, a subscription attaches all.
LEMMA SubscribeAttaches ==
  ASSUME NEW s, NEW l, InTheMaking(l, s), NEW ids \in Seq(1..Len(l.rules)),
         \A n \in Names : \A e \in ToSet(l.events[n]) : Attached(l, e) \/ e.rules = ids
  PROVE  /\ InTheMaking(Subscribe(l, ids), s) /\ AllAttached(Subscribe(l, ids))
         /\ Subscribed(Subscribe(l, ids), l)
<1> DEFINE m == Subscribe(l, ids)
<1>1. /\ InTheMaking(m, s) /\ Subscribed(m, l)
      /\ \A q \in DOMAIN ids : OnContext(l, ids[q]) => m.cache[ids[q]] # "inactive"
  BY SubscribeFacts
<1> HIDE DEF m
<1>2. /\ m.id = l.id /\ m.rules = l.rules /\ m.events = l.events
      /\ \A j \in DOMAIN l.rules : l.cache[j] # "inactive" => m.cache[j] # "inactive"
  BY <1>1 DEF Subscribed
<1>3. ASSUME NEW n \in Names, NEW e \in ToSet(l.events[n])
      PROVE  Attached(m, e)
  <2>1. CASE Attached(l, e)
    <3>1. \A q \in DOMAIN e.rules : e.rules[q] \in DOMAIN l.rules
      <4>1. e.rules \in Seq(1..Len(l.rules)) /\ l.rules \in Seq(Rules)
        BY DEF InTheMaking, HasEvents, IsEvent, IsList
      <4>2. QED
        BY ONLY <4>1
    <3>2. QED
      BY <1>2, <2>1, <3>1 DEF Attached, OnContext
  <2>2. CASE e.rules = ids
    BY <1>1, <1>2, <2>2 DEF Attached, OnContext
  <2>3. QED
    BY <2>1, <2>2
<1>4. AllAttached(m)
  BY <1>2, <1>3 DEF AllAttached
<1>5. QED
  BY <1>1, <1>4 DEF m

LEMMA ConcatMembers ==
  ASSUME NEW a, NEW b, NEW S, a \in Seq(S), b \in Seq(S), NEW e \in S
  PROVE  /\ Append(a, e) \o b \in Seq(S)
         /\ Append(a, e) \o b # <<>>
<1>1. Append(a, e) \in Seq(S) /\ Len(Append(a, e)) > 0
  OBVIOUS
<1>2. PICK c \in Seq(S) : c = Append(a, e) /\ Len(c) > 0
  BY <1>1
<1>3. c \o b \in Seq(S) /\ Len(c \o b) > 0
  BY <1>2
<1>4. QED
  BY <1>2, <1>3

LEMMA InsertedFacts ==
  ASSUME NEW l, NEW events, events \in Seq(ToSet(events)), NEW e
  PROVE  LET new == Inserted(l, events, e)
         IN  new \in Seq(ToSet(new)) /\ ToSet(new) \subseteq ToSet(events) \cup {e} /\ new # <<>>
<1> DEFINE after == {x \in ToSet(events) : Before(l, e, x)}
           S == ToSet(events) \cup {e}
           a == Only(events, ToSet(events) \ after)
           b == Only(events, after)
           new == Inserted(l, events, e)
<1>1. a \in Seq(ToSet(events)) /\ b \in Seq(ToSet(events))
  BY OnlyFacts
<1>2. new = Append(a, e) \o b
  BY DEF Inserted
<1> HIDE DEF a, b, new
<1>3. ToSet(a) \subseteq S /\ ToSet(b) \subseteq S /\ a \in Seq(ToSet(a)) /\ b \in Seq(ToSet(b))
  BY <1>1, OwnMembers
<1>4. a \in Seq(S) /\ b \in Seq(S) /\ e \in S
  BY <1>3, MembersIn
<1>5. new \in Seq(S) /\ new # <<>>
  BY <1>2, <1>4, ConcatMembers
<1>6. QED
  BY <1>5, OwnMembers DEF new

LEMMA RemovedFacts ==
  ASSUME NEW events, events \in Seq(ToSet(events)), NEW p \in 1..Len(events)
  PROVE  LET new == RemoveAt(events, p)
         IN  new \in Seq(ToSet(new)) /\ ToSet(new) \subseteq ToSet(events)
<1> DEFINE S == ToSet(events)
           a == SubSeq(events, 1, p - 1)
           b == SubSeq(events, p + 1, Len(events))
<1>1. Len(events) \in Nat /\ p \in 1..Len(events)
  OBVIOUS
<1>2. a \in Seq(S)
  <2>1. 1 \in 1..(Len(events) + 1) /\ p - 1 \in (1 - 1)..Len(events)
    BY <1>1
  <2> HIDE DEF S
  <2>2. events \in Seq(S)
    BY DEF S
  <2>3. QED
    BY ONLY <2>1, <2>2, SubSeqProperties
<1>3. b \in Seq(S)
  <2>1. p + 1 \in 1..(Len(events) + 1) /\ Len(events) \in ((p + 1) - 1)..Len(events)
    BY <1>1
  <2> HIDE DEF S
  <2>2. events \in Seq(S)
    BY DEF S
  <2>3. QED
    BY ONLY <2>1, <2>2, SubSeqProperties
<1>4. RemoveAt(events, p) \in Seq(S)
  <2> HIDE DEF a, b, S
  <2>1. a \o b \in Seq(S)
    BY <1>2, <1>3
  <2>2. RemoveAt(events, p) = a \o b
    BY DEF RemoveAt, a, b
  <2>3. QED
    BY <2>1, <2>2
<1>5. QED
  BY <1>4, OwnMembers

\* What AddGroup makes of a list: another, with the events that it had and that
\* of the group.
LEMMA AddGroupFacts ==
  ASSUME NEW s, NEW l, InTheMaking(l, s), AllAttached(l),
         NEW g, g.name \in Names, g.rules \in Seq(Rules)
  PROVE  /\ InTheMaking(AddGroup(l, g), s) /\ AllAttached(AddGroup(l, g))
         /\ AddGroup(l, g).id = l.id
         /\ ~g.unsetEvent => AddGroup(l, g).events[g.name] # <<>>
<1> DEFINE merged == MergeRules(l, g.rules)
           base   == [l EXCEPT !.rules = merged.rules, !.cache = merged.cache]
           ids    == ContextFirst(base, merged.ids)
           events == l.events[g.name]
           same   == SelectInSeq(events, LAMBDA e : RulesEqual(e.rules, ids))
           fresh  == [rules |-> ids, prio |-> g.prio, props |-> g.props]
           new    == [base EXCEPT !.events[g.name] = Inserted(base, events, fresh)]
           less   == [base EXCEPT !.events[g.name] = RemoveAt(events, same)]
           layer  == [events EXCEPT ![same].props = Layered(@, g)]
           more   == [base EXCEPT !.events[g.name] = layer]
<1>1. AddGroup(l, g) =
        IF same = 0 THEN Subscribe(new, ids)
        ELSE IF g.unsetEvent THEN less ELSE Subscribe(more, events[same].rules)
  BY DEF AddGroup
<1>2. Extends(merged, l)
  BY MergeExtends DEF InTheMaking
<1> HIDE DEF merged
<1>3. /\ base.id = l.id /\ base.rules = merged.rules /\ base.events = l.events
      /\ InTheMaking(base, s) /\ AllAttached(base)
  BY <1>2, BaseFacts
<1> HIDE DEF base
<1>4. ids \in Seq(1..Len(base.rules))
  <2>1. merged.ids \in Seq(1..Len(base.rules))
    BY <1>2, <1>3 DEF Extends
  <2>2. QED
    BY <2>1, SortedIds
<1> HIDE DEF ids
<1>5. /\ events = base.events[g.name] /\ events \in Seq(ToSet(events))
      /\ \A e \in ToSet(events) : IsEvent(base, e) /\ Attached(base, e)
  BY <1>3 DEF InTheMaking, HasEvents, AllAttached
<1>6. same \in 0..Len(events)
  <2> DEFINE I == {i \in 1..Len(events) : RulesEqual(events[i].rules, ids)}
  <2>1. same = IF I # {} THEN Min(I) ELSE 0
    BY DEF SelectInSeq
  <2>2. Len(events) \in Nat /\ I \subseteq 1..Len(events)
    BY <1>5
  <2> HIDE DEF same, I, events
  <2>3. same \in {0} \cup I
    BY <2>1, <2>2, FirstPlace
  <2>4. QED
    BY <2>2, <2>3
<1> HIDE DEF same, events
\* In each case the events of other names stay.
<1>7. ASSUME NEW m, m.rules = base.rules, m.cache = base.cache,
             \A n \in Names \ {g.name} : m.events[n] = base.events[n],
             NEW n \in Names \ {g.name}, NEW e \in ToSet(m.events[n])
      PROVE  Attached(m, e)
  BY <1>3, <1>7 DEF AllAttached, Attached, OnContext
<1>8. CASE same = 0
  <2> DEFINE ev == Inserted(base, events, fresh)
  <2>1. ev \in Seq(ToSet(ev)) /\ ToSet(ev) \subseteq ToSet(events) \cup {fresh} /\ ev # <<>>
    BY <1>5, InsertedFacts
  <2>2. IsEvent(base, fresh) /\ fresh.rules = ids
    BY <1>4 DEF IsEvent
  <2> HIDE DEF ev, fresh
  <2>3. \A e \in ToSet(ev) : IsEvent(base, e) /\ (Attached(base, e) \/ e.rules = ids)
    BY <1>5, <2>1, <2>2
  <2>4. new = WithEvents(base, g.name, ev)
    BY DEF ev, WithEvents
  <2> HIDE DEF new
  <2>5. /\ InTheMaking(new, s)
        /\ new.id = base.id /\ new.rules = base.rules /\ new.cache = base.cache
        /\ new.events[g.name] = ev
        /\ \A n \in Names \ {g.name} : new.events[n] = base.events[n]
    BY <1>3, <2>1, <2>3, <2>4, EventsChange
  <2>6. \A n \in Names : \A e \in ToSet(new.events[n]) : Attached(new, e) \/ e.rules = ids
    <3>1. ASSUME NEW e \in ToSet(ev)
          PROVE  Attached(new, e) \/ e.rules = ids
      BY <2>3, <2>5 DEF Attached, OnContext
    <3>2. QED
      BY <1>7, <2>5, <3>1
  <2>7. /\ InTheMaking(Subscribe(new, ids), s) /\ AllAttached(Subscribe(new, ids))
        /\ Subscribed(Subscribe(new, ids), new)
    BY <1>4, <2>5, <2>6, SubscribeAttaches
  <2>8. AddGroup(l, g) = Subscribe(new, ids)
    BY <1>1, <1>8
  <2>9. QED
    BY <1>3, <2>1, <2>5, <2>7, <2>8 DEF Subscribed
<1>9. CASE same # 0 /\ g.unsetEvent
  <2> DEFINE ev == RemoveAt(events, same)
  <2>1. ev \in Seq(ToSet(ev)) /\ ToSet(ev) \subseteq ToSet(events)
    <3>1. same \in 1..Len(events)
      BY <1>6, <1>9
    <3>2. QED
      BY <1>5, <3>1, RemovedFacts
  <2>2. less = WithEvents(base, g.name, ev)
    BY DEF WithEvents
  <2> HIDE DEF ev, less
  <2>3. \A e \in ToSet(ev) : IsEvent(base, e) /\ Attached(base, e)
    BY <1>5, <2>1
  <2>4. /\ InTheMaking(less, s)
        /\ less.id = base.id /\ less.rules = base.rules /\ less.cache = base.cache
        /\ less.events[g.name] = ev
        /\ \A n \in Names \ {g.name} : less.events[n] = base.events[n]
    BY <1>3, <2>1, <2>2, <2>3, EventsChange
  <2>5. \A e \in ToSet(ev) : Attached(less, e)
    BY <2>3, <2>4 DEF Attached, OnContext
  <2>6. AllAttached(less)
    BY <1>7, <2>4, <2>5 DEF AllAttached
  <2>7. AddGroup(l, g) = less
    BY <1>1, <1>9
  <2>8. QED
    BY <1>3, <1>9, <2>4, <2>6, <2>7
<1>10. CASE same # 0 /\ ~g.unsetEvent
  <2> DEFINE old == events[same]
             e1  == [rules |-> old.rules, prio |-> old.prio, props |-> Layered(old.props, g)]
             ev  == [events EXCEPT ![same] = e1]
  <2>1. same \in 1..Len(events)
    BY <1>6, <1>10
  <2>2. old \in ToSet(events) /\ IsEvent(base, old)
    BY <1>5, <2>1 DEF ToSet
  <2>3. old = [rules |-> old.rules, prio |-> old.prio, props |-> old.props]
        /\ old.rules \in Seq(1..Len(base.rules))
    BY <2>2 DEF IsEvent
  <2>4. more = WithEvents(base, g.name, ev)
    <3>1. [old EXCEPT !.props = Layered(@, g)] = e1
      BY ONLY <2>3
    <3>2. layer = [events EXCEPT ![same] = [old EXCEPT !.props = Layered(@, g)]]
      OBVIOUS
    <3>3. QED
      BY <3>1, <3>2 DEF WithEvents
  <2> HIDE DEF more
  <2>5. IsEvent(base, e1) /\ e1.rules = old.rules
    BY <2>3 DEF IsEvent
  <2> HIDE DEF e1
  <2>6. /\ Len(ev) = Len(events) /\ DOMAIN ev = 1..Len(events)
        /\ \A i \in DOMAIN ev : ev[i] = IF i = same THEN e1 ELSE events[i]
    BY <1>5, <2>1
  <2>7. ev = [i \in 1..Len(events) |-> ev[i]] /\ Len(events) \in Nat
    BY <1>5, <2>1
  <2> HIDE DEF ev
  <2>8. ToSet(ev) \subseteq ToSet(events) \cup {e1} /\ ev \in Seq(ToSet(ev)) /\ ev # <<>>
    <3>1. \A i \in 1..Len(events) : ev[i] \in ToSet(ev)
      BY <2>6 DEF ToSet
    <3>2. ev \in Seq(ToSet(ev))
      BY ONLY <2>7, <3>1
    <3>3. DOMAIN events = 1..Len(events)
      BY <1>5
    <3>4. \A i \in DOMAIN ev : ev[i] \in ToSet(events) \cup {e1}
      BY <2>6, <3>3 DEF ToSet
    <3>5. ToSet(ev) \subseteq ToSet(events) \cup {e1}
      BY <3>4 DEF ToSet
    <3>6. ev # <<>>
      BY <2>1, <2>6
    <3>7. QED
      BY <3>2, <3>5, <3>6
  <2>9. \A e \in ToSet(ev) : IsEvent(base, e) /\ (Attached(base, e) \/ e.rules = old.rules)
    BY <1>5, <2>5, <2>8
  <2>10. /\ InTheMaking(more, s)
         /\ more.id = base.id /\ more.rules = base.rules /\ more.cache = base.cache
         /\ more.events[g.name] = ev
         /\ \A n \in Names \ {g.name} : more.events[n] = base.events[n]
    BY <1>3, <2>4, <2>8, <2>9, EventsChange
  <2>11. \A n \in Names : \A e \in ToSet(more.events[n]) : Attached(more, e) \/ e.rules = old.rules
    <3>1. ASSUME NEW e \in ToSet(ev)
          PROVE  Attached(more, e) \/ e.rules = old.rules
      BY <2>9, <2>10 DEF Attached, OnContext
    <3>2. QED
      BY <1>7, <2>10, <3>1
  <2>12. old.rules \in Seq(1..Len(more.rules))
    BY <2>3, <2>10
  <2>13. /\ InTheMaking(Subscribe(more, old.rules), s) /\ AllAttached(Subscribe(more, old.rules))
         /\ Subscribed(Subscribe(more, old.rules), more)
    BY <2>10, <2>11, <2>12, SubscribeAttaches
  <2>14. AddGroup(l, g) = Subscribe(more, old.rules)
    BY <1>1, <1>10
  <2>15. QED
    BY <1>3, <2>8, <2>10, <2>13, <2>14 DEF Subscribed
<1>11. QED
  BY <1>8, <1>9, <1>10

LEMMA EmptyListFacts ==
  ASSUME NEW s, s = [k \in Keys |-> s[k]], \A k \in Keys : s[k] \in Seq(Subscribers), NEW id \in Nat
  PROVE  InTheMaking(EmptyList(id, s), s) /\ AllAttached(EmptyList(id, s)) /\ EmptyList(id, s).id = id
<1> DEFINE l == EmptyList(id, s)
<1>1. /\ l.id = id /\ l.rules = <<>> /\ l.cache = <<>> /\ l.subs = s
      /\ l.events = [n \in Names |-> <<>>]
      /\ l = [id |-> l.id, rules |-> l.rules, cache |-> l.cache, subs |-> l.subs, events |-> l.events]
  BY DEF EmptyList
<1> HIDE DEF l
<1>2. IsList(l)
  <2>1. <<>> \in Seq(Rules) /\ <<>> \in Seq(Answers) /\ DOMAIN <<>> = {} /\ Len(<<>>) = 0
    OBVIOUS
  <2>2. QED
    BY <1>1, <2>1 DEF IsList
<1>3. \A n \in Names : l.events[n] = <<>> /\ ToSet(<<>>) = {}
  BY <1>1 DEF ToSet
<1>4. HasEvents(l)
  <2>1. \A n \in Names : l.events[n] \in Seq(ToSet(l.events[n]))
    <3>1. <<>> \in Seq({})
      OBVIOUS
    <3>2. QED
      BY <1>3, <3>1
  <2>2. QED
    BY <1>1, <1>3, <2>1 DEF HasEvents
<1>5. \A k \in Keys : Registered(l, l.subs[k], Len(s[k]), k)
  <2> TAKE k \in Keys
  <2>1. Listeners(l, k) = {}
    BY <1>1 DEF Listeners
  <2>2. PICK n \in Nat : n = Len(s[k])
    OBVIOUS
  <2>3. (n + 1)..n = {}
    BY <2>2
  <2>4. QED
    BY <1>1, <2>1, <2>2, <2>3 DEF Registered
<1>6. InTheMaking(l, s) /\ AllAttached(l)
  BY <1>1, <1>2, <1>3, <1>4, <1>5 DEF InTheMaking, AllAttached
<1>7. QED
  BY <1>1, <1>6 DEF l

\* The groups of a file.
IsFile(groups) ==
  /\ groups \in Seq(ToSet(groups))
  /\ \A g \in ToSet(groups) : g.name \in Names /\ g.rules \in Seq(Rules)

LEMMA ConfigurationFiles ==
  ASSUME NEW c \in Boots \cup Files
  PROVE  IsFile(c.sys) /\ IsFile(c.user)
<1> SUFFICES ASSUME NEW groups \in {c.sys, c.user}
             PROVE  IsFile(groups)
  OBVIOUS
<1>1. groups \in Seq(ToSet(groups))
  BY FilesAssumption
<1>2. ASSUME NEW g \in ToSet(groups)
      PROVE  g.name \in Names /\ g.rules \in Seq(Rules)
  <2>1. g.name \in Names /\ g.rules \in Seq(ToSet(g.rules))
    BY FilesAssumption
  <2>2. ToSet(g.rules) \subseteq Rules
    BY DEF Rules
  <2>3. QED
    BY <2>1, <2>2, MembersIn
<1>3. QED
  BY <1>1, <1>2 DEF IsFile

\* Parsing a file makes a list of a list.
LEMMA ParseFacts ==
  ASSUME NEW s, NEW l, InTheMaking(l, s), AllAttached(l), NEW groups, IsFile(groups)
  PROVE  LET m == ParseEvents(l, groups)
         IN  /\ InTheMaking(m, s) /\ AllAttached(m) /\ m.id = l.id
             /\ groups = <<>> => m = l
             /\ groups # <<>> /\ (\A g \in ToSet(groups) : ~g.unsetEvent) => ~NoEvents(m)
<1> DEFINE g == CHOOSE h : Parsed(l, groups, Len(groups), h)
           Made(m) == InTheMaking(m, s) /\ AllAttached(m) /\ m.id = l.id
           n == Len(groups)
<1>0. groups \in Seq(ToSet(groups)) /\ n \in Nat
  BY DEF IsFile
<1>1. Parsed(l, groups, Len(groups), g)
  BY <1>0, ParsedExists, Zenon
<1>2. ParseEvents(l, groups) = g[n]
  BY DEF ParseEvents, Through, Parsed
<1> HIDE DEF g
<1> DEFINE T == {m \in Nat : m <= n => Made(g[m])}
<1>3. \A m \in 0..n : g[m] = IF m = 0 THEN l ELSE AddGroup(g[m - 1], groups[m])
  BY <1>1 DEF Parsed
<1>4. g[0] = l
  BY <1>0, <1>3
<1>5. ASSUME NEW m \in Nat, m + 1 <= n, Made(g[m])
      PROVE  /\ Made(g[m + 1])
             /\ groups[m + 1] \in ToSet(groups)
             /\ ~groups[m + 1].unsetEvent => ~NoEvents(g[m + 1])
  <2>1. m + 1 \in 0..n /\ m + 1 # 0 /\ (m + 1) - 1 = m /\ m + 1 \in DOMAIN groups
    BY <1>0, <1>5
  <2>2. g[m + 1] = AddGroup(g[m], groups[m + 1])
    BY <1>3, <2>1
  <2>3. groups[m + 1] \in ToSet(groups)
    BY <2>1 DEF ToSet
  <2>4. groups[m + 1].name \in Names /\ groups[m + 1].rules \in Seq(Rules)
    BY <2>3 DEF IsFile
  <2> DEFINE x == groups[m + 1]
             y == g[m]
  <2>5. InTheMaking(y, s) /\ AllAttached(y) /\ y.id = l.id /\ x.name \in Names /\ x.rules \in Seq(Rules)
    BY <1>5, <2>4
  <2> HIDE DEF x, y
  <2>6. /\ InTheMaking(AddGroup(y, x), s) /\ AllAttached(AddGroup(y, x))
        /\ AddGroup(y, x).id = l.id
        /\ ~x.unsetEvent => AddGroup(y, x).events[x.name] # <<>>
    BY <2>5, AddGroupFacts
  <2>7. ~x.unsetEvent => ~NoEvents(AddGroup(y, x))
    BY <2>5, <2>6 DEF NoEvents
  <2>8. QED
    BY <2>2, <2>3, <2>6, <2>7 DEF x, y
<1>6. Nat \subseteq T
  <2>1. 0 \in T
    BY <1>4
  <2>2. ASSUME NEW m \in Nat, m \in T
        PROVE  m + 1 \in T
    <3>1. SUFFICES ASSUME m + 1 <= n
                   PROVE  Made(g[m + 1])
      OBVIOUS
    <3>2. Made(g[m])
      BY <1>0, <2>2, <3>1
    <3>3. QED
      BY <1>5, <3>1, <3>2
  <2> HIDE DEF T
  <2>3. QED
    BY <2>1, <2>2, SetInduction
<1>7. \A m \in Nat : m <= n => Made(g[m])
  BY <1>6
<1>8. Made(g[n])
  BY <1>0, <1>7
<1>9. groups = <<>> => g[n] = l
  BY <1>4
<1>10. ASSUME groups # <<>>, \A x \in ToSet(groups) : ~x.unsetEvent
       PROVE  ~NoEvents(g[n])
  <2>1. n # 0
    BY <1>0, <1>10
  <2>2. PICK m \in Nat : m + 1 = n
    <3>1. n - 1 \in Nat /\ (n - 1) + 1 = n
      BY <1>0, <2>1
    <3>2. QED
      BY <3>1
  <2>3. Made(g[m]) /\ m + 1 <= n
    BY <1>0, <1>7, <2>2
  <2>4. ~groups[m + 1].unsetEvent => ~NoEvents(g[m + 1])
    BY <1>5, <2>3
  <2>5. groups[m + 1] \in ToSet(groups)
    BY <1>5, <2>3
  <2>6. QED
    BY <1>10, <2>2, <2>4, <2>5
<1>11. QED
  BY <1>2, <1>8, <1>9, <1>10

-----------------------------------------------------------------------------
(* The inductive invariant.                                                *)

\* An answer that is kept is the one the rule would get now.
Current ==
  \A i \in DOMAIN list.rules :
    list.cache[i] \in {"true", "false"} =>
      list.cache[i] = Truth(Matches(list.rules[i], values[list.rules[i].key]))

\* The list in use has the events of files, whose context rules are subscribed;
\* and the subscribers are the rules that listen, each once.
RulesInv ==
  /\ values \in [Keys -> Values \cup {NoValue}]
  /\ made \in 1..(MaxReloads + 1) /\ list.id \in 1..made
  /\ list = Body(list)
  /\ IsList(list) /\ HasEvents(list) /\ AllAttached(list)
  /\ subs = [k \in Keys |-> subs[k]]
  /\ \A k \in Keys : Registered(list, subs[k], 0, k)
  /\ Current

\* A list that was made, without the subscribers.
LEMMA BodyFacts ==
  ASSUME NEW s, NEW l, InTheMaking(l, s), AllAttached(l)
  PROVE  LET m == Body(l)
         IN  /\ m = Body(m) /\ m.id = l.id
             /\ IsList(m) /\ HasEvents(m) /\ AllAttached(m)
             /\ \A t, b : \A k \in Keys : Registered(l, t, b, k) => Registered(m, t, b, k)
             /\ \A i \in DOMAIN m.rules : m.cache[i] \notin {"true", "false"}
<1> DEFINE m == Body(l)
<1>1. /\ m.id = l.id /\ m.rules = l.rules /\ m.cache = l.cache /\ m.events = l.events
      /\ m = Body(m)
  BY DEF Body
<1> HIDE DEF m
<1>2. /\ IsList(l) /\ HasEvents(l)
      /\ \A i \in DOMAIN l.cache : l.cache[i] \in {"inactive", "unset"}
  BY DEF InTheMaking
<1>3. IsList(m)
  BY <1>1, <1>2 DEF IsList, OnContext
<1>4. HasEvents(m)
  BY <1>1, <1>2 DEF HasEvents, IsEvent
<1>5. AllAttached(m)
  BY <1>1 DEF AllAttached, Attached, OnContext
<1>6. \A k : Listeners(m, k) = Listeners(l, k)
  BY <1>1 DEF Listeners, OnContext
<1>7. ASSUME NEW t, NEW b, NEW k \in Keys, Registered(l, t, b, k)
      PROVE  Registered(m, t, b, k)
  <2>1. Listeners(m, k) = Listeners(l, k) /\ m.id = l.id
    BY <1>1, <1>6
  <2>2. QED
    BY ONLY <1>7, <2>1 DEF Registered
<1>8. \A i \in DOMAIN m.rules : m.cache[i] \notin {"true", "false"}
  <2>1. DOMAIN l.rules = DOMAIN l.cache
    BY <1>2 DEF IsList
  <2>2. QED
    BY <1>1, <1>2, <2>1
<1>9. QED
  BY <1>1, <1>3, <1>4, <1>5, <1>7, <1>8 DEF m

LEMMA InitHolds == Init => RulesInv
<1> SUFFICES ASSUME Init
             PROVE  RulesInv
  OBVIOUS
<1> DEFINE nobody == [k \in Keys |-> <<>>]
           l0 == EmptyList(1, nobody)
           l1 == ParseEvents(l0, config.sys)
           l2 == ParseEvents(l1, config.user)
<1>1. config \in Boots /\ list = Body(l2) /\ subs = l2.subs /\ made = 1
      /\ values = [k \in Keys |-> NoValue]
  BY DEF Init
<1>2. InTheMaking(l0, nobody) /\ AllAttached(l0) /\ l0.id = 1
  <2>1. \A k \in Keys : nobody[k] \in Seq(Subscribers)
    OBVIOUS
  <2>2. nobody = [k \in Keys |-> nobody[k]]
    OBVIOUS
  <2> HIDE DEF nobody
  <2>3. QED
    BY <2>1, <2>2, EmptyListFacts
<1>3. IsFile(config.sys) /\ IsFile(config.user)
  BY <1>1, ConfigurationFiles
<1>4. \A k \in Keys : Len(nobody[k]) = 0
  OBVIOUS
<1> HIDE DEF l0, nobody
<1>5. InTheMaking(l1, nobody) /\ AllAttached(l1) /\ l1.id = 1
  BY <1>2, <1>3, ParseFacts
<1> HIDE DEF l1
<1>6. InTheMaking(l2, nobody) /\ AllAttached(l2) /\ l2.id = 1
  BY <1>3, <1>5, ParseFacts
<1> HIDE DEF l2
<1>7. /\ list = Body(list) /\ list.id = 1
      /\ IsList(list) /\ HasEvents(list) /\ AllAttached(list)
      /\ \A t, b : \A k \in Keys : Registered(l2, t, b, k) => Registered(list, t, b, k)
      /\ \A i \in DOMAIN list.rules : list.cache[i] \notin {"true", "false"}
  BY <1>1, <1>6, BodyFacts
<1>8. subs = [k \in Keys |-> subs[k]] /\ \A k \in Keys : Registered(list, subs[k], 0, k)
  BY <1>1, <1>4, <1>6, <1>7 DEF InTheMaking
<1>9. made \in 1..(MaxReloads + 1) /\ list.id \in 1..made
  BY <1>1, <1>7, ReloadAssumption
<1>10. values \in [Keys -> Values \cup {NoValue}]
  BY <1>1
<1>11. Current
  BY <1>7 DEF Current
<1>12. QED
  BY <1>7, <1>8, <1>9, <1>10, <1>11 DEF RulesInv

\* Other answers in the caches, of the rules that have a cache in use.
LEMMA AnswersChange ==
  ASSUME RulesInv, NEW c, c = [i \in 1..Len(list.rules) |-> c[i]],
         \A i \in 1..Len(list.rules) :
           /\ c[i] \in Answers
           /\ c[i] = "inactive" <=> list.cache[i] = "inactive",
         list' = [list EXCEPT !.cache = c], subs' = subs
  PROVE  /\ list'.id = list.id /\ list'.rules = list.rules /\ list'.cache = c
         /\ list' = Body(list')
         /\ IsList(list') /\ HasEvents(list') /\ AllAttached(list')
         /\ subs' = [k \in Keys |-> subs'[k]]
         /\ \A k \in Keys : Registered(list', subs'[k], 0, k)
<1> DEFINE n == Len(list.rules)
<1>1. /\ list = Body(list) /\ IsList(list) /\ HasEvents(list) /\ AllAttached(list)
      /\ subs = [k \in Keys |-> subs[k]] /\ \A k \in Keys : Registered(list, subs[k], 0, k)
  BY DEF RulesInv
<1>2. list = [id |-> list.id, rules |-> list.rules, cache |-> list.cache, events |-> list.events]
  BY <1>1 DEF Body
<1>3. list' = [id |-> list.id, rules |-> list.rules, cache |-> c, events |-> list.events]
  BY ONLY <1>2, list' = [list EXCEPT !.cache = c]
<1>4. /\ list'.id = list.id /\ list'.rules = list.rules /\ list'.cache = c /\ list'.events = list.events
      /\ list' = Body(list')
  BY ONLY <1>3 DEF Body
<1>5. list.rules \in Seq(Rules) /\ n \in Nat /\ Len(list.cache) = n /\ DOMAIN list.rules = 1..n
      /\ DOMAIN list.cache = 1..n /\ list.id \in Nat
      /\ \A i \in 1..n : ~OnContext(list, i) => list.cache[i] = "inactive"
  BY <1>1 DEF IsList
<1>6. c \in Seq(Answers) /\ Len(c) = n
  <2>1. c \in [1..n -> Answers]
    OBVIOUS
  <2> HIDE DEF n
  <2>2. QED
    BY ONLY <2>1, <1>5
<1>7. \A i : OnContext(list', i) <=> OnContext(list, i)
  BY <1>4 DEF OnContext
<1>8. IsList(list')
  <2>1. /\ list'.id \in Nat /\ list'.rules \in Seq(Rules) /\ list'.cache \in Seq(Answers)
        /\ Len(list'.cache) = Len(list'.rules) /\ DOMAIN list'.rules = 1..n
    BY ONLY <1>4, <1>5, <1>6
  <2>2. \A i \in 1..n : ~OnContext(list', i) => c[i] = "inactive"
    BY <1>5, <1>7
  <2>3. \A i \in DOMAIN list'.rules : ~OnContext(list', i) => list'.cache[i] = "inactive"
    BY ONLY <1>4, <2>1, <2>2
  <2>4. QED
    BY ONLY <2>1, <2>3 DEF IsList
<1>9. HasEvents(list')
  BY <1>1, <1>4 DEF HasEvents, IsEvent
<1>10. AllAttached(list')
  <2>1. ASSUME NEW e, IsEvent(list, e), Attached(list, e)
        PROVE  Attached(list', e)
    <3>1. \A q \in DOMAIN e.rules : e.rules[q] \in 1..n
      <4>1. e.rules \in Seq(1..n)
        BY ONLY <2>1 DEF IsEvent
      <4>2. PICK ids : ids = e.rules
        OBVIOUS
      <4>3. \A q \in DOMAIN ids : ids[q] \in 1..n
        BY ONLY <4>1, <4>2
      <4>4. QED
        BY ONLY <4>2, <4>3
    <3>2. QED
      BY <1>4, <1>7, <2>1, <3>1 DEF Attached
  <2>2. QED
    BY <1>1, <1>4, <2>1 DEF AllAttached, HasEvents
<1>11. ASSUME NEW k
       PROVE  Listeners(list', k) = Listeners(list, k)
  <2>1. ASSUME NEW i \in 1..n
        PROVE  i \in Listeners(list', k) <=> i \in Listeners(list, k)
    BY <1>4, <1>5, <1>7 DEF Listeners
  <2>2. Listeners(list', k) \subseteq 1..n /\ Listeners(list, k) \subseteq 1..n
    BY <1>4, <1>5 DEF Listeners
  <2>3. QED
    BY <2>1, <2>2
<1>12. ASSUME NEW k \in Keys
       PROVE  Registered(list', subs'[k], 0, k)
  <2>1. Registered(list, subs[k], 0, k) /\ Listeners(list', k) = Listeners(list, k)
        /\ list'.id = list.id /\ subs'[k] = subs[k]
    BY <1>1, <1>4, <1>11
  <2>2. QED
    BY ONLY <2>1 DEF Registered
<1>13. QED
  BY <1>1, <1>4, <1>8, <1>9, <1>10, <1>12

\* A rule is among the subscribers of a key when it listens to it.
LEMMA ListenersContained ==
  ASSUME RulesInv, NEW k \in Keys, NEW i
  PROVE  Contains(subs[k], [list |-> list.id, rule |-> i]) <=> i \in Listeners(list, k)
<1> DEFINE t == subs[k]
           e == [list |-> list.id, rule |-> i]
<1>1. /\ t \in Seq(Subscribers)
      /\ \A q \in (0 + 1)..Len(t) : t[q].list = list.id /\ t[q].rule \in Listeners(list, k)
      /\ \A j \in Listeners(list, k) : \E q \in (0 + 1)..Len(t) : t[q].rule = j
  BY DEF RulesInv, Registered
<1> HIDE DEF t
<1>2. ASSUME Contains(t, e)
      PROVE  i \in Listeners(list, k)
  <2>1. PICK q \in 1..Len(t) : t[q] = e
    BY <1>2 DEF Contains
  <2>2. t[q].rule = i
    BY <2>1
  <2>3. QED
    BY <1>1, <2>1, <2>2
<1>3. ASSUME i \in Listeners(list, k)
      PROVE  Contains(t, e)
  <2>1. PICK q \in 1..Len(t) : t[q].rule = i
    BY <1>1, <1>3
  <2>2. t[q] \in Subscribers /\ t[q].list = list.id
    BY <1>1
  <2>3. t[q] = e
    BY <2>1, <2>2 DEF Subscribers
  <2>4. QED
    BY <2>3 DEF Contains
<1>4. QED
  BY <1>2, <1>3 DEF t

-----------------------------------------------------------------------------
(* The steps.                                                              *)

LEMMA Truths == \A b : Truth(b) \in {"true", "false"}
BY DEF Truth

LEMMA SetValueHolds ==
  ASSUME RulesInv, NEW k \in Keys, NEW v \in Values, SetValue(k, v)
  PROVE  RulesInv'
<1> DEFINE hears(i) == Contains(subs[k], [list |-> list.id, rule |-> i])
           c == [i \in DOMAIN list.cache |->
                   IF hears(i) THEN Truth(Matches(list.rules[i], v)) ELSE list.cache[i]]
           n == Len(list.rules)
<1>1. /\ list.rules \in Seq(Rules) /\ n \in Nat /\ list.cache \in Seq(Answers) /\ Len(list.cache) = n
      /\ DOMAIN list.rules = 1..n /\ DOMAIN list.cache = 1..n
      /\ \A i \in 1..n : ~OnContext(list, i) => list.cache[i] = "inactive"
      /\ \A i \in 1..n : list.cache[i] \in Answers
  <2>1. /\ list.rules \in Seq(Rules) /\ list.cache \in Seq(Answers) /\ Len(list.cache) = n
        /\ \A i \in DOMAIN list.rules : ~OnContext(list, i) => list.cache[i] = "inactive"
    BY DEF RulesInv, IsList
  <2>2. DOMAIN list.rules = 1..n /\ n \in Nat /\ DOMAIN list.cache = 1..n
    BY <2>1
  <2>3. QED
    BY <2>1, <2>2
<1>2. /\ values' = [values EXCEPT ![k] = v] /\ list' = [list EXCEPT !.cache = c]
      /\ subs' = subs /\ config' = config /\ made' = made
  BY DEF SetValue
<1>3. \A i : hears(i) <=> i \in Listeners(list, k)
  BY ListenersContained
<1> HIDE DEF hears, n
<1>4. /\ \A i \in 1..n : c[i] = IF i \in Listeners(list, k) THEN Truth(Matches(list.rules[i], v))
                                ELSE list.cache[i]
      /\ c = [i \in 1..n |-> c[i]]
  BY <1>1, <1>3
<1> HIDE DEF c
<1>5. \A i \in Listeners(list, k) : OnContext(list, i) /\ list.rules[i].key = k /\ list.cache[i] # "inactive"
  BY DEF Listeners
<1>6. \A i \in 1..n : c[i] \in Answers /\ (c[i] = "inactive" <=> list.cache[i] = "inactive")
  BY <1>1, <1>4, <1>5, Truths DEF Answers
<1>7. /\ list'.id = list.id /\ list'.rules = list.rules /\ list'.cache = c
      /\ list' = Body(list')
      /\ IsList(list') /\ HasEvents(list') /\ AllAttached(list')
      /\ subs' = [l \in Keys |-> subs'[l]]
      /\ \A l \in Keys : Registered(list', subs'[l], 0, l)
  BY <1>2, <1>4, <1>6, AnswersChange DEF n
<1>8. values' \in [Keys -> Values \cup {NoValue}]
  BY <1>2 DEF RulesInv
<1>9. Current'
  <2>1. ASSUME NEW i \in 1..n, c[i] \in {"true", "false"}
        PROVE  c[i] = Truth(Matches(list.rules[i], values'[list.rules[i].key]))
    <3>1. list.cache[i] # "inactive" /\ OnContext(list, i)
      BY <1>1, <1>6, <2>1
    <3>2. list.rules[i].key \in Keys
      <4>1. list.rules[i] \in Rules
        BY <1>1, <2>1
      <4>2. QED
        BY <3>1, <4>1, ContextKeys DEF OnContext
    <3>3. CASE list.rules[i].key = k
      <4>1. i \in Listeners(list, k)
        BY <1>1, <2>1, <3>1, <3>3 DEF Listeners
      <4>2. values'[k] = v
        BY <1>2 DEF RulesInv
      <4>3. QED
        BY <1>4, <2>1, <3>3, <4>1, <4>2
    <3>4. CASE list.rules[i].key # k
      <4>1. c[i] = list.cache[i]
        BY <1>4, <1>5, <2>1, <3>4
      <4>2. values'[list.rules[i].key] = values[list.rules[i].key]
        BY <1>2, <3>2, <3>4 DEF RulesInv
      <4>3. list.cache[i] = Truth(Matches(list.rules[i], values[list.rules[i].key]))
        BY <1>1, <2>1, <4>1 DEF RulesInv, Current
      <4>4. QED
        BY <4>1, <4>2, <4>3
    <3>5. QED
      BY <3>3, <3>4
  <2>2. QED
    BY <1>1, <1>7, <2>1 DEF Current
<1>10. made' \in 1..(MaxReloads + 1) /\ list'.id \in 1..made'
  BY <1>2, <1>7 DEF RulesInv
<1>11. QED
  BY <1>7, <1>8, <1>9, <1>10 DEF RulesInv

\* The rules that an evaluation looks at belong to events.
LEMMA LookedAtFacts ==
  ASSUME RulesInv, NEW r \in Asked, NEW i \in LookedAt(r)
  PROVE  i \in 1..Len(list.rules) /\ (OnContext(list, i) => list.cache[i] # "inactive")
<1> DEFINE events == list.events[r.name]
           last   == IF Found(r) = 0 THEN Len(events) ELSE Found(r)
           I      == {p \in 1..Len(events) : EventHolds(events[p], r.props)}
<1>1. /\ r.name \in Names /\ events \in Seq(ToSet(events))
      /\ \A e \in ToSet(events) : IsEvent(list, e) /\ Attached(list, e)
  BY AskedAssumption DEF RulesInv, HasEvents, AllAttached
<1>2. Len(events) \in Nat /\ DOMAIN events = 1..Len(events)
  BY <1>1
<1>3. Found(r) = IF I # {} THEN Min(I) ELSE 0
  BY DEF Found, SelectInSeq
<1>4. I \subseteq 1..Len(events)
  OBVIOUS
<1>5. PICK p \in 1..last : i \in {events[p].rules[q] : q \in DOMAIN events[p].rules}
  BY DEF LookedAt
<1> HIDE DEF events, I
<1>6. Found(r) \in {0} \cup I
  <2>1. (IF I # {} THEN Min(I) ELSE 0) \in {0} \cup I
    BY ONLY <1>2, <1>4, FirstPlace
  <2>2. QED
    BY ONLY <1>3, <2>1
<1>7. p \in DOMAIN events
  <2>1. last \in 0..Len(events)
    <3>1. PICK n \in Nat : n = Len(events)
      BY <1>2
    <3>2. PICK f : f = Found(r)
      OBVIOUS
    <3>3. f \in {0} \cup I /\ I \subseteq 1..n
      BY ONLY <1>4, <1>6, <3>1, <3>2
    <3>4. f \in 0..n
      BY ONLY <3>3, n \in Nat
    <3>5. (IF f = 0 THEN n ELSE f) \in 0..n
      BY ONLY <3>4, n \in Nat
    <3>6. QED
      BY ONLY <3>1, <3>2, <3>5
  <2> HIDE DEF last
  <2>2. QED
    BY <1>2, <1>5, <2>1
<1>8. IsEvent(list, events[p]) /\ Attached(list, events[p])
  BY <1>1, <1>7 DEF ToSet
<1>9. PICK q \in DOMAIN events[p].rules : i = events[p].rules[q]
  BY ONLY <1>5
<1>10. i \in 1..Len(list.rules)
  <2>1. events[p].rules \in Seq(1..Len(list.rules))
    BY ONLY <1>8 DEF IsEvent
  <2>2. PICK s : s = events[p].rules
    OBVIOUS
  <2>3. s \in Seq(1..Len(list.rules)) /\ q \in DOMAIN s
    BY ONLY <1>9, <2>1, <2>2
  <2>4. s[q] \in 1..Len(list.rules)
    BY ONLY <2>3
  <2>5. QED
    BY ONLY <1>9, <2>2, <2>4
<1>11. OnContext(list, i) => list.cache[i] # "inactive"
  BY ONLY <1>8, <1>9 DEF Attached
<1>12. QED
  BY ONLY <1>10, <1>11

LEMMA EvaluateHolds ==
  ASSUME RulesInv, NEW r \in Asked, Evaluate(r)
  PROVE  RulesInv'
<1> DEFINE c == [i \in DOMAIN list.cache |->
                   IF i \in LookedAt(r) /\ OnContext(list, i)
                   THEN Truth(RuleHolds(i, r.props)) ELSE list.cache[i]]
           n == Len(list.rules)
<1>1. /\ list.rules \in Seq(Rules) /\ n \in Nat /\ list.cache \in Seq(Answers) /\ Len(list.cache) = n
      /\ DOMAIN list.rules = 1..n /\ DOMAIN list.cache = 1..n
      /\ \A i \in 1..n : ~OnContext(list, i) => list.cache[i] = "inactive"
      /\ \A i \in 1..n : list.cache[i] \in Answers
  <2>1. /\ list.rules \in Seq(Rules) /\ list.cache \in Seq(Answers) /\ Len(list.cache) = n
        /\ \A i \in DOMAIN list.rules : ~OnContext(list, i) => list.cache[i] = "inactive"
    BY DEF RulesInv, IsList
  <2>2. DOMAIN list.rules = 1..n /\ n \in Nat /\ DOMAIN list.cache = 1..n
    BY <2>1
  <2>3. QED
    BY <2>1, <2>2
<1>2. /\ list' = [list EXCEPT !.cache = c] /\ values' = values
      /\ subs' = subs /\ config' = config /\ made' = made
  BY DEF Evaluate
<1> HIDE DEF n
<1>3. /\ \A i \in 1..n : c[i] = IF i \in LookedAt(r) /\ OnContext(list, i)
                                THEN Truth(RuleHolds(i, r.props)) ELSE list.cache[i]
      /\ c = [i \in 1..n |-> c[i]]
  BY <1>1
<1> HIDE DEF c
<1>4. \A i \in LookedAt(r) : OnContext(list, i) => list.cache[i] # "inactive"
  BY LookedAtFacts
<1>5. \A i \in 1..n : c[i] \in Answers /\ (c[i] = "inactive" <=> list.cache[i] = "inactive")
  BY <1>1, <1>3, <1>4, Truths DEF Answers
<1>6. /\ list'.id = list.id /\ list'.rules = list.rules /\ list'.cache = c
      /\ list' = Body(list')
      /\ IsList(list') /\ HasEvents(list') /\ AllAttached(list')
      /\ subs' = [l \in Keys |-> subs'[l]]
      /\ \A l \in Keys : Registered(list', subs'[l], 0, l)
  BY <1>2, <1>3, <1>5, AnswersChange DEF n
<1>7. Current'
  <2>1. ASSUME NEW i \in 1..n, c[i] \in {"true", "false"}
        PROVE  c[i] = Truth(Matches(list.rules[i], values[list.rules[i].key]))
    <3>1. list.cache[i] \in {"true", "false"} =>
            list.cache[i] = Truth(Matches(list.rules[i], values[list.rules[i].key]))
      BY <1>1, <2>1 DEF RulesInv, Current
    <3>2. CASE i \in LookedAt(r) /\ OnContext(list, i)
      <4>1. c[i] = Truth(RuleHolds(i, r.props))
        BY <1>3, <2>1, <3>2
      <4>2. CASE list.cache[i] \in {"true", "false"}
        <5>1. RuleHolds(i, r.props) = (list.cache[i] = "true")
          BY <3>2, <4>2 DEF RuleHolds
        <5>2. Truth(list.cache[i] = "true") = list.cache[i]
          BY <4>2 DEF Truth
        <5>3. QED
          BY <3>1, <4>1, <4>2, <5>1, <5>2
      <4>3. CASE list.cache[i] \notin {"true", "false"}
        BY <3>2, <4>1, <4>3 DEF RuleHolds
      <4>4. QED
        BY <4>2, <4>3
    <3>3. CASE ~(i \in LookedAt(r) /\ OnContext(list, i))
      BY <1>3, <2>1, <3>1, <3>3
    <3>4. QED
      BY <3>2, <3>3
  <2>2. QED
    BY <1>1, <1>2, <1>6, <2>1 DEF Current
<1>8. made' \in 1..(MaxReloads + 1) /\ list'.id \in 1..made' /\ values' \in [Keys -> Values \cup {NoValue}]
  BY <1>2, <1>6 DEF RulesInv
<1>9. QED
  BY <1>6, <1>7, <1>8 DEF RulesInv

\* A key has as many subscribers as rules that listen to it.
LEMMA SubscribersCounted ==
  ASSUME RulesInv, NEW k \in Keys
  PROVE  Cardinality(Listeners(list, k)) = Len(subs[k]) /\ Len(subs[k]) \in Nat
<1> DEFINE t == subs[k]
           L == Listeners(list, k)
           f == [q \in 1..Len(t) |-> t[q].rule]
<1>1. /\ t \in Seq(Subscribers)
      /\ \A q \in (0 + 1)..Len(t) : t[q].list = list.id /\ t[q].rule \in L
      /\ \A j \in L : \E q \in (0 + 1)..Len(t) : t[q].rule = j
      /\ \A p, q \in (0 + 1)..Len(t) : t[p].rule = t[q].rule => p = q
  BY DEF RulesInv, Registered
<1>2. Len(t) \in Nat
  BY <1>1
<1> HIDE DEF t, L
<1>3. f \in Bijection(1..Len(t), L)
  BY <1>1 DEF Bijection, Injection, Surjection, IsInjective
<1>4. ExistsBijection(1..Len(t), L)
  BY <1>3 DEF ExistsBijection
<1>5. Cardinality(L) = Len(t)
  BY ONLY <1>2, <1>4, FS_CountingElements
<1>6. QED
  BY <1>2, <1>5 DEF t, L

\* Without the first b subscribers, those of the rules of l are left.
LEMMA FirstDropped ==
  ASSUME NEW l, NEW t, NEW b, NEW k, Registered(l, t, b, k)
  PROVE  Registered(l, SubSeq(t, b + 1, Len(t)), 0, k)
<1> DEFINE u == SubSeq(t, b + 1, Len(t))
           n == Len(t)
<1>1. /\ t \in Seq(Subscribers) /\ b \in Nat /\ b <= n /\ n \in Nat
      /\ \A q \in (b + 1)..n : t[q].list = l.id /\ t[q].rule \in Listeners(l, k)
      /\ \A j \in Listeners(l, k) : \E q \in (b + 1)..n : t[q].rule = j
      /\ \A p, q \in (b + 1)..n : t[p].rule = t[q].rule => p = q
  BY DEF Registered
<1>2. /\ u \in Seq(Subscribers) /\ Len(u) = n - b
      /\ \A i \in 1..(n - b) : u[i] = t[b + i]
  <2>1. \A i \in (b + 1)..n : t[i] \in Subscribers
    BY <1>1
  <2>2. b + 1 \in Int /\ n \in Int
    BY <1>1
  <2>3. /\ u \in Seq(Subscribers) /\ Len(u) = IF b + 1 <= n THEN n - (b + 1) + 1 ELSE 0
        /\ \A i \in 1..(n - (b + 1) + 1) : u[i] = t[(b + 1) + i - 1]
    BY <2>1, <2>2, SubSeqProperties
  <2> HIDE DEF u, n
  <2>4. n - (b + 1) + 1 = n - b /\ (b + 1 <= n \/ n - b = 0)
    BY <1>1
  <2>5. \A i \in 1..(n - b) : (b + 1) + i - 1 = b + i
    BY <1>1
  <2>6. QED
    BY <2>3, <2>4, <2>5
<1> HIDE DEF u, n
<1>3. \A i \in (0 + 1)..Len(u) : b + i \in (b + 1)..n /\ u[i] = t[b + i]
  BY <1>1, <1>2
<1>4. \A q \in (b + 1)..n : q - b \in (0 + 1)..Len(u) /\ b + (q - b) = q
  BY <1>1, <1>2
<1>5. \A i \in (0 + 1)..Len(u) : u[i].list = l.id /\ u[i].rule \in Listeners(l, k)
  BY <1>1, <1>3
<1>6. ASSUME NEW j \in Listeners(l, k)
      PROVE  \E i \in (0 + 1)..Len(u) : u[i].rule = j
  <2>1. PICK q \in (b + 1)..n : t[q].rule = j
    BY <1>1
  <2>2. u[q - b] = t[q] /\ q - b \in (0 + 1)..Len(u)
    BY <1>3, <1>4
  <2>3. QED
    BY <2>1, <2>2
<1>7. ASSUME NEW p \in (0 + 1)..Len(u), NEW q \in (0 + 1)..Len(u), u[p].rule = u[q].rule
      PROVE  p = q
  <2>1. b + p = b + q
    <3>1. /\ b + p \in (b + 1)..n /\ b + q \in (b + 1)..n
          /\ u[p] = t[b + p] /\ u[q] = t[b + q]
      BY ONLY <1>3, p \in (0 + 1)..Len(u), q \in (0 + 1)..Len(u)
    <3>2. t[b + p].rule = t[b + q].rule
      BY ONLY <3>1, <1>7
    <3>3. \A x, y \in (b + 1)..n : t[x].rule = t[y].rule => x = y
      BY ONLY <1>1
    <3>4. QED
      BY ONLY <3>1, <3>2, <3>3, Zenon
  <2>2. p \in Int /\ q \in Int /\ b \in Int
    BY <1>1
  <2>3. QED
    BY ONLY <2>1, <2>2
<1>8. 0 <= Len(u)
  BY <1>1, <1>2
<1>9. Registered(l, u, 0, k)
  BY <1>2, <1>5, <1>6, <1>7, <1>8 DEF Registered
<1>10. QED
  BY <1>9 DEF u, n

LEMMA ReloadHolds ==
  ASSUME RulesInv, NEW c \in Files, Reload(c)
  PROVE  RulesInv'
<1> DEFINE l0 == EmptyList(made + 1, subs)
           l1 == ParseEvents(l0, c.sys)
           l2 == ParseEvents(l1, c.user)
<1>1. /\ made <= MaxReloads /\ list' = Body(l2) /\ subs' = Unsubscribed(l2.subs, list)
      /\ made' = made + 1 /\ values' = values
  BY DEF Reload
<1>2. made \in Nat /\ made + 1 \in Nat /\ made + 1 \in 1..(MaxReloads + 1)
  BY <1>1, ReloadAssumption DEF RulesInv
<1>3. InTheMaking(l0, subs) /\ AllAttached(l0) /\ l0.id = made + 1
  <2>1. subs = [k \in Keys |-> subs[k]] /\ \A k \in Keys : subs[k] \in Seq(Subscribers)
    BY DEF RulesInv, Registered
  <2>2. QED
    BY <1>2, <2>1, EmptyListFacts
<1>4. IsFile(c.sys) /\ IsFile(c.user)
  BY ConfigurationFiles
<1> HIDE DEF l0
<1>5. InTheMaking(l1, subs) /\ AllAttached(l1) /\ l1.id = made + 1
  BY <1>3, <1>4, ParseFacts
<1> HIDE DEF l1
<1>6. InTheMaking(l2, subs) /\ AllAttached(l2) /\ l2.id = made + 1
  BY <1>4, <1>5, ParseFacts
<1> HIDE DEF l2
<1>7. /\ list' = Body(list') /\ list'.id = made + 1
      /\ IsList(list') /\ HasEvents(list') /\ AllAttached(list')
      /\ \A t, b : \A k \in Keys : Registered(l2, t, b, k) => Registered(list', t, b, k)
      /\ \A i \in DOMAIN list'.rules : list'.cache[i] \notin {"true", "false"}
  BY <1>1, <1>6, BodyFacts
<1>8. subs' = [k \in Keys |-> subs'[k]]
  BY <1>1 DEF Unsubscribed
<1>9. ASSUME NEW k \in Keys
      PROVE  Registered(list', subs'[k], 0, k)
  <2>1. subs'[k] = SubSeq(l2.subs[k], Len(subs[k]) + 1, Len(l2.subs[k]))
    BY <1>1, SubscribersCounted DEF Unsubscribed
  <2>2. Registered(l2, l2.subs[k], Len(subs[k]), k)
    BY <1>6 DEF InTheMaking
  <2>3. Registered(l2, subs'[k], 0, k)
    BY <2>1, <2>2, FirstDropped
  <2>4. QED
    BY <1>7, <2>3
<1>10. made' \in 1..(MaxReloads + 1) /\ list'.id \in 1..made'
  BY <1>1, <1>2, <1>7
<1>11. values' \in [Keys -> Values \cup {NoValue}]
  BY <1>1 DEF RulesInv
<1>12. Current'
  BY <1>7 DEF Current
<1>13. QED
  BY <1>7, <1>8, <1>9, <1>10, <1>11, <1>12 DEF RulesInv

\* Files that leave no event, and take none back, say nothing: the list that
\* goes has subscribed nobody.
LEMMA ReloadFailsHolds ==
  ASSUME RulesInv, NEW c \in Files, ReloadFails(c), \A g \in ToSet(c.sys) : ~g.unsetEvent
  PROVE  RulesInv'
<1> DEFINE l0 == EmptyList(made + 1, subs)
           l1 == ParseEvents(l0, c.sys)
<1>1. /\ made <= MaxReloads /\ NoEvents(l1) /\ subs' = Unsubscribed(l1.subs, l1)
      /\ made' = made + 1 /\ values' = values /\ list' = list
  BY DEF ReloadFails
<1>2. made \in Nat /\ made + 1 \in Nat /\ made + 1 \in 1..(MaxReloads + 1)
  BY <1>1, ReloadAssumption DEF RulesInv
<1>3. InTheMaking(l0, subs) /\ AllAttached(l0)
  <2>1. subs = [k \in Keys |-> subs[k]] /\ \A k \in Keys : subs[k] \in Seq(Subscribers)
    BY DEF RulesInv, Registered
  <2>2. QED
    BY <1>2, <2>1, EmptyListFacts
<1>4. l0.rules = <<>> /\ l0.subs = subs
  BY DEF EmptyList
<1> HIDE DEF l0
<1>5. l1 = l0
  BY <1>1, <1>3, ConfigurationFiles, ParseFacts
<1>6. subs' = subs
  <2>1. ASSUME NEW k \in Keys
        PROVE  Unsubscribed(l0.subs, l0)[k] = subs[k]
    <3>1. Listeners(l0, k) = {}
      BY <1>4 DEF Listeners
    <3>2. Cardinality(Listeners(l0, k)) = 0
      BY <3>1, FS_EmptySet
    <3>3. subs[k] \in Seq(Subscribers)
      BY DEF RulesInv, Registered
    <3>4. SubSeq(subs[k], 0 + 1, Len(subs[k])) = subs[k]
      <4>1. SubSeq(subs[k], 1, Len(subs[k])) = subs[k]
        BY ONLY <3>3, SubSeqFull
      <4>2. QED
        BY <4>1
    <3>5. QED
      BY <1>4, <3>2, <3>4 DEF Unsubscribed
  <2>2. subs = [k \in Keys |-> subs[k]]
    BY DEF RulesInv
  <2>3. subs' = [k \in Keys |-> Unsubscribed(l0.subs, l0)[k]]
    BY <1>1, <1>5 DEF Unsubscribed
  <2>4. QED
    BY <2>1, <2>2, <2>3
<1>7. made' \in 1..(MaxReloads + 1) /\ list'.id \in 1..made'
  BY <1>1, <1>2 DEF RulesInv
<1>8. QED
  BY <1>1, <1>6, <1>7 DEF RulesInv, Current

LEMMA StepHolds ==
  ASSUME RulesInv, [Next]_vars, \A c \in Files : \A g \in ToSet(c.sys) : ~g.unsetEvent
  PROVE  RulesInv'
<1>1. CASE \E k \in Keys, v \in Values : SetValue(k, v)
  BY <1>1, SetValueHolds
<1>2. CASE \E r \in Asked : Evaluate(r)
  BY <1>2, EvaluateHolds
<1>3. CASE \E c \in Files : Reload(c) \/ ReloadFails(c)
  BY <1>3, ReloadHolds, ReloadFailsHolds
<1>4. CASE UNCHANGED vars
  BY <1>4 DEF vars, RulesInv, Current
<1>5. QED
  BY <1>1, <1>2, <1>3, <1>4 DEF Next

-----------------------------------------------------------------------------
(* The theorems.  Their hypothesis is that no shipped file takes an event   *)
(* back, which is what a user's file is for: core.c frees the list of files *)
(* that leave no event by unsubscribing rules of the list in use.           *)

\* The invariant.
THEOREM Invariance ==
  ASSUME \A c \in Files : \A g \in ToSet(c.sys) : ~g.unsetEvent
  PROVE  Spec => []RulesInv
<1>1. Init => RulesInv
  BY InitHolds
<1>2. RulesInv /\ [Next]_vars => RulesInv'
  BY StepHolds
<1>3. QED
  BY <1>1, <1>2, PTL DEF Spec

\* An answer that is cached for a context rule is the one the rule would get
\* from the context now, whatever was set, evaluated and reloaded in between.
THEOREM AnswersStayFresh ==
  ASSUME \A c \in Files : \A g \in ToSet(c.sys) : ~g.unsetEvent
  PROVE  Spec => []CacheIsFresh
<1>1. RulesInv => CacheIsFresh
  <2> SUFFICES ASSUME RulesInv
               PROVE  CacheIsFresh
    OBVIOUS
  <2> DEFINE n == Len(list.rules)
  <2>1. /\ list.rules \in Seq(Rules) /\ list.cache \in Seq(Answers) /\ Len(list.cache) = n
        /\ n \in Nat
        /\ \A i \in DOMAIN list.rules : ~OnContext(list, i) => list.cache[i] = "inactive"
    BY DEF RulesInv, IsList
  <2>2. DOMAIN list.cache = 1..n /\ DOMAIN list.rules = 1..n
    BY <2>1
  <2>3. \A i \in DOMAIN list.cache :
          list.cache[i] \in IF OnContext(list, i)
                           THEN {"inactive", "unset", "true", "false"} ELSE {"inactive"}
    BY <2>1, <2>2 DEF Answers
  <2>4. ASSUME NEW m \in Names, NEW p \in DOMAIN list.events[m]
        PROVE  ToSet(list.events[m][p].rules) \subseteq DOMAIN list.rules
    <3>1. IsEvent(list, list.events[m][p])
      <4>1. list.events[m][p] \in ToSet(list.events[m])
        BY DEF ToSet
      <4>2. HasEvents(list)
        BY DEF RulesInv
      <4>3. QED
        BY ONLY <4>1, <4>2, m \in Names DEF HasEvents
    <3>2. list.events[m][p].rules \in Seq(1..n)
      BY <3>1 DEF IsEvent
    <3>3. QED
      BY <2>2, <3>2, OwnMembers
  <2>5. TypeOK
    BY <2>1, <2>3, <2>4 DEF RulesInv, TypeOK
  <2>6. QED
    BY <2>5 DEF RulesInv, Current, CacheIsFresh
<1>2. QED
  BY <1>1, Invariance, PTL

\* Whom a context change calls is a context rule of the list in use, once, and
\* never a rule that was freed with its list.
THEOREM CallbacksFindLiveRules ==
  ASSUME \A c \in Files : \A g \in ToSet(c.sys) : ~g.unsetEvent
  PROVE  Spec => []CallbacksReachLiveRules
<1>1. RulesInv => CallbacksReachLiveRules
  <2> SUFFICES ASSUME RulesInv, NEW k \in Keys
               PROVE  /\ IsInjective(subs[k])
                      /\ \A q \in DOMAIN subs[k] :
                           /\ subs[k][q].list = list.id
                           /\ list.rules[subs[k][q].rule].target = "context"
    BY DEF CallbacksReachLiveRules
  <2>1. /\ subs[k] \in Seq(Subscribers)
        /\ \A q \in (0 + 1)..Len(subs[k]) :
             subs[k][q].list = list.id /\ subs[k][q].rule \in Listeners(list, k)
        /\ \A p, q \in (0 + 1)..Len(subs[k]) : subs[k][p].rule = subs[k][q].rule => p = q
    BY DEF RulesInv, Registered
  <2>2. DOMAIN subs[k] = (0 + 1)..Len(subs[k])
    BY <2>1
  <2>3. QED
    BY <2>1, <2>2 DEF IsInjective, Listeners, OnContext
<1>2. QED
  BY <1>1, Invariance, PTL

\* Every context rule that an evaluation can look at hears of the changes of its
\* key, before and after a reload.
THEOREM UsedRulesAreSubscribed ==
  ASSUME \A c \in Files : \A g \in ToSet(c.sys) : ~g.unsetEvent
  PROVE  Spec => []UsedRulesListen
<1>1. RulesInv => UsedRulesListen
  <2> SUFFICES ASSUME RulesInv, NEW n \in Names, NEW p \in DOMAIN list.events[n],
                      NEW i \in ToSet(list.events[n][p].rules), OnContext(list, i)
               PROVE  Contains(subs[list.rules[i].key], [list |-> list.id, rule |-> i])
    BY DEF UsedRulesListen
  <2> DEFINE e == list.events[n][p]
  <2>1. e \in ToSet(list.events[n])
    BY DEF ToSet
  <2>2. IsEvent(list, e) /\ Attached(list, e)
    BY <2>1 DEF RulesInv, HasEvents, AllAttached
  <2>3. list.rules \in Seq(Rules)
    BY DEF RulesInv, IsList
  <2>4. PICK q \in DOMAIN e.rules : i = e.rules[q]
    BY DEF ToSet
  <2>5. i \in DOMAIN list.rules /\ list.cache[i] # "inactive"
    <3>1. PICK ids : ids = e.rules
      OBVIOUS
    <3>2. ids \in Seq(1..Len(list.rules)) /\ q \in DOMAIN ids /\ i = ids[q]
      BY <2>2, <2>4, <3>1 DEF IsEvent
    <3>3. i \in 1..Len(list.rules)
      BY ONLY <3>2
    <3>4. DOMAIN list.rules = 1..Len(list.rules)
      BY ONLY <2>3
    <3>5. list.cache[i] # "inactive"
      BY <2>2, <2>4 DEF Attached
    <3>6. QED
      BY ONLY <3>3, <3>4, <3>5
  <2>6. list.rules[i].key \in Keys
    BY <2>3, <2>5, ContextKeys DEF OnContext
  <2>7. i \in Listeners(list, list.rules[i].key)
    BY <2>5 DEF Listeners
  <2>8. QED
    BY <2>6, <2>7, ListenersContained
<1>2. QED
  BY <1>1, Invariance, PTL

\* What is kept of a list: members of it, all of those that are wanted, in
\* their order.
KeepsOf(s, E, m, q) ==
  /\ \A i \in DOMAIN q : \E a \in 1..m : s[a] \in E /\ q[i] = s[a]
  /\ \A a \in 1..m : s[a] \in E => \E i \in DOMAIN q : q[i] = s[a]
  /\ \A i, j \in DOMAIN q :
       i < j => \E a, b \in 1..m : a < b /\ q[i] = s[a] /\ q[j] = s[b]

LEMMA KeepsNext ==
  ASSUME NEW S, NEW s \in Seq(S), NEW E, NEW m \in Nat, m + 1 <= Len(s),
         NEW q \in Seq(S), KeepsOf(s, E, m, q)
  PROVE  KeepsOf(s, E, m + 1, IF s[m + 1] \in E THEN Append(q, s[m + 1]) ELSE q)
<1>1. CASE s[m + 1] \notin E
  <2>1. \A a \in 1..(m + 1) : s[a] \in E => a \in 1..m
    BY <1>1
  <2>2. 1..m \subseteq 1..(m + 1)
    OBVIOUS
  <2>3. \A i \in DOMAIN q : \E a \in 1..(m + 1) : s[a] \in E /\ q[i] = s[a]
    BY <2>2 DEF KeepsOf
  <2>4. \A a \in 1..(m + 1) : s[a] \in E => \E i \in DOMAIN q : q[i] = s[a]
    BY <2>1 DEF KeepsOf
  <2>5. \A i, j \in DOMAIN q :
          i < j => \E a, b \in 1..(m + 1) : a < b /\ q[i] = s[a] /\ q[j] = s[b]
    <3>1. SUFFICES ASSUME NEW i \in DOMAIN q, NEW j \in DOMAIN q, i < j
                   PROVE  \E a, b \in 1..(m + 1) : a < b /\ q[i] = s[a] /\ q[j] = s[b]
      OBVIOUS
    <3>2. PICK a \in 1..m, b \in 1..m : a < b /\ q[i] = s[a] /\ q[j] = s[b]
      BY <3>1 DEF KeepsOf
    <3>3. QED
      BY <2>2, <3>2
  <2>6. KeepsOf(s, E, m + 1, q)
    BY <2>3, <2>4, <2>5, Zenon DEF KeepsOf
  <2>7. QED
    BY <1>1, <2>6
<1>2. CASE s[m + 1] \in E
  <2> DEFINE new == Append(q, s[m + 1])
  <2>1. /\ DOMAIN q = 1..Len(q) /\ Len(q) \in Nat
        /\ DOMAIN new = 1..(Len(q) + 1)
        /\ new[Len(q) + 1] = s[m + 1]
        /\ \A i \in 1..Len(q) : new[i] = q[i]
    <3>1. s[m + 1] \in S
      OBVIOUS
    <3>2. QED
      BY ONLY <3>1, q \in Seq(S)
  <2> HIDE DEF new
  <2>2. \A i \in DOMAIN new : \E a \in 1..(m + 1) : s[a] \in E /\ new[i] = s[a]
    <3>1. SUFFICES ASSUME NEW i \in DOMAIN new
                   PROVE  \E a \in 1..(m + 1) : s[a] \in E /\ new[i] = s[a]
      OBVIOUS
    <3>2. CASE i = Len(q) + 1
      BY <1>2, <2>1, <3>2
    <3>3. CASE i \in 1..Len(q)
      BY <2>1, <3>3 DEF KeepsOf
    <3>4. QED
      BY <2>1, <3>2, <3>3
  <2>3. \A a \in 1..(m + 1) : s[a] \in E => \E i \in DOMAIN new : new[i] = s[a]
    <3>1. SUFFICES ASSUME NEW a \in 1..(m + 1), s[a] \in E
                   PROVE  \E i \in DOMAIN new : new[i] = s[a]
      OBVIOUS
    <3>2. CASE a = m + 1
      BY <2>1, <3>2
    <3>3. CASE a \in 1..m
      BY <2>1, <3>1, <3>3 DEF KeepsOf
    <3>4. QED
      BY <3>2, <3>3
  <2>4. \A i, j \in DOMAIN new :
          i < j => \E a, b \in 1..(m + 1) : a < b /\ new[i] = s[a] /\ new[j] = s[b]
    <3>1. SUFFICES ASSUME NEW i \in DOMAIN new, NEW j \in DOMAIN new, i < j
                   PROVE  \E a, b \in 1..(m + 1) : a < b /\ new[i] = s[a] /\ new[j] = s[b]
      OBVIOUS
    <3>2. i \in 1..Len(q)
      BY <2>1, <3>1
    <3>3. CASE j = Len(q) + 1
      <4>1. PICK a \in 1..m : q[i] = s[a]
        BY <2>1, <3>2 DEF KeepsOf
      <4>2. a < m + 1 /\ a \in 1..(m + 1) /\ m + 1 \in 1..(m + 1)
        OBVIOUS
      <4>3. new[i] = s[a] /\ new[j] = s[m + 1]
        BY <2>1, <3>2, <3>3, <4>1
      <4>4. QED
        BY ONLY <4>2, <4>3, Zenon
    <3>4. CASE j \in 1..Len(q)
      <4>1. PICK a \in 1..m, b \in 1..m : a < b /\ q[i] = s[a] /\ q[j] = s[b]
        BY <2>1, <3>1, <3>2, <3>4 DEF KeepsOf
      <4>2. a \in 1..(m + 1) /\ b \in 1..(m + 1)
        OBVIOUS
      <4>3. new[i] = s[a] /\ new[j] = s[b]
        BY <2>1, <3>2, <3>4, <4>1
      <4>4. QED
        BY ONLY <4>1, <4>2, <4>3, Zenon
    <3>5. j = Len(q) + 1 \/ j \in 1..Len(q)
      BY <2>1
    <3>6. QED
      BY <3>3, <3>4, <3>5, Zenon
  <2>5. KeepsOf(s, E, m + 1, new)
    BY <2>2, <2>3, <2>4, Zenon DEF KeepsOf
  <2>6. QED
    BY <1>2, <2>5 DEF new
<1>3. QED
  BY <1>1, <1>2

LEMMA OnlyKeeps ==
  ASSUME NEW S, NEW s \in Seq(S), NEW E
  PROVE  Only(s, E) \in Seq(S) /\ KeepsOf(s, E, Len(s), Only(s, E))
<1> DEFINE g == CHOOSE h : Kept(s, E, Len(s), h)
<1>1. Kept(s, E, Len(s), g)
  BY KeptExists, Zenon
<1>2. Only(s, E) = g[Len(s)]
  BY DEF Only, Through, Kept
<1> HIDE DEF g
<1> DEFINE T == {m \in Nat : m <= Len(s) => g[m] \in Seq(S) /\ KeepsOf(s, E, m, g[m])}
<1>3. \A n \in 0..Len(s) :
        g[n] = IF n = 0 THEN <<>>
               ELSE IF s[n] \in E THEN Append(g[n - 1], s[n]) ELSE g[n - 1]
  BY <1>1 DEF Kept
<1>4. 0 \in T
  <2>1. g[0] = <<>> /\ <<>> \in Seq(S) /\ DOMAIN <<>> = {} /\ 1..0 = {}
    BY <1>3
  <2>2. KeepsOf(s, E, 0, g[0])
    BY <2>1, Zenon DEF KeepsOf
  <2>3. QED
    BY <2>1, <2>2
<1>5. ASSUME NEW m \in Nat, m \in T
      PROVE  m + 1 \in T
  <2>1. SUFFICES ASSUME m + 1 <= Len(s)
                 PROVE  g[m + 1] \in Seq(S) /\ KeepsOf(s, E, m + 1, g[m + 1])
    OBVIOUS
  <2>2. g[m] \in Seq(S) /\ KeepsOf(s, E, m, g[m]) /\ m + 1 \in 0..Len(s) /\ s[m + 1] \in S /\ m + 1 # 0
    BY <1>5, <2>1
  <2>3. g[m + 1] = IF s[m + 1] \in E THEN Append(g[m], s[m + 1]) ELSE g[m]
    BY <1>3, <2>2
  <2>4. Append(g[m], s[m + 1]) \in Seq(S)
    BY ONLY <2>2
  <2>5. KeepsOf(s, E, m + 1, IF s[m + 1] \in E THEN Append(g[m], s[m + 1]) ELSE g[m])
    BY <2>1, <2>2, KeepsNext
  <2>6. QED
    BY <2>2, <2>3, <2>4, <2>5
<1>6. Nat \subseteq T
  <2> HIDE DEF T
  <2>1. QED
    BY <1>4, <1>5, SetInduction
<1>7. Len(s) \in T
  BY <1>6
<1>8. QED
  BY <1>2, <1>7

LEMMA OnlyMembers ==
  ASSUME NEW S, NEW s \in Seq(S), NEW E
  PROVE  Range(Only(s, E)) = Range(s) \cap E
<1>1. KeepsOf(s, E, Len(s), Only(s, E)) /\ DOMAIN s = 1..Len(s)
  BY OnlyKeeps
<1>2. QED
  BY <1>1 DEF KeepsOf, Range

-----------------------------------------------------------------------------
(* Lists that grow at their end and shrink from their head.                *)

LEMMA HeadAndTail ==
  ASSUME NEW S, NEW s \in Seq(S), s # <<>>
  PROVE  /\ Head(s) \in S /\ Tail(s) \in Seq(S)
         /\ Head(s) \in Range(s) /\ Range(Tail(s)) \subseteq Range(s)
         /\ IsInjective(s) => Head(s) \notin Range(Tail(s)) /\ IsInjective(Tail(s))
<1>1. /\ Len(s) \in Nat /\ Len(s) > 0 /\ DOMAIN s = 1..Len(s) /\ Head(s) = s[1]
      /\ Tail(s) \in Seq(S) /\ DOMAIN Tail(s) = 1..(Len(s) - 1)
      /\ \A i \in 1..(Len(s) - 1) : Tail(s)[i] = s[i + 1]
  OBVIOUS
<1> DEFINE t == Tail(s)
<1> HIDE DEF t
<1>2. Head(s) \in S /\ Head(s) \in Range(s) /\ Range(t) \subseteq Range(s)
  BY <1>1 DEF Range, t
<1>3. ASSUME IsInjective(s)
      PROVE  Head(s) \notin Range(t) /\ IsInjective(t)
  <2>1. \A i \in 1..(Len(s) - 1) : s[i + 1] # s[1]
    BY <1>1, <1>3 DEF IsInjective
  <2>2. Head(s) \notin Range(t)
    BY <1>1, <2>1 DEF Range, t
  <2>3. ASSUME NEW i \in DOMAIN t, NEW j \in DOMAIN t, t[i] = t[j]
        PROVE  i = j
    <3>1. s[i + 1] = s[j + 1] /\ i + 1 \in DOMAIN s /\ j + 1 \in DOMAIN s
      BY <1>1, <2>3 DEF t
    <3>2. i + 1 = j + 1
      BY <1>3, <3>1 DEF IsInjective
    <3>3. QED
      BY <1>1, <3>2 DEF t
  <2>4. IsInjective(t)
    BY <2>3, Zenon DEF IsInjective
  <2>5. QED
    BY <2>2, <2>4
<1>4. QED
  BY <1>1, <1>2, <1>3 DEF t

LEMMA Appended ==
  ASSUME NEW S, NEW s \in Seq(S), NEW e \in S
  PROVE  /\ Append(s, e) \in Seq(S) /\ Range(Append(s, e)) = Range(s) \cup {e}
         /\ IsInjective(s) /\ e \notin Range(s) => IsInjective(Append(s, e))
<1> DEFINE t == Append(s, e)
<1>1. /\ Len(s) \in Nat /\ DOMAIN s = 1..Len(s) /\ t \in Seq(S)
      /\ DOMAIN t = 1..(Len(s) + 1) /\ t[Len(s) + 1] = e
      /\ \A i \in 1..Len(s) : t[i] = s[i]
  OBVIOUS
<1> HIDE DEF t
<1>2. Range(t) = Range(s) \cup {e}
  <2>1. \A i \in DOMAIN t : t[i] \in Range(s) \cup {e}
    BY <1>1 DEF Range
  <2>2. \A i \in DOMAIN s : s[i] \in Range(t)
    BY <1>1 DEF Range
  <2>3. e \in Range(t)
    BY <1>1 DEF Range
  <2>4. QED
    BY <2>1, <2>2, <2>3 DEF Range
<1>3. ASSUME IsInjective(s), e \notin Range(s)
      PROVE  IsInjective(t)
  <2>1. \A i \in 1..Len(s) : s[i] # e
    BY <1>1, <1>3 DEF Range
  <2>2. \A i, j \in 1..Len(s) : s[i] = s[j] => i = j
    BY <1>1, <1>3 DEF IsInjective
  <2>3. \A i, j \in DOMAIN t : t[i] = t[j] => i = j
    BY <1>1, <2>1, <2>2
  <2>4. QED
    BY <2>3, Zenon DEF IsInjective
<1>4. QED
  BY <1>1, <1>2, <1>3 DEF t

LEMMA Joined ==
  ASSUME NEW S, NEW s \in Seq(S), NEW t \in Seq(S)
  PROVE  /\ s \o t \in Seq(S) /\ Range(s \o t) = Range(s) \cup Range(t)
         /\ IsInjective(s) /\ IsInjective(t) /\ Range(s) \cap Range(t) = {} => IsInjective(s \o t)
<1> DEFINE u == s \o t
<1>1. /\ Len(s) \in Nat /\ Len(t) \in Nat /\ DOMAIN s = 1..Len(s) /\ DOMAIN t = 1..Len(t)
      /\ u \in Seq(S) /\ DOMAIN u = 1..(Len(s) + Len(t))
      /\ \A i \in 1..(Len(s) + Len(t)) : u[i] = IF i <= Len(s) THEN s[i] ELSE t[i - Len(s)]
  OBVIOUS
<1> HIDE DEF u
<1>2. \A i \in 1..Len(s) : i \in DOMAIN u /\ u[i] = s[i]
  BY <1>1
<1>3. \A i \in 1..Len(t) : i + Len(s) \in DOMAIN u /\ u[i + Len(s)] = t[i]
  <2>1. SUFFICES ASSUME NEW i \in 1..Len(t)
                 PROVE  i + Len(s) \in DOMAIN u /\ u[i + Len(s)] = t[i]
    OBVIOUS
  <2>2. i + Len(s) \in 1..(Len(s) + Len(t)) /\ ~ (i + Len(s) <= Len(s)) /\ (i + Len(s)) - Len(s) = i
    BY <1>1
  <2>3. QED
    BY <1>1, <2>2
<1>4. \A i \in DOMAIN u : i \in 1..Len(s) \/ (i - Len(s) \in 1..Len(t) /\ u[i] = t[i - Len(s)])
  BY <1>1
<1>5. Range(u) = Range(s) \cup Range(t)
  <2>1. \A i \in DOMAIN u : u[i] \in Range(s) \cup Range(t)
    BY <1>1, <1>2, <1>4 DEF Range
  <2>2. \A i \in DOMAIN s : s[i] \in Range(u)
    BY <1>1, <1>2 DEF Range
  <2>3. \A i \in DOMAIN t : t[i] \in Range(u)
    BY <1>1, <1>3 DEF Range
  <2>4. QED
    BY <2>1, <2>2, <2>3 DEF Range
<1>6. ASSUME IsInjective(s), IsInjective(t), Range(s) \cap Range(t) = {}
      PROVE  IsInjective(u)
  <2>1. \A i \in 1..Len(s), j \in 1..Len(t) : s[i] # t[j]
    BY <1>1, <1>6 DEF Range
  <2>2. \A i, j \in 1..Len(s) : s[i] = s[j] => i = j
    BY <1>1, <1>6 DEF IsInjective
  <2>3. \A i, j \in 1..Len(t) : t[i] = t[j] => i = j
    BY <1>1, <1>6 DEF IsInjective
  <2>4. ASSUME NEW i \in DOMAIN u, NEW j \in DOMAIN u, u[i] = u[j]
        PROVE  i = j
    <3>1. CASE i \in 1..Len(s) /\ j \in 1..Len(s)
      BY <1>2, <2>2, <2>4, <3>1
    <3>2. CASE i \in 1..Len(s) /\ j \notin 1..Len(s)
      BY <1>2, <1>4, <2>1, <2>4, <3>2
    <3>3. CASE i \notin 1..Len(s) /\ j \in 1..Len(s)
      BY <1>2, <1>4, <2>1, <2>4, <3>3
    <3>4. CASE i \notin 1..Len(s) /\ j \notin 1..Len(s)
      <4>1. i - Len(s) = j - Len(s)
        BY <1>4, <2>3, <2>4, <3>4
      <4>2. i \in Nat /\ j \in Nat
        BY <1>1
      <4>3. QED
        BY <1>1, <4>1, <4>2
    <3>5. QED
      BY <3>1, <3>2, <3>3, <3>4
  <2>5. QED
    BY <2>4, Zenon DEF IsInjective
<1>7. QED
  BY <1>1, <1>5, <1>6 DEF u

-----------------------------------------------------------------------------
(* Plugins.                                                                *)

Plugins == Range(Required) \cup Range(Optional)

\* What of a plugin may be called when its module is closed.
Leavers == {p \in Range(Optional) : FailsAfter[p] \ {0} # {}}

LEMMA StartList ==
  /\ Required \o Optional \in Seq(Plugins) /\ Range(Required \o Optional) = Plugins
  /\ IsInjective(Required \o Optional)
<1>1. /\ Required \in Seq(Range(Required)) /\ IsInjective(Required)
      /\ Optional \in Seq(Range(Optional)) /\ IsInjective(Optional)
      /\ Range(Required) \cap Range(Optional) = {}
  BY StartAssumption
<1>2. ASSUME NEW s, s \in Seq(Range(s)), Range(s) \subseteq Plugins
      PROVE  s \in Seq(Plugins)
  <2>1. ToSet(s) = Range(s)
    BY DEF ToSet, Range
  <2>2. QED
    BY <1>2, <2>1, MembersIn
<1>3. Required \in Seq(Plugins) /\ Optional \in Seq(Plugins)
  BY <1>1, <1>2 DEF Plugins
<1>4. Range(Required) \cup Range(Optional) = Plugins
  BY DEF Plugins
<1>5. /\ Required \o Optional \in Seq(Plugins)
      /\ Range(Required \o Optional) = Range(Required) \cup Range(Optional)
      /\ IsInjective(Required \o Optional)
  <2>1. \A s, t \in Seq(Plugins) :
          /\ s \o t \in Seq(Plugins) /\ Range(s \o t) = Range(s) \cup Range(t)
          /\ IsInjective(s) /\ IsInjective(t) /\ Range(s) \cap Range(t) = {} => IsInjective(s \o t)
    BY Joined
  <2>2. QED
    BY <1>1, <1>3, <2>1, Zenon
<1>6. QED
  BY <1>4, <1>5, Zenon

\* A list of what plugins registered.
IsRegister(s) == s \in Seq(Range(s))

LEMMA RegisterJoined ==
  ASSUME NEW s, NEW t, IsRegister(s), IsRegister(t)
  PROVE  IsRegister(s \o t) /\ Range(s \o t) = Range(s) \cup Range(t)
<1> DEFINE S == Range(s) \cup Range(t)
<1>1. Range(s) = ToSet(s) /\ Range(t) = ToSet(t) /\ Range(s \o t) = ToSet(s \o t)
  BY DEF ToSet, Range
<1>2. s \in Seq(S) /\ t \in Seq(S)
  BY <1>1, MembersIn DEF IsRegister
<1>3. s \o t \in Seq(S) /\ Range(s \o t) = S
  BY <1>2, Joined
<1>4. QED
  BY <1>3 DEF IsRegister

\* What the load function of p has registered when it ends.
LEMMA RegisteredFacts ==
  ASSUME NEW p \in Plugins, NEW n \in 0..Len(Registers[p]), NEW kind
  PROVE  LET r == RegisteredBy(p, n, kind)
         IN  /\ IsRegister(r)
             /\ \A x \in Range(r) : x.plugin = p
             /\ n = 0 => Range(r) = {}
             /\ n = Len(Registers[p]) =>
                  \A i \in DOMAIN Registers[p] :
                    Registers[p][i].kind = kind =>
                      \E x \in Range(r) : x.name = Registers[p][i].name /\ x.plugin = p
<1> DEFINE all  == Registers[p]
           some == SubSeq(all, 1, n)
           E    == {x \in Range(all) : x.kind = kind}
           mine == Only(some, E)
           r    == RegisteredBy(p, n, kind)
<1>1. all \in Seq(Range(all))
  BY StartAssumption DEF Plugins
<1>2. /\ some \in Seq(Range(all)) /\ Len(some) = n
      /\ \A i \in 1..n : some[i] = all[i]
  <2>1. PICK s : s = all
    OBVIOUS
  <2>2. s \in Seq(Range(all)) /\ n \in 0..Len(s)
    BY <1>1, <2>1
  <2>3. /\ SubSeq(s, 1, n) \in Seq(Range(all)) /\ Len(SubSeq(s, 1, n)) = n
        /\ \A i \in 1..n : SubSeq(s, 1, n)[i] = s[i]
    BY ONLY <2>2
  <2>4. QED
    BY <2>1, <2>3
<1>3. mine \in Seq(Range(all)) /\ Range(mine) = Range(some) \cap E
  BY <1>2, OnlyKeeps, OnlyMembers
<1>4. r = [i \in DOMAIN mine |-> [name |-> mine[i].name, plugin |-> p]]
  BY DEF RegisteredBy
<1>5. n = Len(all) => Range(some) = Range(all)
  <2>1. DOMAIN all = 1..Len(all) /\ DOMAIN some = 1..n
    BY <1>1, <1>2
  <2> HIDE DEF some
  <2>2. QED
    BY <1>2, <2>1 DEF Range
<1>6. n = 0 => Range(some) = {}
  BY <1>2 DEF Range
<1> HIDE DEF mine, some, E, r
<1>7. DOMAIN mine = 1..Len(mine) /\ Len(mine) \in Nat
  BY <1>3
<1>8. IsRegister(r)
  <2>1. DOMAIN r = 1..Len(mine) /\ \A i \in 1..Len(mine) : r[i] \in Range(r)
    BY <1>4, <1>7 DEF Range
  <2>2. r = [i \in 1..Len(mine) |-> r[i]]
    BY <1>4, <1>7
  <2>3. r \in Seq(Range(r))
    BY ONLY <1>7, <2>1, <2>2
  <2>4. QED
    BY <2>3 DEF IsRegister
<1>9. \A x \in Range(r) : x.plugin = p
  BY <1>4 DEF Range
<1>10. n = 0 => Range(r) = {}
  <2>1. n = 0 => DOMAIN mine = {}
    BY <1>3, <1>6 DEF Range
  <2>2. DOMAIN r = DOMAIN mine
    BY <1>4
  <2>3. QED
    BY <2>1, <2>2 DEF Range
<1>11. ASSUME n = Len(all), NEW i \in DOMAIN all, all[i].kind = kind
       PROVE  \E x \in Range(r) : x.name = all[i].name /\ x.plugin = p
  <2>1. all[i] \in Range(mine)
    BY <1>3, <1>5, <1>11 DEF Range, E
  <2>2. PICK j \in DOMAIN mine : mine[j] = all[i]
    BY <2>1 DEF Range
  <2>3. QED
    BY <1>4, <2>2 DEF Range
<1>12. QED
  BY <1>8, <1>9, <1>10, <1>11 DEF r

-----------------------------------------------------------------------------
(* The start.                                                              *)

\* What may be called belongs to a plugin that is there, or to one that left
\* it behind.
Held == Range(hooks) \cup Range(sinks) \cup Range(inputs)

\* The inductive invariant: a plugin is still to be opened, to be loaded,
\* loaded or closed, and never two of them.
BootInv ==
  /\ toOpen \in Seq(Plugins) /\ toLoad \in Seq(Plugins) /\ plugins \in Seq(Plugins)
  /\ IsInjective(toOpen) /\ IsInjective(toLoad)
  /\ Range(toOpen) \cap Range(toLoad) = {}
  /\ stage = "open" => Range(plugins) = {} /\ closed = {} /\ Held = {}
  /\ (Range(plugins) \cup closed) \cap Range(toLoad) = {}
  /\ stage # "down" => Range(plugins) \cap closed = {}
  /\ IsRegister(hooks) /\ IsRegister(sinks) /\ IsRegister(inputs)
  /\ stage \notin {"failed", "down"} =>
       \A x \in Held : x.plugin \in Range(plugins) \cup (Leavers \cap closed)
  /\ strayed \subseteq Leavers
  /\ prepared \in Nat

LEMMA BootInitHolds == BootInit => BootInv
<1> SUFFICES ASSUME BootInit PROVE BootInv
  OBVIOUS
<1>1. Range(<<>>) = {} /\ <<>> \in Seq(Plugins) /\ IsRegister(<<>>) /\ IsInjective(<<>>)
  BY DEF Range, IsRegister, IsInjective
<1>2. /\ toOpen \in Seq(Plugins) /\ IsInjective(toOpen)
      /\ toLoad = <<>> /\ plugins = <<>> /\ closed = {} /\ strayed = {}
      /\ hooks = <<>> /\ sinks = <<>> /\ inputs = <<>> /\ prepared = 0
  BY StartList DEF BootInit
<1>3. Held = {}
  BY <1>1, <1>2 DEF Held
<1>4. QED
  BY <1>1, <1>2, <1>3 DEF BootInv

LEMMA OpenKeeps ==
  ASSUME BootInv, NEW ok \in BOOLEAN, OpenPlugin(ok)
  PROVE  BootInv'
<1> DEFINE p == Head(toOpen)
<1>1. /\ stage = "open" /\ toOpen # <<>> /\ toOpen' = Tail(toOpen)
      /\ toLoad' = IF ok THEN Append(toLoad, p) ELSE toLoad
      /\ stage' \in {"open", "failed"}
      /\ UNCHANGED <<plugins, closed, hooks, sinks, inputs, strayed, prepared>>
  BY DEF OpenPlugin
<1>2. /\ p \in Plugins /\ toOpen' \in Seq(Plugins) /\ p \in Range(toOpen)
      /\ Range(toOpen') \subseteq Range(toOpen)
      /\ p \notin Range(toOpen') /\ IsInjective(toOpen')
  BY <1>1, HeadAndTail, Zenon DEF BootInv
<1> HIDE DEF p
<1>3. /\ Append(toLoad, p) \in Seq(Plugins)
      /\ Range(Append(toLoad, p)) = Range(toLoad) \cup {p}
      /\ IsInjective(Append(toLoad, p))
  <2>1. p \notin Range(toLoad)
    BY <1>2 DEF BootInv
  <2>2. toLoad \in Seq(Plugins) /\ IsInjective(toLoad)
    BY DEF BootInv
  <2>3. \A s \in Seq(Plugins) :
          /\ Append(s, p) \in Seq(Plugins) /\ Range(Append(s, p)) = Range(s) \cup {p}
          /\ IsInjective(s) /\ p \notin Range(s) => IsInjective(Append(s, p))
    BY <1>2, Appended
  <2>4. QED
    BY <2>1, <2>2, <2>3, Zenon
<1>4. /\ toLoad' \in Seq(Plugins) /\ IsInjective(toLoad')
      /\ Range(toOpen') \cap Range(toLoad') = {}
  <2>1. CASE ok
    BY <1>1, <1>2, <1>3, <2>1 DEF BootInv
  <2>2. CASE ~ok
    BY <1>1, <1>2, <2>2 DEF BootInv
  <2>3. QED
    BY <2>1, <2>2
<1>5. Held' = Held
  BY <1>1 DEF Held
<1>6. Range(plugins') = {} /\ closed' = {} /\ Held' = {}
  BY <1>1, <1>5 DEF BootInv
<1>7. QED
  BY <1>1, <1>2, <1>4, <1>6 DEF BootInv, IsRegister

LEMMA LoadKeeps ==
  ASSUME BootInv, NEW ok \in BOOLEAN, LoadPlugin(ok)
  PROVE  BootInv'
<1> DEFINE p == Head(toLoad)
<1>1. /\ stage = "load" /\ toLoad # <<>> /\ toLoad' = Tail(toLoad)
      /\ UNCHANGED <<toOpen, strayed, prepared>>
  BY DEF LoadPlugin
<1>2. PICK n \in IF ok THEN {Len(Registers[p])} ELSE FailsAfter[p] :
        /\ hooks'  = hooks  \o RegisteredBy(p, n, "hook")
        /\ sinks'  = sinks  \o RegisteredBy(p, n, "sink")
        /\ inputs' = inputs \o RegisteredBy(p, n, "input")
        /\ IF ok THEN plugins' = Append(plugins, p) /\ UNCHANGED <<stage, closed>>
                 ELSE /\ closed' = closed \cup {p}
                      /\ stage' = AfterFailure(p)
                      /\ UNCHANGED plugins
  BY DEF LoadPlugin
<1>3. /\ p \in Plugins /\ toLoad' \in Seq(Plugins) /\ p \in Range(toLoad)
      /\ Range(toLoad') \subseteq Range(toLoad)
      /\ p \notin Range(toLoad') /\ IsInjective(toLoad')
  BY <1>1, HeadAndTail, Zenon DEF BootInv
<1> HIDE DEF p
<1>4. n \in 0..Len(Registers[p])
  <2>1. Registers[p] \in Seq(Range(Registers[p])) /\ FailsAfter[p] \subseteq 0..Len(Registers[p])
    BY <1>3, StartAssumption DEF Plugins
  <2>2. Len(Registers[p]) \in 0..Len(Registers[p])
    BY <2>1
  <2>3. QED
    BY <2>1, <2>2
<1> DEFINE h == RegisteredBy(p, n, "hook")
           s == RegisteredBy(p, n, "sink")
           i == RegisteredBy(p, n, "input")
<1>5. /\ IsRegister(h) /\ IsRegister(s) /\ IsRegister(i)
      /\ \A x \in Range(h) \cup Range(s) \cup Range(i) : x.plugin = p
      /\ n = 0 => Range(h) \cup Range(s) \cup Range(i) = {}
  BY <1>3, <1>4, RegisteredFacts
<1>6. /\ hooks' = hooks \o h /\ sinks' = sinks \o s /\ inputs' = inputs \o i
  BY <1>2
<1> HIDE DEF h, s, i
<1>7. /\ IsRegister(hooks') /\ IsRegister(sinks') /\ IsRegister(inputs')
      /\ Held' = Held \cup Range(h) \cup Range(s) \cup Range(i)
  <2>1. IsRegister(hooks) /\ IsRegister(sinks) /\ IsRegister(inputs)
    BY DEF BootInv
  <2>2. /\ IsRegister(hooks') /\ Range(hooks') = Range(hooks) \cup Range(h)
        /\ IsRegister(sinks') /\ Range(sinks') = Range(sinks) \cup Range(s)
        /\ IsRegister(inputs') /\ Range(inputs') = Range(inputs) \cup Range(i)
    BY <1>5, <1>6, <2>1, RegisterJoined
  <2>3. QED
    BY <2>2 DEF Held
<1>8. CASE ok
  <2>1. /\ plugins' \in Seq(Plugins) /\ Range(plugins') = Range(plugins) \cup {p}
        /\ stage' = stage /\ closed' = closed
    <3>1. plugins' = Append(plugins, p) /\ stage' = stage /\ closed' = closed
      BY <1>2, <1>8
    <3>2. plugins \in Seq(Plugins)
      BY DEF BootInv
    <3>3. QED
      BY <1>3, <3>1, <3>2, Appended
  <2>2. \A x \in Held' : x.plugin \in Range(plugins') \cup (Leavers \cap closed')
    BY <1>1, <1>5, <1>7, <2>1 DEF BootInv
  <2>3. /\ (Range(plugins') \cup closed') \cap Range(toLoad') = {}
        /\ Range(plugins') \cap closed' = {}
        /\ Range(toOpen') \cap Range(toLoad') = {}
    BY <1>1, <1>3, <2>1 DEF BootInv
  <2>4. QED
    BY <1>1, <1>3, <1>7, <2>1, <2>2, <2>3 DEF BootInv
<1>9. CASE ~ok
  <2>1. /\ plugins' = plugins /\ closed' = closed \cup {p}
        /\ stage' = IF p \in Range(Required) THEN "failed" ELSE "load"
    BY <1>2, <1>9 DEF AfterFailure
  <2>2. stage' # "failed" => \A x \in Held' : x.plugin \in Range(plugins') \cup (Leavers \cap closed')
    <3>1. SUFFICES ASSUME p \notin Range(Required), NEW x \in Held'
                   PROVE  x.plugin \in Range(plugins') \cup (Leavers \cap closed')
      BY <2>1
    <3>2. CASE x \in Held
      BY <1>1, <2>1, <3>2 DEF BootInv
    <3>3. CASE x \notin Held
      <4>1. x.plugin = p /\ n # 0
        BY <1>5, <1>7, <3>3
      <4>2. p \in Range(Optional) /\ n \in FailsAfter[p] \ {0}
        BY <1>2, <1>3, <1>9, <3>1, <4>1 DEF Plugins
      <4>3. QED
        BY <2>1, <4>1, <4>2 DEF Leavers
    <3>4. QED
      BY <3>2, <3>3
  <2>3. /\ (Range(plugins') \cup closed') \cap Range(toLoad') = {}
        /\ Range(plugins') \cap closed' = {}
        /\ Range(toOpen') \cap Range(toLoad') = {}
    BY <1>1, <1>3, <2>1 DEF BootInv
  <2>4. QED
    BY <1>1, <1>3, <1>7, <2>1, <2>2, <2>3 DEF BootInv
<1>10. QED
  BY <1>8, <1>9

\* Functions of plugins that hold something, or are there, are called.
LEMMA CallKeeps ==
  ASSUME BootInv, stage \notin {"failed", "down"}, NEW them,
         \A p \in them : p \in Range(plugins) \/ \E x \in Held : p = x.plugin,
         CallInto(them)
  PROVE  strayed' \subseteq Leavers
<1>1. them \subseteq Range(plugins) \cup Leavers
  BY DEF BootInv
<1>2. them \cap closed \subseteq Leavers
  BY <1>1 DEF BootInv
<1>3. QED
  BY <1>2 DEF CallInto, BootInv

\* All that a step that only calls has to leave as it is.
LEMMA CallingKeeps ==
  ASSUME BootInv, UNCHANGED plugVars, strayed' \subseteq Leavers, prepared' \in Nat,
         stage' # "open", stage' \notin {"failed", "down"} => stage \notin {"failed", "down"},
         stage # "down"
  PROVE  BootInv'
<1>1. Held' = Held
  BY DEF Held, plugVars
<1>2. QED
  BY <1>1 DEF BootInv, plugVars, IsRegister

LEMMA BootNextKeeps == BootInv /\ [BootNext]_boot => BootInv'
<1> SUFFICES ASSUME BootInv, [BootNext]_boot
             PROVE  BootInv'
  OBVIOUS
<1>1. ASSUME NEW ok \in BOOLEAN, OpenPlugin(ok)
      PROVE  BootInv'
  BY <1>1, OpenKeeps
<1>2. ASSUME NEW ok \in BOOLEAN, EventsParsed(ok)
      PROVE  BootInv'
  BY <1>2, CallingKeeps DEF EventsParsed, BootInv
<1>3. ASSUME NEW ok \in BOOLEAN, LoadPlugin(ok)
      PROVE  BootInv'
  BY <1>3, LoadKeeps
<1>4. ASSUME NEW ok \in BOOLEAN, InitSink(ok)
      PROVE  BootInv'
  <2>1. /\ stage = "sinks" /\ CallInto({sinks[prepared + 1].plugin}) /\ UNCHANGED plugVars
        /\ prepared < Len(sinks) /\ prepared' = prepared + 1 /\ stage' \in {"sinks", "failed"}
    BY <1>4 DEF InitSink
  <2>2. sinks[prepared + 1] \in Held
    <3>1. DOMAIN sinks = 1..Len(sinks) /\ prepared + 1 \in 1..Len(sinks)
      BY <2>1 DEF BootInv, IsRegister
    <3>2. QED
      BY <3>1 DEF Held, Range
  <2>3. strayed' \subseteq Leavers
    BY <2>1, <2>2, CallKeeps
  <2>4. prepared' \in Nat
    BY <2>1 DEF BootInv
  <2>5. QED
    BY <2>1, <2>3, <2>4, CallingKeeps
<1>5. ASSUME NEW ok \in BOOLEAN, InitInput(ok)
      PROVE  BootInv'
  <2>1. /\ stage = "inputs" /\ CallInto({inputs[prepared + 1].plugin}) /\ UNCHANGED plugVars
        /\ prepared < Len(inputs) /\ prepared' = prepared + 1 /\ stage' \in {"inputs", "failed"}
    BY <1>5 DEF InitInput
  <2>2. inputs[prepared + 1] \in Held
    <3>1. DOMAIN inputs = 1..Len(inputs) /\ prepared + 1 \in 1..Len(inputs)
      BY <2>1 DEF BootInv, IsRegister
    <3>2. QED
      BY <3>1 DEF Held, Range
  <2>3. strayed' \subseteq Leavers
    BY <2>1, <2>2, CallKeeps
  <2>4. prepared' \in Nat
    BY <2>1 DEF BootInv
  <2>5. QED
    BY <2>1, <2>3, <2>4, CallingKeeps
<1>6. ASSUME Loaded
      PROVE  BootInv'
  BY <1>6, CallingKeeps DEF Loaded, BootInv
<1>7. ASSUME SinksDone
      PROVE  BootInv'
  BY <1>7, CallingKeeps DEF SinksDone, BootInv
<1>8. \A n : OnHook(n) = {hooks[i].plugin : i \in {j \in DOMAIN hooks : hooks[j].name = n}}
  BY DEF OnHook
<1>9. \A n : \A p \in OnHook(n) : \E x \in Held : p = x.plugin
  BY <1>8 DEF Held, Range
<1>10. ASSUME InitDone
       PROVE  BootInv'
  <2>1. strayed' \subseteq Leavers
    BY <1>9, <1>10, CallKeeps DEF InitDone
  <2>2. QED
    BY <1>10, <2>1, CallingKeeps DEF InitDone, BootInv
<1>11. ASSUME NEW client \in Clients, NEW e \in DOMAIN Events, NEW context \in Contexts,
              NEW fallback \in BOOLEAN, NewRequest(client, e, context, fallback)
       PROVE  BootInv'
  <2> DEFINE them == RequestHooks \cup {sinks[i].plugin : i \in DOMAIN sinks}
  <2>1. /\ stage = "running" /\ stage' = stage /\ CallInto(them) /\ UNCHANGED plugVars
        /\ prepared' = prepared
    BY <1>11 DEF NewRequest
  <2>2. \A p \in them : \E x \in Held : p = x.plugin
    BY <1>9 DEF RequestHooks, Held, Range
  <2> HIDE DEF them
  <2>3. strayed' \subseteq Leavers
    BY <2>1, <2>2, CallKeeps
  <2>4. prepared' \in Nat
    BY <2>1 DEF BootInv
  <2>5. QED
    BY <2>1, <2>3, <2>4, CallingKeeps
<1>12. ASSUME Shutdown
       PROVE  BootInv'
  <2> DEFINE them == {sinks[i].plugin : i \in DOMAIN sinks}
                       \cup {inputs[i].plugin : i \in DOMAIN inputs} \cup Range(plugins)
  <2>1. /\ stage = "running" /\ stage' = "down" /\ CallInto(them)
        /\ closed' = closed \cup Range(plugins)
        /\ plugins' = <<>> /\ sinks' = <<>> /\ inputs' = <<>>
        /\ hooks' = Only(hooks, {h \in Range(hooks) : h.plugin \notin Range(plugins)})
        /\ UNCHANGED <<toOpen, toLoad, prepared>>
    BY <1>12 DEF Shutdown
  <2>2. \A p \in them : p \in Range(plugins) \/ \E x \in Held : p = x.plugin
    BY DEF Held, Range
  <2> HIDE DEF them
  <2>3. strayed' \subseteq Leavers
    BY <2>1, <2>2, CallKeeps
  <2>4. IsRegister(hooks') /\ IsRegister(<<>>) /\ <<>> \in Seq(Plugins) /\ Range(<<>>) = {}
    <3>1. hooks \in Seq(Range(hooks))
      BY DEF BootInv, IsRegister
    <3>2. hooks' \in Seq(Range(hooks))
      BY <2>1, <3>1, OnlyKeeps
    <3>3. hooks' \in Seq(ToSet(hooks')) /\ ToSet(hooks') = Range(hooks')
      BY <3>2, OwnMembers DEF ToSet, Range
    <3>4. QED
      BY <3>3 DEF IsRegister, Range
  <2>5. QED
    BY <2>1, <2>3, <2>4 DEF BootInv
<1>13. CASE UNCHANGED boot
  <2>1. Held' = Held
    BY <1>13 DEF boot, plugVars, Held
  <2>2. QED
    BY <1>13, <2>1 DEF boot, plugVars, BootInv, IsRegister
<1>14. QED
  BY <1>1, <1>2, <1>3, <1>4, <1>5, <1>6, <1>7, <1>10, <1>11, <1>12, <1>13 DEF BootNext

LEMMA BootInvHolds == BootSpec => []BootInv
<1>1. QED
  BY BootInitHolds, BootNextKeeps, PTL DEF BootSpec

\* No function of a plugin is called once its module is closed, wherever a
\* plugin fails and in whatever order they are named: but those that an
\* optional plugin left behind.
THEOREM CallsStayIn == BootSpec => []CallsReachOpenPlugins
<1>1. BootInv => CallsReachOpenPlugins
  BY DEF BootInv, CallsReachOpenPlugins, Leavers
<1>2. QED
  BY <1>1, BootInvHolds, PTL

-----------------------------------------------------------------------------
(* What a client says.                                                     *)

LEMMA OverFacts ==
  ASSUME NEW new, NEW old
  PROVE  /\ DOMAIN Over(new, old) = DOMAIN new \cup DOMAIN old
         /\ \A k \in DOMAIN new : Over(new, old)[k] = new[k]
         /\ \A k \in DOMAIN old \ DOMAIN new : Over(new, old)[k] = old[k]
BY DEF Over

LEMMA PutDomain ==
  ASSUME NEW props, NEW k, NEW v
  PROVE  DOMAIN Put(props, k, v) = DOMAIN props \cup {k}
BY DEF Put, Over

LEMMA PutFacts ==
  ASSUME NEW props, NEW k, NEW v
  PROVE  /\ DOMAIN Put(props, k, v) = DOMAIN props \cup {k}
         /\ Put(props, k, v)[k] = v
         /\ \A x \in DOMAIN props \ {k} : Put(props, k, v)[x] = props[x]
BY DEF Put, Over

CustomNames(event) == IF Says(event, Custom, "true") THEN {Filename, Enabled} ELSE {}

MappedNames(client) ==
  UNION {{KeyMap[a], Original[KeyMap[a]]} :
           a \in Range(Allowed) \cap DOMAIN KeyMap \cap DOMAIN client}

\* The keys under which something that this client says may get through.
Reachable(client, event) ==
  (Range(Allowed) \ DOMAIN KeyMap) \cup MappedNames(client) \cup CustomNames(event)

\* The properties after the first m allowed keys.
Passed(start, props, m, f) ==
  f = [n \in 0..m |-> IF n = 0 THEN start ELSE AllowKey(f[n - 1], Allowed[n], props)]

LEMMA PassedExists ==
  ASSUME NEW start, NEW props
  PROVE  \E f : Passed(start, props, Len(Allowed), f)
<1> DEFINE T == {m \in Nat : \E f : Passed(start, props, m, f)}
<1>1. 0 \in T
  <2>1. Passed(start, props, 0, [n \in 0..0 |-> start])
    BY DEF Passed
  <2>2. QED
    BY <2>1
<1>2. ASSUME NEW m \in Nat, m \in T
      PROVE  m + 1 \in T
  <2>1. PICK f : Passed(start, props, m, f)
    BY <1>2
  <2> DEFINE last == AllowKey(f[m], Allowed[m + 1], props)
             g    == [n \in 0..(m + 1) |-> IF n = m + 1 THEN last ELSE f[n]]
  <2>2. ASSUME NEW n \in 0..(m + 1)
        PROVE  g[n] = IF n = 0 THEN start ELSE AllowKey(g[n - 1], Allowed[n], props)
    <3>1. CASE n = m + 1
      <4>1. n # 0 /\ n - 1 = m /\ n - 1 \in 0..(m + 1) /\ n - 1 # m + 1
        BY <3>1
      <4>2. g[n - 1] = f[m] /\ g[n] = last
        BY <3>1, <4>1
      <4>3. QED
        BY <3>1, <4>1, <4>2
    <3>2. CASE n # m + 1
      <4>1. n \in 0..m /\ g[n] = f[n] /\ (n # 0 => g[n - 1] = f[n - 1])
        BY <3>2
      <4>2. f[n] = IF n = 0 THEN start ELSE AllowKey(f[n - 1], Allowed[n], props)
        BY <2>1, <4>1 DEF Passed
      <4>3. QED
        BY <4>1, <4>2
    <3>3. QED
      BY <3>1, <3>2
  <2> HIDE DEF last
  <2>3. Passed(start, props, m + 1, g)
    BY <2>2 DEF Passed
  <2>4. QED
    BY <2>3
<1>3. Nat \subseteq T
  <2> HIDE DEF T
  <2>1. QED
    BY <1>1, <1>2, SetInduction
<1>4. Len(Allowed) \in T
  BY <1>3, PipelineAssumption
<1>5. QED
  BY <1>4

LEMMA AllowStep ==
  ASSUME NEW new, NEW a \in Range(Allowed), NEW client, NEW event,
         DOMAIN new \subseteq Reachable(client, event)
  PROVE  DOMAIN AllowKey(new, a, client) \subseteq Reachable(client, event)
<1>1. CASE a \notin DOMAIN client
  <2>1. AllowKey(new, a, client) = new
    BY <1>1, Zenon DEF AllowKey
  <2>2. QED
    BY <2>1
<1>2. CASE a \in DOMAIN client /\ a \notin DOMAIN KeyMap
  <2>1. AllowKey(new, a, client) = Put(new, a, client[a])
    BY <1>2 DEF AllowKey
  <2>2. a \in Reachable(client, event)
    BY <1>2 DEF Reachable
  <2>3. DOMAIN Put(new, a, client[a]) = DOMAIN new \cup {a}
    BY PutDomain
  <2>4. QED
    BY <2>1, <2>2, <2>3
<1>3. CASE a \in DOMAIN client /\ a \in DOMAIN KeyMap
  <2> DEFINE t == KeyMap[a]
             saved == IF t \in DOMAIN client THEN Put(new, Original[t], client[t]) ELSE new
  <2>1. AllowKey(new, a, client) = Put(saved, t, client[a])
    BY <1>3 DEF AllowKey
  <2>2. t \in Reachable(client, event) /\ Original[t] \in Reachable(client, event)
    <3>1. a \in Range(Allowed) \cap DOMAIN KeyMap \cap DOMAIN client
      BY <1>3
    <3>2. {t, Original[t]} \subseteq
            UNION {{KeyMap[x], Original[KeyMap[x]]} :
                     x \in Range(Allowed) \cap DOMAIN KeyMap \cap DOMAIN client}
      BY <3>1
    <3>3. QED
      BY <3>2 DEF Reachable, MappedNames
  <2> HIDE DEF t
  <2>3. DOMAIN Put(new, Original[t], client[t]) = DOMAIN new \cup {Original[t]}
    BY PutDomain
  <2>4. DOMAIN saved \subseteq Reachable(client, event)
    BY <2>2, <2>3
  <2> HIDE DEF saved
  <2>5. DOMAIN Put(saved, t, client[a]) = DOMAIN saved \cup {t}
    BY PutDomain
  <2>6. QED
    BY <2>1, <2>2, <2>4, <2>5
<1>4. QED
  BY <1>1, <1>2, <1>3

\* What the allowed keys make of what a client says.
LEMMA AllowFacts ==
  ASSUME NEW client, NEW event, NEW start,
         DOMAIN start \subseteq Reachable(client, event)
  PROVE  DOMAIN AllowEach(start, client) \subseteq Reachable(client, event)
<1> DEFINE g == CHOOSE f : Passed(start, client, Len(Allowed), f)
<1>1. Passed(start, client, Len(Allowed), g)
  BY PassedExists, Zenon
<1>2. AllowEach(start, client) = g[Len(Allowed)]
  BY DEF AllowEach, Through, Passed
<1> HIDE DEF g
<1> DEFINE T == {m \in Nat : m <= Len(Allowed) => DOMAIN g[m] \subseteq Reachable(client, event)}
<1>3. \A n \in 0..Len(Allowed) :
        g[n] = IF n = 0 THEN start ELSE AllowKey(g[n - 1], Allowed[n], client)
  BY <1>1 DEF Passed
<1>4. Len(Allowed) \in Nat /\ \A i \in 1..Len(Allowed) : Allowed[i] \in Range(Allowed)
  BY PipelineAssumption
<1>5. 0 \in T
  BY <1>3, <1>4
<1>6. ASSUME NEW m \in Nat, m \in T
      PROVE  m + 1 \in T
  <2>1. SUFFICES ASSUME m + 1 <= Len(Allowed)
                 PROVE  DOMAIN g[m + 1] \subseteq Reachable(client, event)
    OBVIOUS
  <2>2. DOMAIN g[m] \subseteq Reachable(client, event)
    BY <1>4, <1>6, <2>1
  <2>3. g[m + 1] = AllowKey(g[m], Allowed[m + 1], client) /\ Allowed[m + 1] \in Range(Allowed)
    BY <1>3, <1>4, <2>1
  <2>4. QED
    BY <2>2, <2>3, AllowStep
<1>7. Nat \subseteq T
  <2> HIDE DEF T
  <2>1. QED
    BY <1>5, <1>6, SetInduction
<1>8. Len(Allowed) \in T
  BY <1>4, <1>7
<1>9. QED
  BY <1>2, <1>4, <1>8

\* No value under a key outside these is from the client.
FromClientIn(props, keys) == \A k \in DOMAIN props : props[k].from = "client" => k \in keys

LEMMA AskedFiltered ==
  ASSUME NEW client, NEW event, NEW context \in Contexts, ~AllowAll
  PROVE  FromClientIn(AllowKeys(client, event, context), Reachable(client, event))
<1> DEFINE custom   == Says(event, Custom, "true")
           silenced == Lookup \in DOMAIN event /\ Says(context, event[Lookup].is, NoSound)
           start    == IF custom THEN CustomKeys(client) ELSE <<>>
           passed   == AllowEach(start, client)
           asked    == AllowKeys(client, event, context)
<1>1. DOMAIN start \subseteq Reachable(client, event)
  <2>1. CASE custom
    <3>1. DOMAIN start \subseteq {Filename, Enabled}
      BY <2>1 DEF CustomKeys
    <3>2. CustomNames(event) = {Filename, Enabled}
      BY <2>1 DEF CustomNames
    <3>3. CustomNames(event) \subseteq Reachable(client, event)
      BY DEF Reachable
    <3>4. QED
      BY <3>1, <3>2, <3>3
  <2>2. CASE ~custom
    BY <2>2
  <2>3. QED
    BY <2>1, <2>2
<1> HIDE DEF start
<1>2. DOMAIN passed \subseteq Reachable(client, event)
  BY <1>1, AllowFacts
<1>3. asked = IF silenced /\ ~custom THEN Put(passed, Filename, context[event[Lookup].is])
              ELSE passed
  BY DEF AllowKeys, start
<1> HIDE DEF passed, asked
<1>4. CASE silenced /\ ~custom
  <2>1. event[Lookup].is \in DOMAIN context
    BY <1>4 DEF Says
  <2>2. context[event[Lookup].is].from # "client"
    BY <2>1, SayingsAssumption
  <2> DEFINE v == context[event[Lookup].is]
  <2> HIDE DEF v
  <2>3. /\ DOMAIN Put(passed, Filename, v) = DOMAIN passed \cup {Filename}
        /\ Put(passed, Filename, v)[Filename] = v
        /\ \A x \in DOMAIN passed \ {Filename} : Put(passed, Filename, v)[x] = passed[x]
    BY DEF Put, Over
  <2>4. asked = Put(passed, Filename, v) /\ v.from # "client"
    BY <1>3, <1>4, <2>2 DEF v
  <2>5. FromClientIn(asked, Reachable(client, event))
    BY <1>2, <2>3, <2>4 DEF FromClientIn
  <2>6. QED
    BY <2>5 DEF asked
<1>5. CASE ~(silenced /\ ~custom)
  BY <1>2, <1>3, <1>5 DEF FromClientIn, asked
<1>6. QED
  BY <1>4, <1>5

LEMMA MergeFiltered ==
  ASSUME NEW props, NEW keys, FromClientIn(props, keys), NEW e \in DOMAIN Events
  PROVE  FromClientIn(Merge(props, Events[e]), keys)
<1>1. Events[e] \in Range(Events)
  BY DEF Range
<1>2. \A k \in DOMAIN Events[e] : Events[e][k].from # "client"
  BY <1>1, SayingsAssumption
<1> DEFINE event == Events[e]
<1> HIDE DEF event
<1>3. FromClientIn(Over(props, event), keys)
  <2>1. /\ DOMAIN Over(props, event) = DOMAIN props \cup DOMAIN event
        /\ \A k \in DOMAIN props : Over(props, event)[k] = props[k]
        /\ \A k \in DOMAIN event \ DOMAIN props : Over(props, event)[k] = event[k]
    BY OverFacts
  <2>2. QED
    BY <1>2, <2>1 DEF FromClientIn, event
<1>4. QED
  BY <1>3 DEF Merge, event

\* No fallback is a key under which a client is heard.
LEMMA TranslateFiltered ==
  ASSUME NEW props, NEW keys, FromClientIn(props, keys), Range(Fallback) \cap keys = {}
  PROVE  FromClientIn(Translate(props), keys)
<1> DEFINE has  == {k \in DOMAIN Fallback : Fallback[k] \in DOMAIN props}
           back == [k \in has |-> props[Fallback[k]]]
<1>1. Translate(props) = Over(back, props)
  BY DEF Translate
<1>2. \A k \in DOMAIN back : back[k].from # "client"
  BY DEF FromClientIn, Range
<1> HIDE DEF back
<1>3. /\ DOMAIN Over(back, props) = DOMAIN back \cup DOMAIN props
      /\ \A k \in DOMAIN back : Over(back, props)[k] = back[k]
      /\ \A k \in DOMAIN props \ DOMAIN back : Over(back, props)[k] = props[k]
  BY OverFacts
<1>4. QED
  BY <1>1, <1>2, <1>3 DEF FromClientIn

\* What the first m keys of the profile give.
OfKeys(props, context, fallback, m, f) ==
  f = [n \in 0..m |-> IF n = 0 THEN <<>> ELSE SetFromProfile(f[n - 1], ProfileKeys[n], props, context, fallback)]

LEMMA OfKeysExist ==
  ASSUME NEW props, NEW context, NEW fallback
  PROVE  \E f : OfKeys(props, context, fallback, Len(ProfileKeys), f)
<1> DEFINE T == {m \in Nat : \E f : OfKeys(props, context, fallback, m, f)}
<1>1. 0 \in T
  <2>1. OfKeys(props, context, fallback, 0, [n \in 0..0 |-> <<>>])
    BY DEF OfKeys
  <2>2. QED
    BY <2>1
<1>2. ASSUME NEW m \in Nat, m \in T
      PROVE  m + 1 \in T
  <2>1. PICK f : OfKeys(props, context, fallback, m, f)
    BY <1>2
  <2> DEFINE last == SetFromProfile(f[m], ProfileKeys[m + 1], props, context, fallback)
             g    == [n \in 0..(m + 1) |-> IF n = m + 1 THEN last ELSE f[n]]
  <2>2. ASSUME NEW n \in 0..(m + 1)
        PROVE  g[n] = IF n = 0 THEN <<>> ELSE SetFromProfile(g[n - 1], ProfileKeys[n], props, context, fallback)
    <3>1. CASE n = m + 1
      <4>1. n # 0 /\ n - 1 = m /\ n - 1 \in 0..(m + 1) /\ n - 1 # m + 1
        BY <3>1
      <4>2. g[n - 1] = f[m] /\ g[n] = last
        BY <3>1, <4>1
      <4>3. QED
        BY <3>1, <4>1, <4>2
    <3>2. CASE n # m + 1
      <4>1. n \in 0..m /\ g[n] = f[n] /\ (n # 0 => g[n - 1] = f[n - 1])
        BY <3>2
      <4>2. f[n] = IF n = 0 THEN <<>> ELSE SetFromProfile(f[n - 1], ProfileKeys[n], props, context, fallback)
        BY <2>1, <4>1 DEF OfKeys
      <4>3. QED
        BY <4>1, <4>2
    <3>3. QED
      BY <3>1, <3>2
  <2> HIDE DEF last
  <2>3. OfKeys(props, context, fallback, m + 1, g)
    BY <2>2 DEF OfKeys
  <2>4. QED
    BY <2>3
<1>3. Nat \subseteq T
  <2> HIDE DEF T
  <2>1. QED
    BY <1>1, <1>2, SetInduction
<1>4. Len(ProfileKeys) \in T
  BY <1>3, PipelineAssumption
<1>5. QED
  BY <1>4

\* Nothing of it is from the client.
IsOfProfile(new) ==
  DOMAIN new \subseteq Targets /\ \A k \in DOMAIN new : new[k].from # "client"

LEMMA ProfileStep ==
  ASSUME NEW new, IsOfProfile(new), NEW k, NEW props, NEW context \in Contexts, NEW fallback
  PROVE  IsOfProfile(SetFromProfile(new, k, props, context, fallback))
<1> DEFINE entry   == ProfileEntry[props[k].is]
           applies == /\ k \in DOMAIN props /\ props[k].is \in DOMAIN ProfileEntry
                      /\ fallback \/ entry.target \notin DOMAIN props
                      /\ entry.key \in DOMAIN context
           t == entry.target
           v == context[entry.key]
           next == SetFromProfile(new, k, props, context, fallback)
<1>1. next = IF applies THEN Put(new, t, v) ELSE new
  BY DEF SetFromProfile
<1>2. CASE applies
  <2>1. v.from # "client" /\ t \in Targets
    BY <1>2, SayingsAssumption DEF Targets
  <2>2. next = Put(new, t, v)
    BY <1>1, <1>2
  <2> HIDE DEF t, v, next
  <2>3. /\ DOMAIN Put(new, t, v) = DOMAIN new \cup {t}
        /\ Put(new, t, v)[t] = v
        /\ \A x \in DOMAIN new \ {t} : Put(new, t, v)[x] = new[x]
    BY DEF Put, Over
  <2>4. IsOfProfile(next)
    BY <2>1, <2>2, <2>3 DEF IsOfProfile
  <2>5. QED
    BY <2>4 DEF next
<1>3. CASE ~applies
  <2>1. next = new
    BY <1>1, <1>3
  <2>2. QED
    BY <2>1
<1>4. QED
  BY <1>2, <1>3

LEMMA ProfileFacts ==
  ASSUME NEW props, NEW context \in Contexts, NEW fallback
  PROVE  IsOfProfile(OfProfile(props, context, fallback))
<1> DEFINE g == CHOOSE f : OfKeys(props, context, fallback, Len(ProfileKeys), f)
           N == Len(ProfileKeys)
<1>1. OfKeys(props, context, fallback, N, g)
  BY OfKeysExist, Zenon
<1>2. OfProfile(props, context, fallback) = g[N]
  BY DEF OfProfile, Through, OfKeys
<1> HIDE DEF g
<1> DEFINE T == {m \in Nat : m <= N => IsOfProfile(g[m])}
<1>3. \A n \in 0..N :
        g[n] = IF n = 0 THEN <<>> ELSE SetFromProfile(g[n - 1], ProfileKeys[n], props, context, fallback)
  BY <1>1 DEF OfKeys
<1>4. N \in Nat
  BY PipelineAssumption
<1> HIDE DEF N
<1>5. 0 \in T
  <2>1. g[0] = <<>> /\ DOMAIN <<>> = {}
    BY <1>3, <1>4
  <2>2. IsOfProfile(g[0])
    BY <2>1 DEF IsOfProfile
  <2>3. QED
    BY <2>2
<1>6. ASSUME NEW m \in Nat, m \in T
      PROVE  m + 1 \in T
  <2>1. SUFFICES ASSUME m + 1 <= N
                 PROVE  IsOfProfile(g[m + 1])
    OBVIOUS
  <2>2. IsOfProfile(g[m])
    BY <1>4, <1>6, <2>1
  <2>3. g[m + 1] = SetFromProfile(g[m], ProfileKeys[m + 1], props, context, fallback)
    BY <1>3, <1>4, <2>1
  <2>4. QED
    BY <2>2, <2>3, ProfileStep
<1>7. Nat \subseteq T
  <2> HIDE DEF T
  <2>1. QED
    BY <1>5, <1>6, SetInduction
<1>8. N \in T
  BY <1>4, <1>7
<1>9. QED
  BY <1>2, <1>4, <1>8

LEMMA ProfileFiltered ==
  ASSUME NEW props, NEW keys, FromClientIn(props, keys), NEW context \in Contexts, NEW fallback
  PROVE  FromClientIn(FromProfile(props, context, fallback), keys)
<1> DEFINE new == OfProfile(props, context, fallback)
<1>1. FromProfile(props, context, fallback) = Over(new, props)
  BY DEF FromProfile
<1>2. \A k \in DOMAIN new : new[k].from # "client"
  BY ProfileFacts DEF IsOfProfile
<1> HIDE DEF new
<1>3. /\ DOMAIN Over(new, props) = DOMAIN new \cup DOMAIN props
      /\ \A k \in DOMAIN new : Over(new, props)[k] = new[k]
      /\ \A k \in DOMAIN props \ DOMAIN new : Over(new, props)[k] = props[k]
  BY OverFacts
<1>4. QED
  BY <1>1, <1>2, <1>3 DEF FromClientIn

LEMMA PropertiesFiltered ==
  ASSUME FallbacksAreOwn, ~AllowAll, NEW firing, "transform" \in firing, NEW client,
         NEW e \in DOMAIN Events, NEW context \in Contexts, NEW fallback \in BOOLEAN
  PROVE  FromClientIn(Properties(firing, client, Events[e], context, fallback),
                      Reachable(client, Events[e]))
<1> DEFINE event  == Events[e]
           keys   == Reachable(client, event)
           asked  == AllowKeys(client, event, context)
           merged == Merge(asked, event)
           whole  == IF fallback THEN Translate(merged) ELSE merged
<1>1. FromClientIn(asked, keys)
  BY AskedFiltered
<1>2. Properties(firing, client, event, context, fallback) =
        IF "profile" \in firing THEN FromProfile(whole, context, fallback) ELSE whole
  BY DEF Properties
<1>3. Range(Fallback) \cap keys = {}
  <2>1. \A k \in keys : k \in Range(Allowed) \cup Range(KeyMap) \cup Range(Original) \cup {Filename, Enabled}
    <3>1. MappedNames(client) \subseteq Range(KeyMap) \cup Range(Original)
      <4>1. \A a \in DOMAIN KeyMap : KeyMap[a] \in Range(KeyMap) /\ Original[KeyMap[a]] \in Range(Original)
        BY PipelineAssumption DEF Range
      <4>2. QED
        BY <4>1 DEF MappedNames
    <3>2. CustomNames(event) \subseteq {Filename, Enabled}
      BY DEF CustomNames
    <3>3. QED
      BY <3>1, <3>2 DEF Reachable
  <2>2. QED
    BY <2>1 DEF FallbacksAreOwn
<1> HIDE DEF keys, asked
<1>4. FromClientIn(merged, keys)
  BY <1>1, MergeFiltered
<1> HIDE DEF merged
<1>5. FromClientIn(whole, keys)
  BY <1>3, <1>4, TranslateFiltered
<1> HIDE DEF whole
<1>6. FromClientIn(Properties(firing, client, event, context, fallback), keys)
  BY <1>2, <1>5, ProfileFiltered
<1>7. QED
  BY <1>6 DEF keys

\* Plugins that the request pipeline has by name are on a hook of it.
HooksInv ==
  stage # "down" => Range(plugins) \cap {"transform", "resource"} \subseteq RequestHooks

\* What hooks have on a hook of the request pipeline.
LEMMA OnRequestHooks ==
  ASSUME NEW x \in Range(hooks), x.name \in {"NEW_REQUEST", "TRANSFORM_PROPERTIES", "FILTER_SINKS"}
  PROVE  x.plugin \in RequestHooks
<1>1. PICK i \in DOMAIN hooks : hooks[i] = x
  BY DEF Range
<1>2. x.plugin \in OnHook(x.name)
  BY <1>1 DEF OnHook
<1>3. QED
  BY <1>2 DEF RequestHooks

LEMMA HooksOfRequest ==
  ASSUME NEW p \in RequestHooks
  PROVE  \E x \in Range(hooks) :
           x.plugin = p /\ x.name \in {"NEW_REQUEST", "TRANSFORM_PROPERTIES", "FILTER_SINKS"}
<1>1. PICK h \in {"NEW_REQUEST", "TRANSFORM_PROPERTIES", "FILTER_SINKS"} : p \in OnHook(h)
  BY DEF RequestHooks
<1>2. PICK i \in DOMAIN hooks : hooks[i].name = h /\ hooks[i].plugin = p
  BY <1>1 DEF OnHook
<1>3. QED
  BY <1>1, <1>2 DEF Range

LEMMA HooksNext == BootInv /\ HooksInv /\ [BootNext]_boot => HooksInv'
<1> SUFFICES ASSUME BootInv, HooksInv, [BootNext]_boot
             PROVE  HooksInv'
  OBVIOUS
<1>1. ASSUME NEW ok \in BOOLEAN, LoadPlugin(ok)
      PROVE  HooksInv'
  <2> DEFINE p == Head(toLoad)
             names == {"NEW_REQUEST", "TRANSFORM_PROPERTIES", "FILTER_SINKS"}
  <2>1. PICK n \in IF ok THEN {Len(Registers[p])} ELSE FailsAfter[p] :
          /\ hooks'  = hooks  \o RegisteredBy(p, n, "hook")
          /\ IF ok THEN plugins' = Append(plugins, p) ELSE UNCHANGED plugins
    BY <1>1 DEF LoadPlugin
  <2>2. p \in Plugins /\ stage = "load"
    BY <1>1, HeadAndTail, Zenon DEF BootInv, LoadPlugin
  <2> HIDE DEF p
  <2>3. n \in 0..Len(Registers[p])
    <3>1. Registers[p] \in Seq(Range(Registers[p])) /\ FailsAfter[p] \subseteq 0..Len(Registers[p])
      BY <2>2, StartAssumption DEF Plugins
    <3>2. Len(Registers[p]) \in 0..Len(Registers[p])
      BY <3>1
    <3>3. QED
      BY <3>1, <3>2
  <2> DEFINE h == RegisteredBy(p, n, "hook")
  <2>4. /\ IsRegister(h)
        /\ n = Len(Registers[p]) =>
             \A i \in DOMAIN Registers[p] :
               Registers[p][i].kind = "hook" =>
                 \E x \in Range(h) : x.name = Registers[p][i].name /\ x.plugin = p
    BY <2>2, <2>3, RegisteredFacts
  <2>5. hooks' = hooks \o h
    BY <2>1
  <2> HIDE DEF h
  <2>6. Range(hooks') = Range(hooks) \cup Range(h)
    BY <2>4, <2>5, RegisterJoined DEF BootInv
  <2>7. \A q \in RequestHooks : q \in RequestHooks'
    <3>1. SUFFICES ASSUME NEW q \in RequestHooks
                   PROVE  q \in RequestHooks'
      OBVIOUS
    <3>2. PICK x \in Range(hooks) : x.plugin = q /\ x.name \in names
      BY HooksOfRequest
    <3>3. x \in Range(hooks')
      BY <2>6
    <3>4. PICK i \in DOMAIN hooks' : hooks'[i] = x
      BY <3>3 DEF Range
    <3>5. QED
      BY <3>2, <3>4 DEF RequestHooks, OnHook
  <2>8. ASSUME NEW q \in Range(plugins') \cap {"transform", "resource"}
        PROVE  q \in RequestHooks'
    <3>1. CASE q \in Range(plugins)
      BY <2>2, <2>7, <3>1 DEF HooksInv
    <3>2. CASE q \notin Range(plugins)
      <4>1. ok /\ q = p
        <5>1. plugins \in Seq(Plugins)
          BY DEF BootInv
        <5>2. Range(Append(plugins, p)) = Range(plugins) \cup {p}
          BY <2>2, <5>1, Appended
        <5>3. QED
          BY <2>1, <2>8, <3>2, <5>2
      <4>2. n = Len(Registers[p])
        BY <2>1, <4>1
      <4>3. PICK i \in DOMAIN Registers[p] :
              Registers[p][i].kind = "hook" /\ Registers[p][i].name \in names
        BY <2>2, <2>8, <4>1, StartAssumption DEF Plugins
      <4>4. PICK x \in Range(h) : x.name \in names /\ x.plugin = p
        BY <2>4, <4>2, <4>3
      <4>5. PICK j \in DOMAIN hooks' : hooks'[j] = x
        BY <2>6, <4>4 DEF Range
      <4>6. QED
        BY <4>1, <4>4, <4>5 DEF RequestHooks, OnHook
    <3>3. QED
      BY <3>1, <3>2
  <2>9. QED
    BY <2>8 DEF HooksInv
<1>2. CASE Shutdown
  BY <1>2 DEF Shutdown, HooksInv
<1>3. ASSUME hooks' = hooks, plugins' = plugins, stage' # "down" => stage # "down"
      PROVE  HooksInv'
  BY <1>3 DEF HooksInv, RequestHooks, OnHook
<1>4. ASSUME NEW ok \in BOOLEAN,
             OpenPlugin(ok) \/ EventsParsed(ok) \/ InitSink(ok) \/ InitInput(ok)
      PROVE  HooksInv'
  BY <1>3, <1>4 DEF OpenPlugin, EventsParsed, InitSink, InitInput, plugVars
<1>5. CASE Loaded \/ SinksDone \/ InitDone
  BY <1>3, <1>5 DEF Loaded, SinksDone, InitDone, plugVars
<1>6. ASSUME NEW client \in Clients, NEW e \in DOMAIN Events, NEW context \in Contexts,
             NEW fallback \in BOOLEAN, NewRequest(client, e, context, fallback)
      PROVE  HooksInv'
  BY <1>3, <1>6 DEF NewRequest, plugVars
<1>7. CASE UNCHANGED boot
  BY <1>3, <1>7 DEF boot, plugVars
<1>8. QED
  BY <1>1, <1>2, <1>4, <1>5, <1>6, <1>7 DEF BootNext

\* Nothing was offered before the start was over, and nobody is there after
\* the end.
IdleInv ==
  /\ stage \notin {"running", "down"} => request = NoRequest /\ offer = NoOffer
  /\ stage = "down" => Range(plugins) = {}

LEMMA IdleNext == IdleInv /\ [BootNext]_boot => IdleInv'
<1> SUFFICES ASSUME IdleInv, [BootNext]_boot
             PROVE  IdleInv'
  OBVIOUS
<1>1. ASSUME stage \notin {"running", "down"}, UNCHANGED <<request, offer>>, stage' # "down"
      PROVE  IdleInv'
  BY <1>1 DEF IdleInv
<1>2. ASSUME NEW ok \in BOOLEAN,
             OpenPlugin(ok) \/ EventsParsed(ok) \/ LoadPlugin(ok) \/ InitSink(ok) \/ InitInput(ok)
      PROVE  IdleInv'
  <2>1. CASE OpenPlugin(ok)
    BY <1>1, <2>1 DEF OpenPlugin
  <2>2. CASE EventsParsed(ok)
    BY <1>1, <2>2 DEF EventsParsed
  <2>3. CASE LoadPlugin(ok)
    BY <1>1, <2>3 DEF LoadPlugin, AfterFailure
  <2>4. CASE InitSink(ok) \/ InitInput(ok)
    BY <1>1, <2>4 DEF InitSink, InitInput
  <2>5. QED
    BY <1>2, <2>1, <2>2, <2>3, <2>4
<1>3. CASE Loaded \/ SinksDone
  BY <1>1, <1>3 DEF Loaded, SinksDone
<1>4. CASE InitDone
  BY <1>4 DEF InitDone, IdleInv
<1>5. ASSUME NEW client \in Clients, NEW e \in DOMAIN Events, NEW context \in Contexts,
             NEW fallback \in BOOLEAN, NewRequest(client, e, context, fallback)
      PROVE  IdleInv'
  BY <1>5 DEF NewRequest, IdleInv
<1>6. CASE Shutdown
  <2>1. stage' = "down" /\ plugins' = <<>>
    BY <1>6 DEF Shutdown
  <2>2. QED
    BY <2>1 DEF IdleInv, Range
<1>7. CASE UNCHANGED boot
  BY <1>7 DEF boot, plugVars, IdleInv
<1>8. QED
  BY <1>2, <1>3, <1>4, <1>5, <1>6, <1>7 DEF BootNext

LEMMA StartedHolds == BootSpec => [](BootInv /\ HooksInv /\ IdleInv)
<1>1. BootInit => HooksInv /\ IdleInv
  BY DEF BootInit, HooksInv, IdleInv, Range
<1>2. QED
  BY <1>1, BootInitHolds, BootNextKeeps, HooksNext, IdleNext, PTL DEF BootSpec

\* Which hooks of the request pipeline fire.
LEMMA FiringFacts ==
  ASSUME BootInv, HooksInv, stage = "running", NEW p \in {"transform", "resource"}
  PROVE  p \in RequestHooks \ closed <=> p \in Range(plugins)
<1>1. ASSUME p \in Range(plugins)
      PROVE  p \in RequestHooks \ closed
  BY <1>1 DEF HooksInv, BootInv
<1>2. ASSUME p \in RequestHooks \ closed
      PROVE  p \in Range(plugins)
  <2>1. PICK x \in Range(hooks) : x.plugin = p
    BY <1>2, HooksOfRequest
  <2>2. x \in Held
    BY DEF Held
  <2>3. QED
    BY <1>2, <2>1, <2>2 DEF BootInv
<1>3. QED
  BY <1>1, <1>2

\* What is said of clients, as ClientKeysAreFiltered says it.
Filtered ==
  "transform" \in Range(plugins) /\ ~AllowAll =>
    FromClientIn(offer.props, Reachable(request.client, request.event))

LEMMA FilteredNext ==
  FallbacksAreOwn /\ BootInv /\ HooksInv /\ IdleInv /\ IdleInv' /\ Filtered /\ [BootNext]_boot => Filtered'
<1> SUFFICES ASSUME FallbacksAreOwn, BootInv, HooksInv, IdleInv, IdleInv', Filtered, [BootNext]_boot
             PROVE  Filtered'
  OBVIOUS
<1>1. ASSUME NEW client \in Clients, NEW e \in DOMAIN Events, NEW context \in Contexts,
             NEW fallback \in BOOLEAN, NewRequest(client, e, context, fallback)
      PROVE  Filtered'
  <2> DEFINE firing == RequestHooks \ closed
             props  == Properties(firing, client, Events[e], context, fallback)
  <2>1. /\ stage = "running" /\ plugins' = plugins
        /\ request'.client = client /\ request'.event = Events[e]
        /\ offer'.props = props
    BY <1>1 DEF NewRequest, plugVars
  <2>2. SUFFICES ASSUME "transform" \in Range(plugins), ~AllowAll
                 PROVE  FromClientIn(props, Reachable(client, Events[e]))
    BY <2>1 DEF Filtered
  <2>3. "transform" \in firing
    BY <2>1, <2>2, FiringFacts
  <2> HIDE DEF firing
  <2>4. QED
    BY <2>2, <2>3, PropertiesFiltered
<1>2. CASE stage' \notin {"running", "down"} \/ stage' = "down"
  <2>1. CASE stage' = "down"
    BY <2>1 DEF IdleInv, Filtered
  <2>2. CASE stage' \notin {"running", "down"}
    BY <2>2 DEF IdleInv, NoOffer, Filtered, FromClientIn
  <2>3. QED
    BY <1>2, <2>1, <2>2
<1>3. CASE InitDone
  <2>1. offer' = NoOffer
    BY <1>3 DEF InitDone, IdleInv
  <2>2. QED
    BY <2>1 DEF NoOffer, Filtered, FromClientIn
<1>4. CASE UNCHANGED boot
  BY <1>4 DEF boot, plugVars, Filtered
<1>5. ASSUME ~InitDone, stage' = "running",
             ~\E client \in Clients, e \in DOMAIN Events, context \in Contexts, fallback \in BOOLEAN :
                NewRequest(client, e, context, fallback)
      PROVE  UNCHANGED boot
  BY <1>5 DEF BootNext, OpenPlugin, EventsParsed, LoadPlugin, AfterFailure, InitSink, InitInput, Loaded,
              SinksDone, Shutdown
<1>6. QED
  BY <1>1, <1>2, <1>3, <1>4, <1>5

\* What a client says reaches the sinks under the keys it may use and no
\* others, whatever the configuration allows, maps and takes from the profile,
\* as long as the keys of fallbacks are none of those.
THEOREM ClientsAreFiltered ==
  FallbacksAreOwn => (BootSpec => []ClientKeysAreFiltered)
<1> SUFFICES ASSUME FallbacksAreOwn
             PROVE  BootSpec => []ClientKeysAreFiltered
  OBVIOUS
<1>1. BootInit => Filtered
  BY DEF BootInit, NoOffer, Filtered, FromClientIn
<1>2. Filtered => ClientKeysAreFiltered
  <2> SUFFICES ASSUME Filtered, "transform" \in Range(plugins), ~AllowAll,
                      NEW k \in DOMAIN offer.props, offer.props[k].from = "client"
               PROVE  \/ k \in Range(Allowed) \ DOMAIN KeyMap
                      \/ \E a \in Range(Allowed) \cap DOMAIN KeyMap \cap DOMAIN request.client :
                           k \in {KeyMap[a], Original[KeyMap[a]]}
                      \/ k \in {Filename, Enabled} /\ Says(request.event, Custom, "true")
    BY DEF ClientKeysAreFiltered
  <2>1. k \in Reachable(request.client, request.event)
    BY DEF Filtered, FromClientIn
  <2>2. k \in CustomNames(request.event) =>
          k \in {Filename, Enabled} /\ Says(request.event, Custom, "true")
    BY Zenon DEF CustomNames
  <2>3. k \in MappedNames(request.client) =>
          \E a \in Range(Allowed) \cap DOMAIN KeyMap \cap DOMAIN request.client :
            k \in {KeyMap[a], Original[KeyMap[a]]}
    BY DEF MappedNames
  <2>4. QED
    BY <2>1, <2>2, <2>3, Zenon DEF Reachable
<1>3. QED
  BY <1>1, <1>2, StartedHolds, FilteredNext, PTL DEF BootSpec

-----------------------------------------------------------------------------
(* The order of the sinks.                                                 *)

\* Priorities do not rise in q.
Falling(q, pr) == \A i, j \in DOMAIN q : i < j => pr[q[i]] >= pr[q[j]]

LEMMA OnlyKeepsOrder ==
  ASSUME NEW S, NEW pr \in [S -> Nat], NEW s \in Seq(S), NEW E, IsInjective(s), Falling(s, pr)
  PROVE  /\ Only(s, E) \in Seq(S) /\ Range(Only(s, E)) = Range(s) \cap E
         /\ IsInjective(Only(s, E)) /\ Falling(Only(s, E), pr)
<1> DEFINE q == Only(s, E)
<1>1. /\ q \in Seq(S) /\ KeepsOf(s, E, Len(s), q) /\ Range(q) = Range(s) \cap E
      /\ DOMAIN s = 1..Len(s)
  BY OnlyKeeps, OnlyMembers
<1> HIDE DEF q
<1>2. ASSUME NEW i \in DOMAIN q, NEW j \in DOMAIN q, i < j
      PROVE  q[i] # q[j] /\ pr[q[i]] >= pr[q[j]]
  <2>1. PICK a \in 1..Len(s), b \in 1..Len(s) : a < b /\ q[i] = s[a] /\ q[j] = s[b]
    BY <1>1, <1>2 DEF KeepsOf
  <2>2. s[a] # s[b]
    <3>1. a # b
      BY <2>1
    <3>2. a \in DOMAIN s /\ b \in DOMAIN s
      BY <1>1
    <3>3. QED
      BY <3>1, <3>2, Zenon DEF IsInjective
  <2>3. pr[s[a]] >= pr[s[b]]
    BY <1>1, <2>1 DEF Falling
  <2>4. QED
    BY <2>1, <2>2, <2>3
<1>3. \A i, j \in DOMAIN q : q[i] = q[j] => i = j
  <2>1. DOMAIN q = 1..Len(q) /\ Len(q) \in Nat
    BY <1>1
  <2>2. QED
    BY <1>2, <2>1
<1>4. IsInjective(q)
  BY <1>3, Zenon DEF IsInjective
<1>5. Falling(q, pr)
  BY <1>2 DEF Falling
<1>6. QED
  BY <1>1, <1>4, <1>5 DEF q

LEMMA FallingJoined ==
  ASSUME NEW S, NEW pr \in [S -> Nat], NEW s \in Seq(S), NEW t \in Seq(S),
         Falling(s, pr), Falling(t, pr),
         \A x \in Range(s), y \in Range(t) : pr[x] >= pr[y]
  PROVE  Falling(s \o t, pr)
<1> DEFINE u == s \o t
<1>1. /\ Len(s) \in Nat /\ Len(t) \in Nat /\ DOMAIN s = 1..Len(s) /\ DOMAIN t = 1..Len(t)
      /\ DOMAIN u = 1..(Len(s) + Len(t))
      /\ \A i \in 1..(Len(s) + Len(t)) : u[i] = IF i <= Len(s) THEN s[i] ELSE t[i - Len(s)]
  OBVIOUS
<1> HIDE DEF u
<1>2. ASSUME NEW i \in DOMAIN u, NEW j \in DOMAIN u, i < j
      PROVE  pr[u[i]] >= pr[u[j]]
  <2>1. CASE j <= Len(s)
    <3>1. i \in DOMAIN s /\ j \in DOMAIN s /\ u[i] = s[i] /\ u[j] = s[j]
      BY <1>1, <1>2, <2>1
    <3>2. QED
      BY <1>2, <3>1 DEF Falling
  <2>2. CASE i <= Len(s) /\ ~(j <= Len(s))
    <3>1. u[i] \in Range(s) /\ u[j] \in Range(t)
      <4>1. i \in DOMAIN s /\ u[i] = s[i] /\ j - Len(s) \in DOMAIN t /\ u[j] = t[j - Len(s)]
        BY <1>1, <1>2, <2>2
      <4>2. QED
        BY <4>1 DEF Range
    <3>2. QED
      BY <3>1
  <2>3. CASE ~(i <= Len(s))
    <3>1. /\ i - Len(s) \in DOMAIN t /\ u[i] = t[i - Len(s)]
          /\ j - Len(s) \in DOMAIN t /\ u[j] = t[j - Len(s)]
          /\ i - Len(s) < j - Len(s)
      BY <1>1, <1>2, <2>3
    <3>2. QED
      BY <3>1 DEF Falling
  <2>4. QED
    BY <1>1, <1>2, <2>1, <2>2, <2>3
<1>3. QED
  BY <1>2 DEF Falling, u

LEMMA PlacedFacts ==
  ASSUME NEW S, NEW pr \in [S -> Nat], NEW q \in Seq(S), NEW e \in S,
         IsInjective(q), Falling(q, pr), e \notin Range(q)
  PROVE  /\ Placed(q, e, pr) \in Seq(S) /\ Range(Placed(q, e, pr)) = Range(q) \cup {e}
         /\ IsInjective(Placed(q, e, pr)) /\ Falling(Placed(q, e, pr), pr)
<1> DEFINE behind == {x \in Range(q) : pr[x] < pr[e]}
           before == Only(q, Range(q) \ behind)
           after  == Only(q, behind)
           with   == Append(before, e)
<1>1. /\ before \in Seq(S) /\ Range(before) = Range(q) \ behind
      /\ IsInjective(before) /\ Falling(before, pr)
  BY OnlyKeepsOrder
<1>2. /\ after \in Seq(S) /\ Range(after) = behind
      /\ IsInjective(after) /\ Falling(after, pr)
  BY OnlyKeepsOrder
<1>3. Placed(q, e, pr) = with \o after
  BY DEF Placed
<1>4. \A x \in Range(q) : x \in S /\ pr[x] \in Nat
  <2>1. DOMAIN q = 1..Len(q) /\ \A i \in 1..Len(q) : q[i] \in S
    OBVIOUS
  <2>2. QED
    BY <2>1 DEF Range
<1>5. \A x \in Range(before) : pr[x] >= pr[e]
  BY <1>1, <1>4
<1>6. \A x \in Range(after) : pr[x] < pr[e]
  BY <1>2
<1>7. Range(before) \cup Range(after) = Range(q) /\ Range(before) \cap Range(after) = {}
  BY <1>1, <1>2
<1> HIDE DEF behind, before, after
<1>8. /\ with \in Seq(S) /\ Range(with) = Range(before) \cup {e} /\ IsInjective(with)
  <2>1. e \notin Range(before)
    BY <1>7
  <2>2. \A s \in Seq(S) :
          /\ Append(s, e) \in Seq(S) /\ Range(Append(s, e)) = Range(s) \cup {e}
          /\ IsInjective(s) /\ e \notin Range(s) => IsInjective(Append(s, e))
    BY Appended
  <2>3. QED
    BY <1>1, <2>1, <2>2, Zenon
<1>9. Falling(with, pr)
  <2>1. /\ Len(before) \in Nat /\ DOMAIN before = 1..Len(before)
        /\ DOMAIN with = 1..(Len(before) + 1) /\ with[Len(before) + 1] = e
        /\ \A i \in 1..Len(before) : with[i] = before[i]
    BY <1>1
  <2> HIDE DEF with
  <2>2. ASSUME NEW i \in DOMAIN with, NEW j \in DOMAIN with, i < j
        PROVE  pr[with[i]] >= pr[with[j]]
    <3>1. i \in 1..Len(before)
      BY <2>1, <2>2
    <3>2. CASE j = Len(before) + 1
      <4>1. with[i] \in Range(before)
        BY <2>1, <3>1 DEF Range
      <4>2. QED
        BY <1>5, <2>1, <3>2, <4>1
    <3>3. CASE j \in 1..Len(before)
      BY <1>1, <2>1, <2>2, <3>1, <3>3 DEF Falling
    <3>4. QED
      BY <2>1, <3>2, <3>3
  <2>3. QED
    BY <2>2 DEF Falling
<1> HIDE DEF with
<1>10. \A x \in Range(with), y \in Range(after) : pr[x] >= pr[y]
  BY <1>4, <1>5, <1>6, <1>7, <1>8
<1>11. Falling(with \o after, pr)
  BY <1>2, <1>8, <1>9, <1>10, FallingJoined
<1>12. /\ with \o after \in Seq(S) /\ Range(with \o after) = Range(with) \cup Range(after)
       /\ IsInjective(with \o after)
  <2>1. Range(with) \cap Range(after) = {}
    BY <1>6, <1>7, <1>8
  <2>2. \A s, t \in Seq(S) :
          /\ s \o t \in Seq(S) /\ Range(s \o t) = Range(s) \cup Range(t)
          /\ IsInjective(s) /\ IsInjective(t) /\ Range(s) \cap Range(t) = {} => IsInjective(s \o t)
    BY Joined
  <2>3. QED
    BY <1>2, <1>8, <2>1, <2>2, Zenon
<1>13. QED
  BY <1>3, <1>7, <1>8, <1>11, <1>12

\* The first m of s, one after the other put in their place.
Sorted(s, pr, m, f) ==
  f = [n \in 0..m |-> IF n = 0 THEN <<>> ELSE Placed(f[n - 1], s[n], pr)]

LEMMA SortedExists ==
  ASSUME NEW s, Len(s) \in Nat, NEW pr
  PROVE  \E f : Sorted(s, pr, Len(s), f)
<1> DEFINE T == {m \in Nat : \E f : Sorted(s, pr, m, f)}
<1>1. 0 \in T
  <2>1. Sorted(s, pr, 0, [n \in 0..0 |-> <<>>])
    BY DEF Sorted
  <2>2. QED
    BY <2>1
<1>2. ASSUME NEW m \in Nat, m \in T
      PROVE  m + 1 \in T
  <2>1. PICK f : Sorted(s, pr, m, f)
    BY <1>2
  <2> DEFINE last == Placed(f[m], s[m + 1], pr)
             g    == [n \in 0..(m + 1) |-> IF n = m + 1 THEN last ELSE f[n]]
  <2>2. ASSUME NEW n \in 0..(m + 1)
        PROVE  g[n] = IF n = 0 THEN <<>> ELSE Placed(g[n - 1], s[n], pr)
    <3>1. CASE n = m + 1
      <4>1. n # 0 /\ n - 1 = m /\ n - 1 \in 0..(m + 1) /\ n - 1 # m + 1
        BY <3>1
      <4>2. g[n - 1] = f[m] /\ g[n] = last
        BY <3>1, <4>1
      <4>3. QED
        BY <3>1, <4>1, <4>2
    <3>2. CASE n # m + 1
      <4>1. n \in 0..m /\ g[n] = f[n] /\ (n # 0 => g[n - 1] = f[n - 1])
        BY <3>2
      <4>2. f[n] = IF n = 0 THEN <<>> ELSE Placed(f[n - 1], s[n], pr)
        BY <2>1, <4>1 DEF Sorted
      <4>3. QED
        BY <4>1, <4>2
    <3>3. QED
      BY <3>1, <3>2
  <2> HIDE DEF last
  <2>3. Sorted(s, pr, m + 1, g)
    BY <2>2 DEF Sorted
  <2>4. QED
    BY <2>3
<1>3. Nat \subseteq T
  <2> HIDE DEF T
  <2>1. QED
    BY <1>1, <1>2, SetInduction
<1>4. Len(s) \in T
  BY <1>3
<1>5. QED
  BY <1>4

\* What the first m of s are when they are in order.
InOrder(S, s, pr, m, q) ==
  /\ q \in Seq(S) /\ IsInjective(q) /\ Falling(q, pr)
  /\ Range(q) = {s[a] : a \in 1..m}

LEMMA SortFacts ==
  ASSUME NEW S, NEW pr \in [S -> Nat], NEW s \in Seq(S), IsInjective(s)
  PROVE  LET q == SortByPriority(s, pr)
         IN  Range(q) = Range(s) /\ IsInjective(q) /\ Falling(q, pr) /\ q \in Seq(S)
<1> DEFINE g == CHOOSE f : Sorted(s, pr, Len(s), f)
<1>1. Sorted(s, pr, Len(s), g)
  <2>1. Len(s) \in Nat
    OBVIOUS
  <2>2. QED
    BY <2>1, SortedExists, Zenon
<1>2. SortByPriority(s, pr) = g[Len(s)]
  BY DEF SortByPriority, Through, Sorted
<1> HIDE DEF g
<1> DEFINE T == {m \in Nat : m <= Len(s) => InOrder(S, s, pr, m, g[m])}
<1>3. \A n \in 0..Len(s) :
        g[n] = IF n = 0 THEN <<>> ELSE Placed(g[n - 1], s[n], pr)
  BY <1>1 DEF Sorted
<1>4. 0 \in T
  <2>1. g[0] = <<>>
    BY <1>3
  <2>2. <<>> \in Seq(S) /\ DOMAIN <<>> = {} /\ 1..0 = {}
    OBVIOUS
  <2>3. IsInjective(<<>>) /\ Falling(<<>>, pr) /\ Range(<<>>) = {}
    BY <2>2 DEF IsInjective, Falling, Range
  <2>4. InOrder(S, s, pr, 0, g[0])
    BY <2>1, <2>2, <2>3 DEF InOrder
  <2>5. QED
    BY <2>4
<1>5. ASSUME NEW m \in Nat, m \in T
      PROVE  m + 1 \in T
  <2>1. SUFFICES ASSUME m + 1 <= Len(s)
                 PROVE  InOrder(S, s, pr, m + 1, g[m + 1])
    OBVIOUS
  <2> DEFINE q == g[m]
             e == s[m + 1]
  <2>2. InOrder(S, s, pr, m, q) /\ m + 1 \in 0..Len(s) /\ e \in S /\ m + 1 # 0
    BY <1>5, <2>1
  <2>3. g[m + 1] = Placed(q, e, pr)
    BY <1>3, <2>2
  <2>4. e \notin Range(q)
    <3>1. \A a \in 1..m : a \in DOMAIN s /\ m + 1 \in DOMAIN s /\ a # m + 1
      BY <2>1
    <3>2. \A a \in 1..m : s[a] # s[m + 1]
      BY <3>1, Zenon DEF IsInjective
    <3>3. QED
      BY <2>2, <3>2 DEF InOrder
  <2> HIDE DEF q
  <2>5. /\ Placed(q, e, pr) \in Seq(S) /\ Range(Placed(q, e, pr)) = Range(q) \cup {e}
        /\ IsInjective(Placed(q, e, pr)) /\ Falling(Placed(q, e, pr), pr)
    <3>1. q \in Seq(S) /\ IsInjective(q) /\ Falling(q, pr)
      BY <2>2 DEF InOrder
    <3> HIDE DEF e
    <3>2. QED
      BY <2>2, <2>4, <3>1, PlacedFacts
  <2>6. Range(q) \cup {e} = {s[a] : a \in 1..(m + 1)}
    <3>1. Range(q) = {s[a] : a \in 1..m}
      BY <2>2 DEF InOrder
    <3>2. 1..(m + 1) = 1..m \cup {m + 1}
      OBVIOUS
    <3>3. QED
      BY <3>1, <3>2
  <2>7. QED
    BY <2>3, <2>5, <2>6 DEF InOrder
<1>6. Nat \subseteq T
  <2> HIDE DEF T
  <2>1. QED
    BY <1>4, <1>5, SetInduction
<1>7. InOrder(S, s, pr, Len(s), g[Len(s)])
  BY <1>6
<1>8. Range(s) = {s[a] : a \in 1..Len(s)}
  <2>1. DOMAIN s = 1..Len(s)
    OBVIOUS
  <2>2. QED
    BY <2>1 DEF Range
<1>9. QED
  BY <1>2, <1>7, <1>8 DEF InOrder

\* The places of the order that come after s and are of these sinks.
After(sinkNames, s) ==
  {i \in DOMAIN SinkOrder : SinkOrder[i] \in Range(sinkNames) /\ \E p \in 1..(i - 1) : SinkOrder[p] = s}

LEMMA OrderPlaces ==
  /\ Len(SinkOrder) \in Nat /\ DOMAIN SinkOrder = 1..Len(SinkOrder)
  /\ IsFiniteSet(DOMAIN SinkOrder)
<1>1. Len(SinkOrder) \in Nat /\ DOMAIN SinkOrder = 1..Len(SinkOrder)
  BY PipelineAssumption
<1>2. IsFiniteSet(1..Len(SinkOrder))
  <2>1. 1 \in Int /\ Len(SinkOrder) \in Int
    BY <1>1
  <2>2. QED
    BY <2>1, FS_Interval
<1>3. QED
  BY <1>1, <1>2

LEMMA PriorityFacts ==
  ASSUME NEW names
  PROVE  /\ Priorities(names) \in [Range(names) -> Nat]
         /\ \A s \in Range(names) :
              /\ Priorities(names)[s] = Cardinality(After(names, s))
              /\ IsFiniteSet(After(names, s))
<1>1. \A s : IsFiniteSet(After(names, s))
  <2>1. \A s : After(names, s) \subseteq DOMAIN SinkOrder
    BY DEF After
  <2>2. QED
    BY <2>1, OrderPlaces, FS_Subset
<1>2. Priorities(names) = [s \in Range(names) |-> Cardinality(After(names, s))]
  BY DEF Priorities, After
<1>3. \A s : Cardinality(After(names, s)) \in Nat
  BY <1>1, FS_CardinalityType
<1>4. QED
  BY <1>1, <1>2, <1>3

\* Of two sinks in the order, the one it names first has more.
LEMMA FirstNamedFirst ==
  ASSUME NEW names, NEW x \in Range(names), NEW y \in Range(names) \cap Range(SinkOrder),
         NEW p \in DOMAIN SinkOrder, SinkOrder[p] = x, \A q \in 1..p : SinkOrder[q] # y
  PROVE  Priorities(names)[x] > Priorities(names)[y]
<1> DEFINE places == {i \in DOMAIN SinkOrder : SinkOrder[i] = y}
<1>1. places # {} /\ places \subseteq Nat
  BY OrderPlaces DEF Range
<1> HIDE DEF places
<1>2. PICK first \in places : \A i \in places : first <= i
  BY <1>1, LeastExists
<1>3. first \in DOMAIN SinkOrder /\ SinkOrder[first] = y /\ p < first /\ p \in 1..(first - 1)
  BY <1>2, OrderPlaces DEF places
<1>4. first \in After(names, x)
  BY <1>3 DEF After
<1>5. first \notin After(names, y)
  <2>1. \A i \in 1..(first - 1) : SinkOrder[i] # y
    BY <1>2, <1>3, OrderPlaces DEF places
  <2>2. QED
    BY <2>1 DEF After
<1>6. After(names, y) \subseteq After(names, x)
  <2>1. SUFFICES ASSUME NEW i \in After(names, y)
                 PROVE  i \in After(names, x)
    OBVIOUS
  <2>2. PICK q \in 1..(i - 1) : SinkOrder[q] = y
    BY DEF After
  <2>3. i \in DOMAIN SinkOrder
    BY DEF After
  <2>4. q \notin 1..p /\ p \in 1..(i - 1)
    BY <2>2, <2>3, OrderPlaces
  <2>5. QED
    BY <2>4 DEF After
<1>7. Cardinality(After(names, y)) < Cardinality(After(names, x))
  <2>1. IsFiniteSet(After(names, x)) /\ After(names, y) # After(names, x)
    BY <1>4, <1>5, PriorityFacts
  <2>2. QED
    BY <1>6, <2>1, FS_Subset, FS_CardinalityType
<1>8. QED
  <2>1. /\ Priorities(names)[x] = Cardinality(After(names, x)) /\ Cardinality(After(names, x)) \in Nat
        /\ Priorities(names)[y] = Cardinality(After(names, y)) /\ Cardinality(After(names, y)) \in Nat
    BY PriorityFacts, FS_CardinalityType
  <2>2. QED
    BY <1>7, <2>1

-----------------------------------------------------------------------------
(* The sinks that there are.                                               *)

\* Different names at different places.
NamesDiffer(s) == \A i, j \in DOMAIN s : s[i].name = s[j].name => i = j

SinkNames(p) == {x.name : x \in {y \in Range(Registers[p]) : y.kind = "sink"}}

SinksInv ==
  /\ \A x \in Range(sinks) : x.plugin \in Plugins /\ x.name \in SinkNames(x.plugin)
  /\ NamesDiffer(sinks)
  /\ stage \in {"sinks", "inputs", "running"} => priority = Priorities(NamesOf(sinks))

LEMMA NamesJoined ==
  ASSUME NEW s, NEW t, IsRegister(s), IsRegister(t), NamesDiffer(s), NamesDiffer(t),
         \A x \in Range(s), y \in Range(t) : x.name # y.name
  PROVE  NamesDiffer(s \o t)
<1> DEFINE u == s \o t
           S == Range(s) \cup Range(t)
<1>1. /\ Len(s) \in Nat /\ Len(t) \in Nat /\ DOMAIN s = 1..Len(s) /\ DOMAIN t = 1..Len(t)
      /\ DOMAIN u = 1..(Len(s) + Len(t))
      /\ \A i \in 1..(Len(s) + Len(t)) : u[i] = IF i <= Len(s) THEN s[i] ELSE t[i - Len(s)]
  BY DEF IsRegister
<1> HIDE DEF u
<1>2. \A i \in 1..Len(s), j \in 1..Len(t) : s[i].name # t[j].name
  BY <1>1 DEF Range
<1>3. ASSUME NEW i \in DOMAIN u, NEW j \in DOMAIN u, u[i].name = u[j].name
      PROVE  i = j
  <2>1. CASE i <= Len(s) /\ j <= Len(s)
    <3>1. i \in DOMAIN s /\ j \in DOMAIN s /\ u[i] = s[i] /\ u[j] = s[j]
      BY <1>1, <2>1
    <3>2. QED
      BY <1>3, <3>1 DEF NamesDiffer
  <2>2. CASE i <= Len(s) /\ ~(j <= Len(s))
    <3>1. i \in 1..Len(s) /\ j - Len(s) \in 1..Len(t) /\ u[i] = s[i] /\ u[j] = t[j - Len(s)]
      BY <1>1, <2>2
    <3>2. QED
      BY <1>2, <1>3, <3>1
  <2>3. CASE ~(i <= Len(s)) /\ j <= Len(s)
    <3>1. j \in 1..Len(s) /\ i - Len(s) \in 1..Len(t) /\ u[j] = s[j] /\ u[i] = t[i - Len(s)]
      BY <1>1, <2>3
    <3>2. QED
      BY <1>2, <1>3, <3>1
  <2>4. CASE ~(i <= Len(s)) /\ ~(j <= Len(s))
    <3>1. /\ i - Len(s) \in DOMAIN t /\ u[i] = t[i - Len(s)]
          /\ j - Len(s) \in DOMAIN t /\ u[j] = t[j - Len(s)]
      BY <1>1, <2>4
    <3>2. i - Len(s) = j - Len(s)
      BY <1>3, <3>1 DEF NamesDiffer
    <3>3. QED
      BY <1>1, <3>2
  <2>5. QED
    BY <2>1, <2>2, <2>3, <2>4
<1>4. QED
  BY <1>3 DEF NamesDiffer, u

\* The sinks that p registers.
LEMMA SinksOfPlugin ==
  ASSUME NEW p \in Plugins, NEW n \in 0..Len(Registers[p])
  PROVE  LET r == RegisteredBy(p, n, "sink")
         IN  NamesDiffer(r) /\ \A x \in Range(r) : x.name \in SinkNames(p) /\ x.plugin = p
<1> DEFINE all  == Registers[p]
           some == SubSeq(all, 1, n)
           E    == {x \in Range(all) : x.kind = "sink"}
           mine == Only(some, E)
           r    == RegisteredBy(p, n, "sink")
<1>1. all \in Seq(Range(all))
  BY StartAssumption DEF Plugins
<1>2. /\ some \in Seq(Range(all)) /\ Len(some) = n
      /\ \A i \in 1..n : i \in DOMAIN all /\ some[i] = all[i]
  <2>1. PICK s : s = all
    OBVIOUS
  <2>2. s \in Seq(Range(all)) /\ n \in 0..Len(s)
    BY <1>1, <2>1
  <2>3. /\ SubSeq(s, 1, n) \in Seq(Range(all)) /\ Len(SubSeq(s, 1, n)) = n
        /\ \A i \in 1..n : i \in DOMAIN s /\ SubSeq(s, 1, n)[i] = s[i]
    BY ONLY <2>2
  <2>4. QED
    BY <2>1, <2>3
<1>3. mine \in Seq(Range(all)) /\ KeepsOf(some, E, n, mine)
  BY <1>2, OnlyKeeps
<1>4. r = [i \in DOMAIN mine |-> [name |-> mine[i].name, plugin |-> p]]
  BY DEF RegisteredBy
<1> HIDE DEF mine, some, r
<1>5. DOMAIN mine = 1..Len(mine) /\ Len(mine) \in Nat
  BY <1>3
<1>6. \A i \in DOMAIN mine : \E a \in 1..n : some[a] \in E /\ mine[i] = some[a]
  BY <1>3 DEF KeepsOf
<1>7. \A x \in Range(r) : x.name \in SinkNames(p) /\ x.plugin = p
  <2>1. SUFFICES ASSUME NEW i \in DOMAIN mine
                 PROVE  r[i].name \in SinkNames(p) /\ r[i].plugin = p
    BY <1>4 DEF Range
  <2>2. mine[i] \in E
    BY <1>6
  <2>3. r[i] = [name |-> mine[i].name, plugin |-> p]
    BY <1>4
  <2>4. mine[i].name \in SinkNames(p)
    BY <2>2 DEF SinkNames, E
  <2>5. QED
    BY <2>3, <2>4
<1>8. ASSUME NEW i \in DOMAIN mine, NEW j \in DOMAIN mine, mine[i].name = mine[j].name, i < j
      PROVE  FALSE
  <2>1. PICK a \in 1..n, b \in 1..n : a < b /\ mine[i] = some[a] /\ mine[j] = some[b]
    BY <1>3, <1>8 DEF KeepsOf
  <2>2. mine[i] \in E /\ mine[j] \in E
    BY <1>6
  <2>3. /\ a \in DOMAIN Registers[p] /\ b \in DOMAIN Registers[p]
        /\ Registers[p][a].kind = "sink" /\ Registers[p][b].kind = "sink"
        /\ Registers[p][a].name = Registers[p][b].name
    BY <1>2, <1>8, <2>1, <2>2 DEF E
  <2>4. a = b
    BY <2>3, StartAssumption DEF Plugins
  <2>5. QED
    BY <2>1, <2>4
<1>9. NamesDiffer(r)
  <2>1. SUFFICES ASSUME NEW i \in DOMAIN r, NEW j \in DOMAIN r, r[i].name = r[j].name, i # j
                 PROVE  FALSE
    BY DEF NamesDiffer
  <2>2. i \in DOMAIN mine /\ j \in DOMAIN mine /\ mine[i].name = mine[j].name
    BY <1>4, <2>1
  <2>3. i < j \/ j < i
    BY <1>5, <2>1, <2>2
  <2>4. QED
    BY <1>8, <2>2, <2>3
<1>10. QED
  BY <1>7, <1>9 DEF r

LEMMA SinkNamesApart ==
  ASSUME NEW p \in Plugins, NEW q \in Plugins, NEW x, x \in SinkNames(p), x \in SinkNames(q)
  PROVE  p = q
<1>1. PICK i \in DOMAIN Registers[p] : Registers[p][i].kind = "sink" /\ Registers[p][i].name = x
  BY DEF SinkNames, Range
<1>2. PICK j \in DOMAIN Registers[q] : Registers[q][j].kind = "sink" /\ Registers[q][j].name = x
  BY DEF SinkNames, Range
<1>3. QED
  BY <1>1, <1>2, StartAssumption DEF Plugins

LEMMA SinksNext == BootInv /\ SinksInv /\ [BootNext]_boot => SinksInv'
<1> SUFFICES ASSUME BootInv, SinksInv, [BootNext]_boot
             PROVE  SinksInv'
  OBVIOUS
<1>1. ASSUME NEW ok \in BOOLEAN, LoadPlugin(ok)
      PROVE  SinksInv'
  <2> DEFINE p == Head(toLoad)
  <2>1. PICK n \in IF ok THEN {Len(Registers[p])} ELSE FailsAfter[p] :
          sinks' = sinks \o RegisteredBy(p, n, "sink")
    BY <1>1 DEF LoadPlugin
  <2>2. /\ p \in Plugins /\ p \in Range(toLoad) /\ stage = "load"
        /\ stage' \in {"load", "failed"}
    BY <1>1, HeadAndTail, Zenon DEF BootInv, LoadPlugin, AfterFailure
  <2> HIDE DEF p
  <2>3. n \in 0..Len(Registers[p])
    <3>1. Registers[p] \in Seq(Range(Registers[p])) /\ FailsAfter[p] \subseteq 0..Len(Registers[p])
      BY <2>2, StartAssumption DEF Plugins
    <3>2. Len(Registers[p]) \in 0..Len(Registers[p])
      BY <3>1
    <3>3. QED
      BY <2>1, <3>1, <3>2
  <2> DEFINE r == RegisteredBy(p, n, "sink")
  <2>4. IsRegister(r)
    BY <2>2, <2>3, RegisteredFacts
  <2>5. NamesDiffer(r) /\ \A x \in Range(r) : x.name \in SinkNames(p) /\ x.plugin = p
    BY <2>2, <2>3, SinksOfPlugin
  <2>6. sinks' = sinks \o r
    BY <2>1
  <2> HIDE DEF r
  <2>7. IsRegister(sinks) /\ Range(sinks') = Range(sinks) \cup Range(r)
    BY <2>4, <2>6, RegisterJoined DEF BootInv
  <2>8. \A x \in Range(sinks), y \in Range(r) : x.name # y.name
    <3>1. SUFFICES ASSUME NEW x \in Range(sinks), NEW y \in Range(r), x.name = y.name
                   PROVE  FALSE
      OBVIOUS
    <3>2. x.plugin \in Plugins /\ x.name \in SinkNames(x.plugin) /\ x.name \in SinkNames(p)
      BY <2>5, <3>1 DEF SinksInv
    <3>3. x.plugin = p
      BY <2>2, <3>2, SinkNamesApart
    <3>4. x.plugin \in Range(plugins) \cup closed
      BY <2>2 DEF BootInv, Held
    <3>5. QED
      BY <2>2, <3>3, <3>4 DEF BootInv
  <2>9. NamesDiffer(sinks')
    BY <2>4, <2>5, <2>6, <2>7, <2>8, NamesJoined DEF SinksInv
  <2>10. QED
    BY <2>2, <2>5, <2>7, <2>9 DEF SinksInv
<1>2. CASE Loaded
  <2>1. sinks' = sinks /\ priority' = Priorities(NamesOf(sinks))
    BY <1>2 DEF Loaded, plugVars
  <2>2. QED
    BY <2>1 DEF SinksInv
<1>3. CASE Shutdown
  <2>1. sinks' = <<>> /\ stage' = "down"
    BY <1>3 DEF Shutdown
  <2>2. QED
    BY <2>1 DEF SinksInv, NamesDiffer, Range
<1>4. ASSUME UNCHANGED <<sinks, priority>>,
             stage' \in {"sinks", "inputs", "running"} => stage \in {"sinks", "inputs", "running"}
      PROVE  SinksInv'
  BY <1>4 DEF SinksInv
<1>5. ASSUME NEW ok \in BOOLEAN,
             OpenPlugin(ok) \/ EventsParsed(ok) \/ InitSink(ok) \/ InitInput(ok)
      PROVE  SinksInv'
  <2>1. CASE OpenPlugin(ok) \/ EventsParsed(ok)
    BY <1>4, <2>1 DEF OpenPlugin, EventsParsed, plugVars
  <2>2. CASE InitSink(ok) \/ InitInput(ok)
    BY <1>4, <2>2 DEF InitSink, InitInput, plugVars
  <2>3. QED
    BY <1>5, <2>1, <2>2
<1>6. CASE SinksDone \/ InitDone
  BY <1>4, <1>6 DEF SinksDone, InitDone, plugVars
<1>7. ASSUME NEW client \in Clients, NEW e \in DOMAIN Events, NEW context \in Contexts,
             NEW fallback \in BOOLEAN, NewRequest(client, e, context, fallback)
      PROVE  SinksInv'
  BY <1>4, <1>7 DEF NewRequest, plugVars
<1>8. CASE UNCHANGED boot
  BY <1>4, <1>8 DEF boot, plugVars
<1>9. QED
  BY <1>1, <1>2, <1>3, <1>5, <1>6, <1>7, <1>8 DEF BootNext

-----------------------------------------------------------------------------
(* Who is believed about a resource.                                       *)

\* Both say the same under k, or nothing.
SameAt(a, b, k) ==
  /\ k \in DOMAIN a <=> k \in DOMAIN b
  /\ k \in DOMAIN a => a[k] = b[k]

\* After the first m allowed keys: what the client says under k is there if k
\* was among them.
PassedAt(new, client, k, m) ==
  /\ k \in DOMAIN new <=> k \in DOMAIN client /\ \E a \in 1..m : Allowed[a] = k
  /\ k \in DOMAIN new => new[k] = client[k]

LEMMA PassedAtNext ==
  ASSUME NEW k, k \notin DOMAIN KeyMap \cup Range(KeyMap) \cup Range(Original), NEW client,
         NEW m \in Nat, m + 1 <= Len(Allowed), NEW new, PassedAt(new, client, k, m)
  PROVE  PassedAt(AllowKey(new, Allowed[m + 1], client), client, k, m + 1)
<1> DEFINE a == Allowed[m + 1]
           next == AllowKey(new, a, client)
<1>1. (\E x \in 1..(m + 1) : Allowed[x] = k) <=> (\E x \in 1..m : Allowed[x] = k) \/ a = k
  <2>1. 1..(m + 1) = 1..m \cup {m + 1}
    OBVIOUS
  <2>2. QED
    BY <2>1
<1> HIDE DEF a
<1>2. CASE a \notin DOMAIN client
  <2>1. next = new
    BY <1>2, Zenon DEF AllowKey
  <2>2. QED
    BY <1>1, <1>2, <2>1 DEF PassedAt, a
<1>3. CASE a \in DOMAIN client /\ a \notin DOMAIN KeyMap
  <2>1. next = Put(new, a, client[a])
    BY <1>3 DEF AllowKey
  <2> HIDE DEF next
  <2>2. /\ DOMAIN next = DOMAIN new \cup {a} /\ next[a] = client[a]
        /\ \A x \in DOMAIN new \ {a} : next[x] = new[x]
    BY <2>1 DEF Put, Over
  <2>3. PassedAt(next, client, k, m + 1)
    <3>1. CASE a = k
      BY <1>1, <1>3, <2>2, <3>1 DEF PassedAt
    <3>2. CASE a # k
      BY <1>1, <2>2, <3>2 DEF PassedAt
    <3>3. QED
      BY <3>1, <3>2
  <2>4. QED
    BY <2>3 DEF next, a
<1>4. CASE a \in DOMAIN client /\ a \in DOMAIN KeyMap
  <2> DEFINE t == KeyMap[a]
             saved == IF t \in DOMAIN client THEN Put(new, Original[t], client[t]) ELSE new
  <2>1. next = Put(saved, t, client[a])
    BY <1>4 DEF AllowKey
  <2>2. t # k /\ Original[t] # k /\ a # k
    BY <1>4, PipelineAssumption DEF Range
  <2> HIDE DEF t, next
  <2>3. SameAt(saved, new, k)
    BY <2>2 DEF Put, Over, SameAt
  <2> HIDE DEF saved
  <2>4. SameAt(next, saved, k)
    BY <2>1, <2>2 DEF Put, Over, SameAt
  <2>5. PassedAt(next, client, k, m + 1)
    BY <1>1, <2>2, <2>3, <2>4 DEF PassedAt, SameAt
  <2>6. QED
    BY <2>5 DEF next, a
<1>5. QED
  BY <1>2, <1>3, <1>4

LEMMA AllowAt ==
  ASSUME NEW k, k \in Range(Allowed) \ (DOMAIN KeyMap \cup Range(KeyMap) \cup Range(Original)),
         NEW client, NEW start, k \notin DOMAIN start
  PROVE  SameAt(AllowEach(start, client), client, k)
<1> DEFINE g == CHOOSE f : Passed(start, client, Len(Allowed), f)
<1>1. Passed(start, client, Len(Allowed), g)
  BY PassedExists, Zenon
<1>2. AllowEach(start, client) = g[Len(Allowed)]
  BY DEF AllowEach, Through, Passed
<1> HIDE DEF g
<1> DEFINE T == {m \in Nat : m <= Len(Allowed) => PassedAt(g[m], client, k, m)}
<1>3. \A n \in 0..Len(Allowed) :
        g[n] = IF n = 0 THEN start ELSE AllowKey(g[n - 1], Allowed[n], client)
  BY <1>1 DEF Passed
<1>4. Len(Allowed) \in Nat /\ DOMAIN Allowed = 1..Len(Allowed)
  BY PipelineAssumption
<1>5. 0 \in T
  <2>1. g[0] = start
    BY <1>3, <1>4
  <2>2. PassedAt(g[0], client, k, 0)
    BY <2>1 DEF PassedAt
  <2>3. QED
    BY <2>2
<1>6. ASSUME NEW m \in Nat, m \in T
      PROVE  m + 1 \in T
  <2>1. SUFFICES ASSUME m + 1 <= Len(Allowed)
                 PROVE  PassedAt(g[m + 1], client, k, m + 1)
    OBVIOUS
  <2>2. PassedAt(g[m], client, k, m)
    BY <1>4, <1>6, <2>1
  <2>3. g[m + 1] = AllowKey(g[m], Allowed[m + 1], client)
    BY <1>3, <1>4, <2>1
  <2>4. QED
    BY <2>1, <2>2, <2>3, PassedAtNext
<1>7. Nat \subseteq T
  <2> HIDE DEF T
  <2>1. QED
    BY <1>5, <1>6, SetInduction
<1>8. PassedAt(g[Len(Allowed)], client, k, Len(Allowed))
  BY <1>4, <1>7
<1>9. \E a \in 1..Len(Allowed) : Allowed[a] = k
  BY <1>4 DEF Range
<1>10. QED
  BY <1>2, <1>8, <1>9 DEF PassedAt, SameAt

LEMMA AskedAt ==
  ASSUME ResourceKeysPass, NEW r \in Resources, NEW client, NEW event, NEW context
  PROVE  SameAt(AllowKeys(client, event, context), client, r.key)
<1> DEFINE custom   == Says(event, Custom, "true")
           silenced == Lookup \in DOMAIN event /\ Says(context, event[Lookup].is, NoSound)
           start    == IF custom THEN CustomKeys(client) ELSE <<>>
           passed   == AllowEach(start, client)
           asked    == AllowKeys(client, event, context)
           k == r.key
<1>1. asked = IF AllowAll THEN client
              ELSE IF silenced /\ ~custom THEN Put(passed, Filename, context[event[Lookup].is])
              ELSE passed
  BY DEF AllowKeys
<1>2. CASE AllowAll
  BY <1>1, <1>2 DEF SameAt
<1>3. CASE ~AllowAll
  <2>1. /\ k \in Range(Allowed) \ (DOMAIN KeyMap \cup Range(KeyMap) \cup Range(Original))
        /\ k \notin {Filename, Enabled}
    BY <1>3 DEF ResourceKeysPass
  <2>2. k \notin DOMAIN start
    BY <2>1 DEF CustomKeys
  <2> HIDE DEF start, k
  <2>3. SameAt(passed, client, k)
    BY <2>1, <2>2, AllowAt
  <2> HIDE DEF passed, asked
  <2>4. \A v : SameAt(Put(passed, Filename, v), passed, k)
    BY <2>1 DEF Put, Over, SameAt
  <2>5. SameAt(asked, client, k)
    <3>1. asked = passed \/ asked = Put(passed, Filename, context[event[Lookup].is])
      BY <1>1, <1>3
    <3>2. CASE asked = passed
      BY <2>3, <3>2
    <3>3. CASE asked = Put(passed, Filename, context[event[Lookup].is])
      BY <2>3, <2>4, <3>3 DEF SameAt
    <3>4. QED
      BY <3>1, <3>2, <3>3
  <2>6. QED
    BY <2>5 DEF asked, k
<1>4. QED
  BY <1>2, <1>3

LEMMA PropertiesAt ==
  ASSUME ResourceKeysPass, NEW r \in Resources, NEW firing, NEW client, NEW event,
         NEW context \in Contexts, NEW fallback \in BOOLEAN
  PROVE  SameAt(Properties(firing, client, event, context, fallback), Over(client, event), r.key)
<1> DEFINE asked  == IF "transform" \in firing THEN AllowKeys(client, event, context) ELSE client
           merged == Merge(asked, event)
           back   == [x \in {y \in DOMAIN Fallback : Fallback[y] \in DOMAIN merged} |-> merged[Fallback[x]]]
           whole  == IF fallback THEN Translate(merged) ELSE merged
           new    == OfProfile(whole, context, fallback)
           props  == Properties(firing, client, event, context, fallback)
           k == r.key
<1>1. k \notin DOMAIN Fallback /\ k \notin Targets
  BY DEF ResourceKeysPass
<1>2. SameAt(asked, client, k)
  <2>1. SameAt(client, client, k)
    BY DEF SameAt
  <2>2. QED
    BY <2>1, AskedAt
<1>3. merged = Over(asked, event)
  BY DEF Merge
<1>4. Translate(merged) = Over(back, merged) /\ k \notin DOMAIN back
  BY <1>1 DEF Translate
<1>5. props = IF "profile" \in firing THEN Over(new, whole) ELSE whole
  BY DEF Properties, FromProfile
<1>6. k \notin DOMAIN new
  BY <1>1, ProfileFacts DEF IsOfProfile
<1>7. whole = merged \/ whole = Over(back, merged)
  BY <1>4
<1> HIDE DEF asked, merged, back, whole, new, props, k
<1>8. SameAt(merged, Over(client, event), k)
  BY <1>2, <1>3 DEF Over, SameAt
<1>9. \A a, b : k \notin DOMAIN a => SameAt(Over(a, b), b, k)
  BY DEF Over, SameAt
<1>10. SameAt(whole, merged, k)
  <2>1. SameAt(merged, merged, k)
    BY DEF SameAt
  <2>2. QED
    BY <1>4, <1>7, <1>9, <2>1
<1>11. SameAt(props, whole, k)
  <2>1. SameAt(whole, whole, k)
    BY DEF SameAt
  <2>2. QED
    BY <1>5, <1>6, <1>9, <2>1
<1>12. SameAt(props, Over(client, event), k)
  BY <1>8, <1>10, <1>11 DEF SameAt
<1>13. QED
  BY <1>12 DEF props, k

\* What a request that says this wants of r.
Told(r, client, event) ==
  IF r.key \in DOMAIN client THEN client[r.key].is = "true"
  ELSE IF r.key \in DOMAIN event THEN event[r.key].is = "true"
  ELSE r.default

Unwanted(client, event) == {r.type : r \in {x \in Resources : ~Told(x, client, event)}}

LEMMA DisabledFacts ==
  ASSUME ResourceKeysPass, NEW firing, NEW client, NEW event,
         NEW context \in Contexts, NEW fallback \in BOOLEAN
  PROVE  Disabled(Properties(firing, client, event, context, fallback)) = Unwanted(client, event)
<1> DEFINE props == Properties(firing, client, event, context, fallback)
           unwanted(r) == IF r.key \in DOMAIN props THEN props[r.key].is # "true" ELSE ~r.default
<1>1. \A r \in Resources : SameAt(props, Over(client, event), r.key)
  BY PropertiesAt
<1>2. Disabled(props) = {r.type : r \in {x \in Resources : unwanted(x)}}
  BY DEF Disabled
<1> HIDE DEF props
<1>3. ASSUME NEW r \in Resources
      PROVE  unwanted(r) <=> ~Told(r, client, event)
  <2>1. SameAt(props, Over(client, event), r.key)
    BY <1>1
  <2> DEFINE k == r.key
  <2>2. /\ k \in DOMAIN Over(client, event) <=> k \in DOMAIN client \/ k \in DOMAIN event
        /\ k \in DOMAIN client => Over(client, event)[k] = client[k]
        /\ k \notin DOMAIN client /\ k \in DOMAIN event => Over(client, event)[k] = event[k]
    BY DEF Over
  <2>3. CASE k \in DOMAIN client
    <3>1. k \in DOMAIN props /\ props[k] = client[k]
      BY <2>1, <2>2, <2>3 DEF SameAt
    <3>2. QED
      BY <2>3, <3>1, Zenon DEF Told
  <2>4. CASE k \notin DOMAIN client /\ k \in DOMAIN event
    <3>1. k \in DOMAIN props /\ props[k] = event[k]
      BY <2>1, <2>2, <2>4 DEF SameAt
    <3>2. QED
      BY <2>4, <3>1, Zenon DEF Told
  <2>5. CASE k \notin DOMAIN client /\ k \notin DOMAIN event
    <3>1. k \notin DOMAIN props
      BY <2>1, <2>2, <2>5 DEF SameAt
    <3>2. QED
      BY <2>5, <3>1, Zenon DEF Told
  <2>6. QED
    BY <2>3, <2>4, <2>5
<1> HIDE DEF unwanted
<1>4. {x \in Resources : unwanted(x)} = {x \in Resources : ~Told(x, client, event)}
  BY <1>3
<1>5. QED
  BY <1>2, <1>4, Zenon DEF props, Unwanted

-----------------------------------------------------------------------------
(* What a request is offered to.                                           *)

\* The offer is as OfferIsExact says, for what sinks there are.
Exact(chosen, there, props, client, event, context, filtered) ==
  /\ Range(chosen) = {s \in Range(there) :
                        /\ CanHandle(s, props, context)
                        /\ filtered => SinkType[s] \notin Unwanted(client, event)}
  /\ \A i, j \in DOMAIN chosen : i # j => chosen[i] # chosen[j]
  /\ \A i, j \in DOMAIN chosen :
       (\E p \in DOMAIN SinkOrder :
          /\ SinkOrder[p] = chosen[i]
          /\ \A q \in 1..p : SinkOrder[q] # chosen[j])
       /\ chosen[j] \in Range(SinkOrder) => i < j

LEMMA OnlyAlone ==
  ASSUME NEW S, NEW s \in Seq(S), NEW E, IsInjective(s)
  PROVE  /\ Only(s, E) \in Seq(S) /\ Range(Only(s, E)) = Range(s) \cap E
         /\ IsInjective(Only(s, E))
<1> DEFINE pr == [x \in S |-> 0]
<1>1. pr \in [S -> Nat] /\ Falling(s, pr)
  <2>1. \A i \in DOMAIN s : s[i] \in S
    OBVIOUS
  <2>2. QED
    BY <2>1 DEF Falling
<1> HIDE DEF pr
<1>2. QED
  BY <1>1, OnlyKeepsOrder

LEMMA OfferFacts ==
  ASSUME ResourceKeysPass, NEW there, there \in Seq(Range(there)), IsInjective(there),
         NEW firing, NEW client, NEW event, NEW context \in Contexts, NEW fallback \in BOOLEAN
  PROVE  LET props == Properties(firing, client, event, context, fallback)
         IN  Exact(Offer(firing, there, Priorities(there), props, context), there, props,
                   client, event, context, "resource" \in firing)
<1> DEFINE props == Properties(firing, client, event, context, fallback)
           pr    == Priorities(there)
           S     == Range(there)
           can   == {s \in S : CanHandle(s, props, context)}
           on    == {s \in S : SinkType[s] \notin Disabled(props)}
           off   == Unwanted(client, event)
           capable == Only(there, can)
           filtered == "resource" \in firing
           passed == IF filtered THEN Only(capable, on) ELSE capable
           chosen == Offer(firing, there, pr, props, context)
<1>1. chosen = SortByPriority(passed, pr)
  BY Zenon DEF Offer
<1>2. Disabled(props) = off
  BY DisabledFacts
<1>3. pr \in [S -> Nat]
  BY PriorityFacts
<1> HIDE DEF props, off, chosen, can, on
<1>4. \A s \in Seq(S) : \A E :
        IsInjective(s) => /\ Only(s, E) \in Seq(S) /\ Range(Only(s, E)) = Range(s) \cap E
                          /\ IsInjective(Only(s, E))
  BY OnlyAlone
<1>5. /\ passed \in Seq(S) /\ IsInjective(passed)
      /\ Range(passed) = IF filtered THEN (S \cap can) \cap on ELSE S \cap can
  <2>1. capable \in Seq(S) /\ Range(capable) = S \cap can /\ IsInjective(capable)
    BY <1>4
  <2> HIDE DEF capable
  <2>2. /\ Only(capable, on) \in Seq(S) /\ Range(Only(capable, on)) = (S \cap can) \cap on
        /\ IsInjective(Only(capable, on))
    BY <1>4, <2>1
  <2>3. CASE filtered
    BY <2>2, <2>3
  <2>4. CASE ~filtered
    BY <2>1, <2>4
  <2>5. QED
    BY <2>3, <2>4
<1> HIDE DEF passed, pr
<1>6. /\ Range(chosen) = Range(passed) /\ IsInjective(chosen) /\ Falling(chosen, pr)
      /\ chosen \in Seq(S)
  BY <1>1, <1>3, <1>5, SortFacts
<1> HIDE DEF filtered
<1>7. Range(chosen) = {s \in S : CanHandle(s, props, context) /\ (filtered => SinkType[s] \notin off)}
  BY <1>2, <1>5, <1>6 DEF can, on
<1>8. \A i, j \in DOMAIN chosen : i # j => chosen[i] # chosen[j]
  BY <1>6, Zenon DEF IsInjective
<1>9. DOMAIN chosen \subseteq Nat /\ \A i \in DOMAIN chosen : chosen[i] \in S
  BY <1>6
<1>10. ASSUME NEW i \in DOMAIN chosen, NEW j \in DOMAIN chosen, NEW p \in DOMAIN SinkOrder,
              SinkOrder[p] = chosen[i], \A q \in 1..p : SinkOrder[q] # chosen[j],
              chosen[j] \in Range(SinkOrder)
       PROVE  i < j
  <2>1. pr[chosen[i]] > pr[chosen[j]]
    BY <1>9, <1>10, FirstNamedFirst DEF pr
  <2>2. pr[chosen[i]] \in Nat /\ pr[chosen[j]] \in Nat
    BY <1>3, <1>9
  <2>3. ~(j < i) /\ i # j
    BY <1>6, <2>1, <2>2 DEF Falling
  <2>4. QED
    BY <1>9, <2>3
<1>11. Exact(chosen, there, props, client, event, context, filtered)
  BY <1>7, <1>8, <1>10 DEF Exact, off
<1>12. QED
  BY <1>11 DEF chosen, pr, props, filtered

OfferExact ==
  stage = "running" /\ request # NoRequest =>
    Exact(offer.sinks, NamesOf(sinks), offer.props, request.client, request.event,
          request.context, "resource" \in Range(plugins))

LEMMA NamesFacts ==
  ASSUME BootInv, SinksInv
  PROVE  NamesOf(sinks) \in Seq(Range(NamesOf(sinks))) /\ IsInjective(NamesOf(sinks))
<1> DEFINE names == NamesOf(sinks)
<1>1. names = [i \in DOMAIN sinks |-> sinks[i].name]
  BY DEF NamesOf
<1>2. DOMAIN sinks = 1..Len(sinks) /\ Len(sinks) \in Nat
  BY DEF BootInv, IsRegister
<1> HIDE DEF names
<1>3. names \in Seq(Range(names))
  <2>1. DOMAIN names = 1..Len(sinks) /\ \A i \in 1..Len(sinks) : names[i] \in Range(names)
    BY <1>1, <1>2 DEF Range
  <2>2. names = [i \in 1..Len(sinks) |-> names[i]]
    BY <1>1, <1>2
  <2>3. QED
    BY <1>2, <2>1, <2>2
<1>4. \A i, j \in DOMAIN names : names[i] = names[j] => i = j
  BY <1>1 DEF SinksInv, NamesDiffer
<1>5. IsInjective(names)
  BY <1>4, Zenon DEF IsInjective
<1>6. QED
  BY <1>3, <1>5 DEF names

LEMMA OfferNext ==
  ResourceKeysPass /\ BootInv /\ HooksInv /\ IdleInv /\ SinksInv /\ OfferExact /\ [BootNext]_boot
    => OfferExact'
<1> SUFFICES ASSUME ResourceKeysPass, BootInv, HooksInv, IdleInv, SinksInv, OfferExact, [BootNext]_boot
             PROVE  OfferExact'
  OBVIOUS
<1>1. ASSUME NEW client \in Clients, NEW e \in DOMAIN Events, NEW context \in Contexts,
             NEW fallback \in BOOLEAN, NewRequest(client, e, context, fallback)
      PROVE  OfferExact'
  <2> DEFINE firing == RequestHooks \ closed
             event  == Events[e]
             there  == NamesOf(sinks)
             props  == Properties(firing, client, event, context, fallback)
  <2>1. /\ stage = "running" /\ plugins' = plugins /\ sinks' = sinks
        /\ request'.client = client /\ request'.event = event /\ request'.context = context
        /\ offer'.props = props
        /\ offer'.sinks = Offer(firing, there, priority, props, context)
    BY <1>1 DEF NewRequest, plugVars
  <2>2. "resource" \in firing <=> "resource" \in Range(plugins)
    BY <2>1, FiringFacts
  <2>3. priority = Priorities(there)
    BY <2>1 DEF SinksInv
  <2>4. there \in Seq(Range(there)) /\ IsInjective(there)
    BY NamesFacts
  <2>5. NamesOf(sinks') = there
    BY <2>1
  <2> HIDE DEF firing, event, there
  <2>6. Exact(Offer(firing, there, Priorities(there), props, context), there, props,
              client, event, context, "resource" \in firing)
    BY <2>4, OfferFacts
  <2> HIDE DEF props
  <2>7. Exact(offer'.sinks, there, offer'.props, request'.client, request'.event,
              request'.context, "resource" \in Range(plugins'))
    BY <2>1, <2>2, <2>3, <2>6
  <2>8. QED
    BY <2>5, <2>7 DEF OfferExact
<1>2. CASE InitDone
  <2>1. request' = NoRequest
    BY <1>2 DEF InitDone, IdleInv
  <2>2. QED
    BY <2>1 DEF OfferExact
<1>3. CASE UNCHANGED boot
  BY <1>3 DEF boot, plugVars, OfferExact
<1>4. CASE stage' # "running"
  BY <1>4 DEF OfferExact
<1>5. ASSUME ~InitDone, stage' = "running",
             ~\E client \in Clients, e \in DOMAIN Events, context \in Contexts, fallback \in BOOLEAN :
                NewRequest(client, e, context, fallback)
      PROVE  UNCHANGED boot
  BY <1>5 DEF BootNext, OpenPlugin, EventsParsed, LoadPlugin, AfterFailure, InitSink, InitInput, Loaded,
              SinksDone, Shutdown
<1>6. QED
  BY <1>1, <1>2, <1>3, <1>4, <1>5

\* A request is offered to exactly the sinks that can play it and whose type
\* is enabled, each once and in the order of the configuration, whatever
\* plugins and sinks there are, as long as keys of resources pass.
THEOREM OffersAreExact ==
  ResourceKeysPass => (BootSpec => []OfferIsExact)
<1> SUFFICES ASSUME ResourceKeysPass
             PROVE  BootSpec => []OfferIsExact
  OBVIOUS
<1>1. BootInit => SinksInv /\ OfferExact
  BY DEF BootInit, SinksInv, NamesDiffer, OfferExact, Range
<1>2. OfferExact => OfferIsExact
  <2> SUFFICES ASSUME OfferExact, stage = "running", request # NoRequest
               PROVE  OfferIsExact
    BY DEF OfferIsExact
  <2> DEFINE chosen == offer.sinks
             told(r) == IF r.key \in DOMAIN request.client THEN request.client[r.key].is = "true"
                        ELSE IF r.key \in DOMAIN request.event THEN request.event[r.key].is = "true"
                        ELSE r.default
  <2>1. Exact(chosen, NamesOf(sinks), offer.props, request.client, request.event,
              request.context, "resource" \in Range(plugins))
    BY DEF OfferExact
  <2>2. \A r : told(r) <=> Told(r, request.client, request.event)
    BY Zenon DEF Told
  <2>3. {x \in Resources : ~told(x)} = {x \in Resources : ~Told(x, request.client, request.event)}
    <3> HIDE DEF told
    <3>1. QED
      BY <2>2
  <2>4. QED
    BY <2>1, <2>3, Zenon DEF OfferIsExact, Exact, Unwanted
<1>3. QED
  BY <1>1, <1>2, StartedHolds, SinksNext, OfferNext, PTL DEF BootSpec

-----------------------------------------------------------------------------
(* What the first m groups W of the files say.  From here on it is about   *)
(* EvaluationIsExact: the list in use is, event by event and in its order, *)
(* what the files say of each title.                                       *)

RulesOf(W) == UNION {ToSet(g.rules) : g \in ToSet(W)}

\* Groups of which FilesAssumption and FilesMakeSense hold.
Sensible(W) ==
  /\ W \in Seq(ToSet(W)) /\ RulesOf(W) \subseteq Rules
  /\ \A g \in ToSet(W) :
       /\ g.name \in Names /\ g.rules \in Seq(RulesOf(W)) /\ IsInjective(g.rules)
       /\ g.prio \in Int /\ g.props = [k \in DOMAIN g.props |-> g.props[k]]
  /\ \A a, b \in RulesOf(W) : RuleEqual(a, b) => a = b
  /\ \A i \in DOMAIN W : W[i].unsetEvent =>
       \E j \in 1..(i - 1) :
         /\ Title(W[j]) = Title(W[i])
         /\ \A k \in j..(i - 1) : Title(W[k]) = Title(W[i]) => ~W[k].unsetEvent

\* Layers, PropsOf and Weight as they are after m groups.
LayersTo(W, m, t) ==
  {i \in 1..m : Title(W[i]) = t /\ \A j \in 1..m : Title(W[j]) = t /\ W[j].unsetEvent => j < i}

Tells(W, i, k) == k \in W[i].unset \cup DOMAIN W[i].props

TopTo(W, m, t, k) == Max({i \in LayersTo(W, m, t) : Tells(W, i, k)})

KeysTo(W, m, t) ==
  {k \in UNION {DOMAIN W[i].props : i \in LayersTo(W, m, t)} :
     k \in DOMAIN W[TopTo(W, m, t, k)].props}

PropsTo(W, m, t) == [k \in KeysTo(W, m, t) |-> W[TopTo(W, m, t, k)].props[k]]

FirstTo(W, m, t) == Min(LayersTo(W, m, t))

Of(t, target) == {rule \in t[2] : rule.target = target}

WeightTo(W, m, t) ==
  <<W[FirstTo(W, m, t)].prio, Cardinality(Of(t, "request")), Cardinality(Of(t, "context")),
    -FirstTo(W, m, t)>>

LEMMA MinFacts ==
  ASSUME NEW S, S \subseteq Nat, S # {}
  PROVE  Min(S) \in S /\ \A y \in S : Min(S) <= y
<1>1. \E x \in S : \A y \in S : x =< y
  BY LeastExists
<1>2. QED
  BY ONLY <1>1, Zenon DEF Min

LEMMA MinIs ==
  ASSUME NEW S, S \subseteq Nat, NEW x \in S, \A y \in S : x <= y
  PROVE  Min(S) = x
<1>1. Min(S) \in S /\ Min(S) <= x /\ x <= Min(S)
  BY MinFacts
<1>2. Min(S) \in Nat /\ x \in Nat
  BY <1>1
<1>3. QED
  BY ONLY <1>1, <1>2

LEMMA MaxFacts ==
  ASSUME NEW m \in Nat, NEW S, S \subseteq 1..m, S # {}
  PROVE  Max(S) \in S /\ \A y \in S : Max(S) >= y
<1> DEFINE D == {m - x : x \in S}
<1>1. D \subseteq Nat /\ D # {}
  <2>1. \A x \in S : m - x \in Nat
    BY \A x \in S : x \in 1..m
  <2>2. QED
    BY <2>1
<1>2. PICK d \in D : \A e \in D : d <= e
  <2> HIDE DEF D
  <2>1. QED
    BY <1>1, LeastExists
<1>3. PICK x \in S : d = m - x
  BY <1>2
<1>4. \A y \in S : x >= y
  <2>1. SUFFICES ASSUME NEW y \in S PROVE x >= y
    OBVIOUS
  <2>2. m - y \in D
    OBVIOUS
  <2>3. m - x <= m - y /\ x \in 1..m /\ y \in 1..m
    BY <1>2, <1>3, <2>2
  <2>4. QED
    BY ONLY <2>3, m \in Nat
<1>5. QED
  BY ONLY <1>3, <1>4, Zenon DEF Max

LEMMA MaxIs ==
  ASSUME NEW m \in Nat, NEW S, S \subseteq 1..m, NEW x \in S, \A y \in S : y <= x
  PROVE  Max(S) = x
<1>1. Max(S) \in S /\ Max(S) <= x /\ x <= Max(S)
  BY MaxFacts
<1>2. Max(S) \in 1..m /\ x \in 1..m
  BY <1>1
<1>3. QED
  BY ONLY <1>1, <1>2

\* The weights are compared one after the other.
LEMMA HeavierIs ==
  ASSUME NEW v, NEW w
  PROVE  Heavier(v, w) <=>
           \/ v[1] > w[1]
           \/ v[1] = w[1] /\ v[2] > w[2]
           \/ v[1] = w[1] /\ v[2] = w[2] /\ v[3] > w[3]
           \/ v[1] = w[1] /\ v[2] = w[2] /\ v[3] = w[3] /\ v[4] > w[4]
<1>1. /\ 1..4 = {1, 2, 3, 4} /\ 1..(1 - 1) = {} /\ 1..(2 - 1) = {1} /\ 1..(3 - 1) = {1, 2}
      /\ 1..(4 - 1) = {1, 2, 3}
  OBVIOUS
<1>2. Heavier(v, w) <=> \E n \in {1, 2, 3, 4} : v[n] > w[n] /\ \A m \in 1..(n - 1) : v[m] = w[m]
  BY <1>1 DEF Heavier
<1>3. (\E n \in {1, 2, 3, 4} : v[n] > w[n] /\ \A m \in 1..(n - 1) : v[m] = w[m]) <=>
        \/ v[1] > w[1] /\ \A m \in 1..(1 - 1) : v[m] = w[m]
        \/ v[2] > w[2] /\ \A m \in 1..(2 - 1) : v[m] = w[m]
        \/ v[3] > w[3] /\ \A m \in 1..(3 - 1) : v[m] = w[m]
        \/ v[4] > w[4] /\ \A m \in 1..(4 - 1) : v[m] = w[m]
  BY Zenon
<1>4. Heavier(v, w) <=>
        \/ v[1] > w[1] /\ \A m \in {} : v[m] = w[m]
        \/ v[2] > w[2] /\ \A m \in {1} : v[m] = w[m]
        \/ v[3] > w[3] /\ \A m \in {1, 2} : v[m] = w[m]
        \/ v[4] > w[4] /\ \A m \in {1, 2, 3} : v[m] = w[m]
  BY <1>1, <1>2, <1>3
<1>5. QED
  BY <1>4

\* One more group is a layer of its own title, or takes all layers of it away.
LEMMA LayersNext ==
  ASSUME NEW W, Sensible(W), NEW m \in Nat, m + 1 <= Len(W), NEW t
  PROVE  /\ t # Title(W[m + 1]) => LayersTo(W, m + 1, t) = LayersTo(W, m, t)
         /\ t = Title(W[m + 1]) /\ W[m + 1].unsetEvent =>
              LayersTo(W, m + 1, t) = {} /\ LayersTo(W, m, t) # {}
         /\ t = Title(W[m + 1]) /\ ~W[m + 1].unsetEvent =>
              LayersTo(W, m + 1, t) = LayersTo(W, m, t) \cup {m + 1}
<1>1. 1..(m + 1) = (1..m) \cup {m + 1} /\ \A i \in 1..m : i < m + 1 /\ i # m + 1 /\ ~(m + 1 < i)
  OBVIOUS
<1>2. CASE t # Title(W[m + 1])
  BY <1>1, <1>2 DEF LayersTo
<1>3. CASE t = Title(W[m + 1]) /\ W[m + 1].unsetEvent
  <2>1. LayersTo(W, m + 1, t) = {}
    BY <1>1, <1>3 DEF LayersTo
  <2>2. m + 1 \in DOMAIN W
    BY DEF Sensible
  <2>3. PICK j \in 1..((m + 1) - 1) :
          /\ Title(W[j]) = Title(W[m + 1])
          /\ \A k \in j..((m + 1) - 1) : Title(W[k]) = Title(W[m + 1]) => ~W[k].unsetEvent
    BY <1>3, <2>2 DEF Sensible
  <2> DEFINE J == {i \in j..m : Title(W[i]) = t}
  <2>4. j \in 1..m /\ J \subseteq 1..m /\ j \in J
    BY <1>3, <2>3
  <2>5. \A k \in j..m : Title(W[k]) = t => ~W[k].unsetEvent
    BY <1>3, <2>3
  <2>6. \A k \in 1..m : Title(W[k]) = t /\ W[k].unsetEvent => k < j
    BY <2>4, <2>5
  <2>7. j \in LayersTo(W, m, t)
    BY <1>3, <2>3, <2>4, <2>6 DEF LayersTo
  <2>8. QED
    BY <1>3, <2>1, <2>7
<1>4. CASE t = Title(W[m + 1]) /\ ~W[m + 1].unsetEvent
  <2>1. \A i \in 1..m : i \in LayersTo(W, m + 1, t) <=> i \in LayersTo(W, m, t)
    BY <1>1, <1>4 DEF LayersTo
  <2>2. m + 1 \in LayersTo(W, m + 1, t)
    BY <1>1, <1>4 DEF LayersTo
  <2>3. LayersTo(W, m + 1, t) \subseteq 1..(m + 1) /\ LayersTo(W, m, t) \subseteq 1..m
    BY DEF LayersTo
  <2>4. QED
    BY <1>1, <1>4, <2>1, <2>2, <2>3
<1>5. QED
  BY <1>2, <1>3, <1>4

LEMMA LayersMore ==
  ASSUME NEW W, Sensible(W), NEW m \in Nat, m + 1 <= Len(W), NEW t,
         t = Title(W[m + 1]), ~W[m + 1].unsetEvent
  PROVE  LayersTo(W, m + 1, t) = LayersTo(W, m, t) \cup {m + 1}
BY LayersNext

LEMMA LayerPlaces ==
  ASSUME NEW W, NEW m \in Nat, NEW t
  PROVE  LayersTo(W, m, t) \subseteq 1..m
BY DEF LayersTo

\* A group on top of others, as Layered has it.
LEMMA PropsNext ==
  ASSUME NEW W, Sensible(W), NEW m \in Nat, m + 1 <= Len(W), NEW t,
         t = Title(W[m + 1]), ~W[m + 1].unsetEvent, LayersTo(W, m, t) # {}
  PROVE  PropsTo(W, m + 1, t) = Layered(PropsTo(W, m, t), W[m + 1])
<1> DEFINE g == W[m + 1]
           A == LayersTo(W, m, t)
           B == LayersTo(W, m + 1, t)
           Old(k) == {i \in A : Tells(W, i, k)}
           New(k) == {i \in B : Tells(W, i, k)}
<1>1. B = A \cup {m + 1} /\ A \subseteq 1..m
  BY LayersNext, LayerPlaces
<1> HIDE DEF A, B
<1>2. ASSUME NEW k, Tells(W, m + 1, k)
      PROVE  TopTo(W, m + 1, t, k) = m + 1
  <2>1. m + 1 \in New(k) /\ New(k) \subseteq 1..(m + 1) /\ \A y \in New(k) : y <= m + 1
    <3>1. m + 1 \in New(k)
      BY <1>1, <1>2
    <3>2. \A i \in B : i \in 1..(m + 1) /\ i <= m + 1
      BY <1>1
    <3>3. New(k) \subseteq B
      OBVIOUS
    <3> HIDE DEF New
    <3>4. QED
      BY <3>1, <3>2, <3>3
  <2> HIDE DEF New
  <2>2. Max(New(k)) = m + 1
    BY <2>1, m + 1 \in Nat, MaxIs
  <2>3. QED
    BY <2>2 DEF New, TopTo, B
<1>3. ASSUME NEW k, ~Tells(W, m + 1, k)
      PROVE  TopTo(W, m + 1, t, k) = TopTo(W, m, t, k)
  <2>1. New(k) = Old(k)
    BY <1>1, <1>3
  <2>2. QED
    BY <2>1 DEF TopTo, A, B
<1>4. ASSUME NEW k
      PROVE  k \in KeysTo(W, m + 1, t) <=> k \in ((KeysTo(W, m, t)) \ g.unset) \cup DOMAIN g.props
  <2>1. CASE Tells(W, m + 1, k)
    <3>1. k \in KeysTo(W, m + 1, t) <=> k \in DOMAIN g.props
      <4>1. k \in DOMAIN g.props => k \in UNION {DOMAIN W[i].props : i \in B}
        BY <1>1
      <4>2. QED
        BY <1>2, <2>1, <4>1 DEF KeysTo, B
    <3>2. QED
      BY <2>1, <3>1 DEF Tells
  <2>2. CASE ~Tells(W, m + 1, k)
    <3>1. k \notin g.unset /\ k \notin DOMAIN g.props
      BY <2>2 DEF Tells
    <3>2. k \in UNION {DOMAIN W[i].props : i \in B} <=> k \in UNION {DOMAIN W[i].props : i \in A}
      BY <1>1, <3>1
    <3>3. k \in KeysTo(W, m + 1, t) <=> k \in KeysTo(W, m, t)
      BY <1>3, <2>2, <3>2 DEF KeysTo, A, B
    <3>4. QED
      BY <3>1, <3>3
  <2>3. QED
    BY <2>1, <2>2
<1>5. KeysTo(W, m + 1, t) = ((KeysTo(W, m, t)) \ g.unset) \cup DOMAIN g.props
  BY <1>4
<1>6. DOMAIN PropsTo(W, m, t) = KeysTo(W, m, t)
      /\ \A k \in KeysTo(W, m, t) : PropsTo(W, m, t)[k] = W[TopTo(W, m, t, k)].props[k]
  BY DEF PropsTo
<1>7. ASSUME NEW k \in KeysTo(W, m + 1, t)
      PROVE  W[TopTo(W, m + 1, t, k)].props[k]
               = IF k \in DOMAIN g.props THEN g.props[k] ELSE PropsTo(W, m, t)[k]
  <2>1. CASE k \in DOMAIN g.props
    <3>1. Tells(W, m + 1, k)
      BY <2>1 DEF Tells
    <3>2. QED
      BY <1>2, <2>1, <3>1
  <2>2. CASE k \notin DOMAIN g.props
    <3>1. ~Tells(W, m + 1, k) /\ k \in KeysTo(W, m, t)
      BY <1>5, <2>2 DEF Tells
    <3>2. QED
      BY <1>3, <1>6, <2>2, <3>1
  <2>3. QED
    BY <2>1, <2>2
<1> DEFINE old == PropsTo(W, m, t)
<1>8. Layered(old, g) = [k \in ((DOMAIN old) \ g.unset) \cup DOMAIN g.props |->
                           IF k \in DOMAIN g.props THEN g.props[k] ELSE old[k]]
  BY DEF Layered
<1>9. DOMAIN old = KeysTo(W, m, t)
  BY <1>6
<1> HIDE DEF old, g
<1>10. PropsTo(W, m + 1, t) = [k \in KeysTo(W, m + 1, t) |-> W[TopTo(W, m + 1, t, k)].props[k]]
  BY DEF PropsTo
<1>11. \A k \in KeysTo(W, m + 1, t) : W[TopTo(W, m + 1, t, k)].props[k]
               = IF k \in DOMAIN g.props THEN g.props[k] ELSE old[k]
  BY <1>7 DEF old, g
<1>12. Layered(old, g) = [k \in KeysTo(W, m + 1, t) |-> IF k \in DOMAIN g.props THEN g.props[k] ELSE old[k]]
  BY <1>5, <1>8, <1>9 DEF g
<1>13. PropsTo(W, m + 1, t) = Layered(old, g)
  BY ONLY <1>10, <1>11, <1>12
<1>14. QED
  BY <1>13 DEF old, g

\* A group that makes an event.
LEMMA PropsFirst ==
  ASSUME NEW W, Sensible(W), NEW m \in Nat, m + 1 <= Len(W), NEW t,
         t = Title(W[m + 1]), ~W[m + 1].unsetEvent, LayersTo(W, m, t) = {}
  PROVE  /\ LayersTo(W, m + 1, t) = {m + 1} /\ FirstTo(W, m + 1, t) = m + 1
         /\ PropsTo(W, m + 1, t) = W[m + 1].props
<1> DEFINE g == W[m + 1]
<1>1. LayersTo(W, m + 1, t) = {m + 1}
  <2>1. LayersTo(W, m + 1, t) = LayersTo(W, m, t) \cup {m + 1}
    BY LayersMore, Zenon
  <2>2. QED
    BY <2>1
<1>2. FirstTo(W, m + 1, t) = m + 1
  <2>1. m + 1 \in {m + 1} /\ {m + 1} \subseteq Nat /\ \A y \in {m + 1} : m + 1 <= y
    OBVIOUS
  <2>2. QED
    BY <1>1, <2>1, MinIs DEF FirstTo
<1>3. ASSUME NEW k \in DOMAIN g.props
      PROVE  TopTo(W, m + 1, t, k) = m + 1
  <2>1. {i \in LayersTo(W, m + 1, t) : Tells(W, i, k)} = {m + 1}
    BY <1>1, <1>3 DEF Tells
  <2>2. m + 1 \in {m + 1} /\ {m + 1} \subseteq 1..(m + 1) /\ (\A y \in {m + 1} : y <= m + 1) /\ m + 1 \in Nat
    OBVIOUS
  <2>3. Max({m + 1}) = m + 1
    BY ONLY <2>2, MaxIs
  <2>4. QED
    BY <2>1, <2>3 DEF TopTo
<1>4. UNION {DOMAIN W[i].props : i \in LayersTo(W, m + 1, t)} = DOMAIN g.props
  BY <1>1
<1>5. KeysTo(W, m + 1, t) = DOMAIN g.props
  BY <1>3, <1>4 DEF KeysTo
<1>6. g.props = [k \in DOMAIN g.props |-> g.props[k]]
  <2>1. g \in ToSet(W)
    BY DEF Sensible, ToSet
  <2>2. QED
    BY <2>1 DEF Sensible
<1> HIDE DEF g
<1>7. PropsTo(W, m + 1, t) = [k \in DOMAIN g.props |-> W[TopTo(W, m + 1, t, k)].props[k]]
  BY <1>5 DEF PropsTo
<1>8. \A k \in DOMAIN g.props : W[TopTo(W, m + 1, t, k)].props[k] = g.props[k]
  BY <1>3 DEF g
<1>9. PropsTo(W, m + 1, t) = g.props
  BY ONLY <1>6, <1>7, <1>8
<1>10. QED
  BY <1>1, <1>2, <1>9 DEF g

-----------------------------------------------------------------------------
(* Lists in an order that is any relation.                                 *)

Ordered(s, R) == \A i, j \in DOMAIN s : i < j => <<s[i], s[j]>> \in R

LEMMA OnlyOrdered ==
  ASSUME NEW S, NEW s \in Seq(S), NEW E, NEW R, Ordered(s, R)
  PROVE  Ordered(Only(s, E), R)
<1> DEFINE q == Only(s, E)
<1>1. KeepsOf(s, E, Len(s), q) /\ DOMAIN s = 1..Len(s)
  BY OnlyKeeps
<1> HIDE DEF q
<1>2. ASSUME NEW i \in DOMAIN q, NEW j \in DOMAIN q, i < j
      PROVE  <<q[i], q[j]>> \in R
  <2>1. PICK a \in 1..Len(s), b \in 1..Len(s) : a < b /\ q[i] = s[a] /\ q[j] = s[b]
    BY <1>1, <1>2 DEF KeepsOf
  <2>2. <<s[a], s[b]>> \in R
    BY <1>1, <2>1 DEF Ordered
  <2>3. QED
    BY <2>1, <2>2
<1>3. Ordered(q, R)
  BY <1>2 DEF Ordered
<1>4. QED
  BY <1>3 DEF q

LEMMA JoinedOrdered ==
  ASSUME NEW S, NEW s \in Seq(S), NEW t \in Seq(S), NEW R, Ordered(s, R), Ordered(t, R),
         \A x \in Range(s), y \in Range(t) : <<x, y>> \in R
  PROVE  Ordered(s \o t, R)
<1> DEFINE u == s \o t
<1>1. /\ Len(s) \in Nat /\ Len(t) \in Nat /\ DOMAIN s = 1..Len(s) /\ DOMAIN t = 1..Len(t)
      /\ DOMAIN u = 1..(Len(s) + Len(t))
      /\ \A i \in 1..(Len(s) + Len(t)) : u[i] = IF i <= Len(s) THEN s[i] ELSE t[i - Len(s)]
  OBVIOUS
<1> HIDE DEF u
<1>2. ASSUME NEW i \in DOMAIN u, NEW j \in DOMAIN u, i < j
      PROVE  <<u[i], u[j]>> \in R
  <2>1. CASE j <= Len(s)
    <3>1. i \in DOMAIN s /\ j \in DOMAIN s /\ u[i] = s[i] /\ u[j] = s[j]
      BY <1>1, <1>2, <2>1
    <3>2. <<s[i], s[j]>> \in R
      BY <1>2, <3>1 DEF Ordered
    <3>3. QED
      BY <3>1, <3>2
  <2>2. CASE i <= Len(s) /\ ~(j <= Len(s))
    <3>1. u[i] \in Range(s) /\ u[j] \in Range(t)
      <4>1. i \in DOMAIN s /\ u[i] = s[i] /\ j - Len(s) \in DOMAIN t /\ u[j] = t[j - Len(s)]
        BY <1>1, <1>2, <2>2
      <4>2. QED
        BY <4>1 DEF Range
    <3>2. QED
      BY <3>1
  <2>3. CASE ~(i <= Len(s))
    <3>1. /\ i - Len(s) \in DOMAIN t /\ u[i] = t[i - Len(s)]
          /\ j - Len(s) \in DOMAIN t /\ u[j] = t[j - Len(s)]
          /\ i - Len(s) < j - Len(s)
      BY <1>1, <1>2, <2>3
    <3>2. <<t[i - Len(s)], t[j - Len(s)]>> \in R
      BY <3>1 DEF Ordered
    <3>3. QED
      BY <3>1, <3>2
  <2>4. QED
    BY <1>1, <1>2, <2>1, <2>2, <2>3
<1>3. Ordered(u, R)
  BY <1>2 DEF Ordered
<1>4. QED
  BY <1>3 DEF u

LEMMA AppendedOrdered ==
  ASSUME NEW S, NEW s \in Seq(S), NEW e \in S, NEW R, Ordered(s, R),
         \A x \in Range(s) : <<x, e>> \in R
  PROVE  Ordered(Append(s, e), R)
<1> DEFINE u == Append(s, e)
<1>1. /\ Len(s) \in Nat /\ DOMAIN s = 1..Len(s) /\ DOMAIN u = 1..(Len(s) + 1)
      /\ u[Len(s) + 1] = e /\ \A i \in 1..Len(s) : u[i] = s[i]
  OBVIOUS
<1> HIDE DEF u
<1>2. ASSUME NEW i \in DOMAIN u, NEW j \in DOMAIN u, i < j
      PROVE  <<u[i], u[j]>> \in R
  <2>1. i \in DOMAIN s /\ u[i] = s[i]
    BY <1>1, <1>2
  <2>2. CASE j = Len(s) + 1
    BY <1>1, <2>1, <2>2 DEF Range
  <2>3. CASE j # Len(s) + 1
    <3>1. j \in DOMAIN s /\ u[j] = s[j]
      BY <1>1, <2>3
    <3>2. <<s[i], s[j]>> \in R
      BY <1>2, <2>1, <3>1 DEF Ordered
    <3>3. QED
      BY <2>1, <3>1, <3>2
  <2>4. QED
    BY <2>2, <2>3
<1>3. Ordered(u, R)
  BY <1>2 DEF Ordered
<1>4. QED
  BY <1>3 DEF u

\* A list without one of its places.
LEMMA RemovedOrdered ==
  ASSUME NEW S, NEW s \in Seq(S), NEW p \in DOMAIN s, NEW R, Ordered(s, R), IsInjective(s)
  PROVE  /\ RemoveAt(s, p) \in Seq(S) /\ Range(RemoveAt(s, p)) = Range(s) \ {s[p]}
         /\ Ordered(RemoveAt(s, p), R)
<1> DEFINE a == SubSeq(s, 1, p - 1)
           b == SubSeq(s, p + 1, Len(s))
<1>1. Len(s) \in Nat /\ p \in 1..Len(s) /\ DOMAIN s = 1..Len(s)
  OBVIOUS
<1>2. /\ a \in Seq(S) /\ Len(a) = p - 1 /\ DOMAIN a = 1..(p - 1)
      /\ \A i \in 1..(p - 1) : a[i] = s[i]
  <2>1. 1 \in 1..(Len(s) + 1) /\ p - 1 \in (1 - 1)..Len(s)
    BY <1>1
  <2>2. /\ a \in Seq(S) /\ Len(a) = (p - 1) - 1 + 1
        /\ \A i \in 1..((p - 1) - 1 + 1) : a[i] = s[1 + i - 1]
    BY ONLY <2>1, s \in Seq(S), SubSeqProperties
  <2>3. (p - 1) - 1 + 1 = p - 1 /\ \A i \in 1..(p - 1) : 1 + i - 1 = i
    BY <1>1
  <2> HIDE DEF a
  <2>4. DOMAIN a = 1..Len(a)
    BY <2>2
  <2>5. QED
    BY <2>2, <2>3, <2>4
<1>3. /\ b \in Seq(S) /\ Len(b) = Len(s) - p /\ DOMAIN b = 1..(Len(s) - p)
      /\ \A i \in 1..(Len(s) - p) : b[i] = s[i + p]
  <2>1. p + 1 \in 1..(Len(s) + 1) /\ Len(s) \in ((p + 1) - 1)..Len(s)
    BY <1>1
  <2>2. /\ b \in Seq(S) /\ Len(b) = Len(s) - (p + 1) + 1
        /\ \A i \in 1..(Len(s) - (p + 1) + 1) : b[i] = s[(p + 1) + i - 1]
    BY ONLY <2>1, s \in Seq(S), SubSeqProperties
  <2>3. Len(s) - (p + 1) + 1 = Len(s) - p /\ \A i \in 1..(Len(s) - p) : (p + 1) + i - 1 = i + p
    BY <1>1
  <2> HIDE DEF b
  <2>4. DOMAIN b = 1..Len(b)
    BY <2>2
  <2>5. QED
    BY <2>2, <2>3, <2>4
<1> HIDE DEF a, b
<1>4. RemoveAt(s, p) = a \o b
  BY DEF RemoveAt, a, b
<1>5. Range(a) \subseteq {s[i] : i \in 1..(p - 1)} /\ {s[i] : i \in 1..(p - 1)} \subseteq Range(a)
  BY <1>2 DEF Range
<1>6. /\ \A i \in 1..(Len(s) - p) : i + p \in (p + 1)..Len(s)
      /\ \A i \in (p + 1)..Len(s) : i - p \in 1..(Len(s) - p) /\ (i - p) + p = i
  BY <1>1
<1>7. Range(b) \subseteq {s[i] : i \in (p + 1)..Len(s)}
  <2>1. SUFFICES ASSUME NEW x \in Range(b)
                 PROVE  x \in {s[i] : i \in (p + 1)..Len(s)}
    OBVIOUS
  <2>2. PICK i \in 1..(Len(s) - p) : x = b[i]
    BY <1>3 DEF Range
  <2>3. x = s[i + p] /\ i + p \in (p + 1)..Len(s)
    BY <1>3, <1>6, <2>2
  <2>4. QED
    BY <2>3
<1>8. {s[i] : i \in (p + 1)..Len(s)} \subseteq Range(b)
  <2>1. SUFFICES ASSUME NEW i \in (p + 1)..Len(s)
                 PROVE  s[i] \in Range(b)
    OBVIOUS
  <2>2. i - p \in DOMAIN b /\ b[i - p] = s[i]
    BY <1>3, <1>6
  <2>3. QED
    BY <2>2 DEF Range
<1>9. Range(s) \ {s[p]} = {s[i] : i \in 1..(p - 1)} \cup {s[i] : i \in (p + 1)..Len(s)}
  <2>1. \A i \in 1..Len(s) : i # p <=> i \in 1..(p - 1) \/ i \in (p + 1)..Len(s)
    BY <1>1
  <2>2. \A i \in 1..(p - 1) \cup (p + 1)..Len(s) : i \in 1..Len(s) /\ i # p
    BY <1>1
  <2>3. \A i \in 1..Len(s) : s[i] = s[p] <=> i = p
    BY <1>1 DEF IsInjective
  <2>4. QED
    BY <1>1, <2>1, <2>2, <2>3 DEF Range
<1>10. a \o b \in Seq(S) /\ Range(a \o b) = Range(a) \cup Range(b)
  BY <1>2, <1>3, Joined
<1>11. Ordered(a, R)
  <2>1. \A i \in 1..(p - 1) : i \in DOMAIN s
    BY <1>1
  <2>2. QED
    BY <1>2, <2>1 DEF Ordered
<1>12. Ordered(b, R)
  <2>1. SUFFICES ASSUME NEW i \in DOMAIN b, NEW j \in DOMAIN b, i < j
                 PROVE  <<b[i], b[j]>> \in R
    BY DEF Ordered
  <2>2. b[i] = s[i + p] /\ b[j] = s[j + p] /\ i + p \in DOMAIN s /\ j + p \in DOMAIN s /\ i + p < j + p
    BY <1>1, <1>3, <2>1
  <2>3. <<s[i + p], s[j + p]>> \in R
    BY <2>2 DEF Ordered
  <2>4. QED
    BY <2>2, <2>3
<1>13. \A x \in Range(a), y \in Range(b) : <<x, y>> \in R
  <2>1. SUFFICES ASSUME NEW x \in Range(a), NEW y \in Range(b)
                 PROVE  <<x, y>> \in R
    OBVIOUS
  <2>2. PICK i \in 1..(p - 1), j \in (p + 1)..Len(s) : x = s[i] /\ y = s[j]
    BY <1>5, <1>7
  <2>3. i \in DOMAIN s /\ j \in DOMAIN s /\ i < j
    BY <1>1
  <2>4. <<s[i], s[j]>> \in R
    BY <2>3 DEF Ordered
  <2>5. QED
    BY <2>2, <2>4
<1>14. Ordered(a \o b, R)
  BY <1>2, <1>3, <1>11, <1>12, <1>13, JoinedOrdered
<1>15. QED
  BY <1>4, <1>5, <1>7, <1>8, <1>9, <1>10, <1>14

-----------------------------------------------------------------------------
(* Rules by their places and rules by what they say.                       *)

TitleIn(rules, n, e) == <<n, {rules[i] : i \in ToSet(e.rules)}>>

\* A list of places that names none twice has as many members as places.
LEMMA InjectiveCounts ==
  ASSUME NEW S, NEW s \in Seq(S), IsInjective(s)
  PROVE  IsFiniteSet(ToSet(s)) /\ Cardinality(ToSet(s)) = Len(s)
<1> DEFINE f == [q \in 1..Len(s) |-> s[q]]
           T == ToSet(s)
<1>1. Len(s) \in Nat /\ DOMAIN s = 1..Len(s)
  OBVIOUS
<1>2. /\ \A q \in 1..Len(s) : s[q] \in T
      /\ \A x \in T : \E q \in 1..Len(s) : s[q] = x
      /\ \A p, q \in 1..Len(s) : s[p] = s[q] => p = q
  BY <1>1 DEF ToSet, IsInjective
<1> HIDE DEF T
<1>3. f \in Bijection(1..Len(s), T)
  BY <1>2 DEF Bijection, Injection, Surjection, IsInjective
<1>4. ExistsBijection(1..Len(s), T)
  BY <1>3 DEF ExistsBijection
<1>5. Cardinality(T) = Len(s)
  BY ONLY <1>1, <1>4, FS_CountingElements
<1>6. IsFiniteSet(1..Len(s))
  BY <1>1, FS_Interval
<1>7. IsFiniteSet(T)
  BY ONLY <1>4, <1>6, FS_Bijection
<1>8. QED
  BY <1>5, <1>7 DEF T

\* n_event_rules_equal finds out whether the rules are the same.
LEMMA RulesEqualIs ==
  ASSUME NEW D, NEW rules, D \subseteq DOMAIN rules, IsInjective(rules),
         NEW a \in Seq(D), NEW b \in Seq(D), IsInjective(a), IsInjective(b)
  PROVE  RulesEqual(a, b) <=> {rules[i] : i \in ToSet(a)} = {rules[i] : i \in ToSet(b)}
<1> DEFINE A == ToSet(a)
           B == ToSet(b)
<1>1. /\ IsFiniteSet(A) /\ Cardinality(A) = Len(a) /\ A \subseteq D
      /\ IsFiniteSet(B) /\ Cardinality(B) = Len(b) /\ B \subseteq D
  BY InjectiveCounts, OwnMembers
<1> HIDE DEF A, B
<1>2. RulesEqual(a, b) <=> A = B
  <2>1. CASE A = B
    BY <1>1, <2>1 DEF RulesEqual, A, B
  <2>2. CASE A # B
    <3>1. SUFFICES ASSUME Cardinality(A) = Cardinality(B), A \subseteq B
                   PROVE  FALSE
      BY <1>1, <2>2 DEF RulesEqual, A, B
    <3>2. A \in SUBSET B
      BY <3>1
    <3>3. B = A
      BY ONLY <1>1, <3>1, <3>2, FS_Subset
    <3>4. QED
      BY <2>2, <3>3
  <2>3. QED
    BY <2>1, <2>2
<1>3. ASSUME {rules[i] : i \in A} = {rules[i] : i \in B}
      PROVE  A = B
  <2>1. \A i, j \in D : rules[i] = rules[j] => i = j
    BY DEF IsInjective
  <2>2. \A i \in A : \E j \in B : rules[i] = rules[j]
    BY <1>3
  <2>3. \A j \in B : \E i \in A : rules[i] = rules[j]
    <3>1. SUFFICES ASSUME NEW j \in B
                   PROVE  \E i \in A : rules[i] = rules[j]
      OBVIOUS
    <3>2. rules[j] \in {rules[i] : i \in A}
      BY <1>3
    <3>3. QED
      BY <3>2
  <2>4. A \subseteq B
    BY <1>1, <2>1, <2>2
  <2>5. B \subseteq A
    BY <1>1, <2>1, <2>3
  <2>6. QED
    BY <2>4, <2>5
<1>4. QED
  BY <1>2, <1>3 DEF A, B

\* As many rules as sort_event_cb counts.
LEMMA CountsOfTitle ==
  ASSUME NEW l, IsInjective(l.rules), NEW n, NEW e, NEW target,
         e.rules \in Seq(DOMAIN l.rules), IsInjective(e.rules)
  PROVE  /\ CountOf(l, e, target) = Cardinality(Of(TitleIn(l.rules, n, e), target))
         /\ CountOf(l, e, target) \in Nat
<1> DEFINE ids   == e.rules
           rules == l.rules
           Q == {q \in DOMAIN ids : rules[ids[q]].target = target}
           T == Of(TitleIn(rules, n, e), target)
           f == [q \in Q |-> rules[ids[q]]]
<1>1. DOMAIN ids = 1..Len(ids) /\ Len(ids) \in Nat /\ \A q \in DOMAIN ids : ids[q] \in DOMAIN rules
  OBVIOUS
<1>2. IsFiniteSet(Q)
  <2>1. IsFiniteSet(1..Len(ids))
    BY <1>1, FS_Interval
  <2>2. Q \in SUBSET (1..Len(ids))
    BY <1>1
  <2> HIDE DEF Q, ids
  <2>3. QED
    BY <2>1, <2>2, FS_Subset
<1>3. T = {rule \in {rules[i] : i \in ToSet(ids)} : rule.target = target}
  BY DEF Of, TitleIn
<1>4. /\ \A q \in Q : rules[ids[q]] \in T
      /\ \A x \in T : \E q \in Q : rules[ids[q]] = x
  BY <1>3 DEF ToSet
<1>5. \A p, q \in Q : rules[ids[p]] = rules[ids[q]] => p = q
  <2>1. SUFFICES ASSUME NEW p \in Q, NEW q \in Q, rules[ids[p]] = rules[ids[q]]
                 PROVE  p = q
    OBVIOUS
  <2>2. ids[p] = ids[q]
    BY <1>1, <2>1 DEF IsInjective
  <2>3. QED
    BY <2>2 DEF IsInjective
<1>6. CountOf(l, e, target) = Cardinality(Q)
  BY DEF CountOf
<1> HIDE DEF Q, T
<1>7. f \in Bijection(Q, T)
  BY <1>4, <1>5 DEF Bijection, Injection, Surjection, IsInjective
<1>8. ExistsBijection(Q, T)
  BY <1>7 DEF ExistsBijection
<1>9. Cardinality(T) = Cardinality(Q)
  BY ONLY <1>2, <1>8, FS_Bijection
<1>10. Cardinality(Q) \in Nat
  BY <1>2, FS_CardinalityType
<1>11. QED
  BY <1>6, <1>9, <1>10 DEF T

-----------------------------------------------------------------------------
(* Merging and sorting rules loses none of them.                           *)

\* One rule more.
LEMMA MergeRuleExact ==
  ASSUME NEW W, Sensible(W), NEW l, IsList(l), NEW m, Extends(m, l),
         ToSet(m.rules) \subseteq RulesOf(W), IsInjective(m.rules), NEW rule \in RulesOf(W),
         NEW rules, NEW n \in Nat, Len(m.ids) = n, rules[n + 1] = rule,
         \A q \in 1..n : m.rules[m.ids[q]] = rules[q]
  PROVE  LET x == MergeRule(m, rule)
         IN  /\ ToSet(x.rules) \subseteq RulesOf(W) /\ IsInjective(x.rules)
             /\ Len(x.ids) = n + 1 /\ \A q \in 1..(n + 1) : x.rules[x.ids[q]] = rules[q]
<1> DEFINE k == Len(m.rules)
           I == {i \in 1..k : RuleEqual(rule, m.rules[i])}
           p == IF I # {} THEN Min(I) ELSE 0
<1>1. /\ m = [rules |-> m.rules, cache |-> m.cache, ids |-> m.ids]
      /\ m.rules \in Seq(Rules) /\ k \in Nat /\ m.ids \in Seq(1..k) /\ DOMAIN m.rules = 1..k
  BY DEF Extends
<1>2. SelectInSeq(m.rules, LAMBDA r : RuleEqual(rule, r)) = p
  BY DEF SelectInSeq
<1>3. MergeRule(m, rule) =
        IF p # 0 THEN [m EXCEPT !.ids = Append(@, p)]
        ELSE [rules |-> Append(m.rules, rule), cache |-> Append(m.cache, "inactive"),
              ids |-> Append(m.ids, k + 1)]
  BY <1>2 DEF MergeRule
<1>4. \A i \in 1..k : m.rules[i] \in RulesOf(W)
  BY <1>1 DEF ToSet
<1>5. \A a, b \in RulesOf(W) : RuleEqual(a, b) => a = b
  BY DEF Sensible
<1>6. p \in {0} \cup I
  <2>1. I \subseteq 1..k
    OBVIOUS
  <2> HIDE DEF I
  <2>2. QED
    BY <1>1, <2>1, FirstPlace
<1>7. p # 0 => p \in 1..k /\ m.rules[p] = rule
  BY <1>4, <1>5, <1>6
<1>8. p = 0 => \A i \in 1..k : m.rules[i] # rule
  <2>1. SUFFICES ASSUME NEW i \in 1..k, m.rules[i] = rule
                 PROVE  p # 0
    OBVIOUS
  <2>2. i \in I
    BY <2>1 DEF RuleEqual
  <2>3. I \subseteq Nat /\ I # {} /\ 0 \notin I
    BY <2>2
  <2> HIDE DEF I
  <2>4. QED
    BY <2>3, MinFacts
<1> HIDE DEF p, I
<1>9. CASE p # 0
  <2>1. MergeRule(m, rule) = [rules |-> m.rules, cache |-> m.cache, ids |-> Append(m.ids, p)]
    BY <1>1, <1>3, <1>9
  <2>2. /\ Len(Append(m.ids, p)) = n + 1 /\ Append(m.ids, p)[n + 1] = p
        /\ \A q \in 1..n : Append(m.ids, p)[q] = m.ids[q]
    BY <1>1, <1>7, <1>9
  <2>3. \A q \in 1..(n + 1) : m.rules[Append(m.ids, p)[q]] = rules[q]
    <3>1. \A q \in 1..(n + 1) : q = n + 1 \/ q \in 1..n
      OBVIOUS
    <3>2. QED
      BY <1>7, <1>9, <2>2, <3>1
  <2>4. QED
    BY <2>1, <2>2, <2>3
<1>10. CASE p = 0
  <2> DEFINE r == Append(m.rules, rule)
             d == Append(m.ids, k + 1)
  <2>1. MergeRule(m, rule) = [rules |-> r, cache |-> Append(m.cache, "inactive"), ids |-> d]
    BY <1>3, <1>10
  <2>2. rule \in Rules
    BY DEF Sensible
  <2>3. /\ r[k + 1] = rule /\ DOMAIN r = 1..(k + 1) /\ \A i \in 1..k : r[i] = m.rules[i]
    BY <1>1, <2>2
  <2>4. Len(d) = n + 1 /\ d[n + 1] = k + 1 /\ \A q \in 1..n : d[q] = m.ids[q] /\ d[q] \in 1..k
    BY <1>1
  <2> HIDE DEF r, d
  <2>5. \A i \in 1..(k + 1) : i = k + 1 \/ i \in 1..k
    BY <1>1
  <2>6. ToSet(r) \subseteq RulesOf(W)
    BY <1>4, <2>3, <2>5 DEF ToSet
  <2>7. IsInjective(r)
    <3>1. SUFFICES ASSUME NEW i \in 1..(k + 1), NEW j \in 1..(k + 1), r[i] = r[j]
                   PROVE  i = j
      BY <2>3 DEF IsInjective
    <3>2. \A x, y \in 1..k : m.rules[x] = m.rules[y] => x = y
      BY <1>1 DEF IsInjective
    <3>3. QED
      BY <1>8, <1>10, <2>3, <2>5, <3>1, <3>2
  <2>8. \A q \in 1..(n + 1) : r[d[q]] = rules[q]
    <3>1. \A q \in 1..(n + 1) : q = n + 1 \/ q \in 1..n
      OBVIOUS
    <3>2. QED
      BY <2>3, <2>4, <3>1, SMTT(30)
  <2>9. QED
    BY <2>1, <2>4, <2>6, <2>7, <2>8
<1>11. QED
  BY <1>9, <1>10

\* The places of a group's rules are places of its rules.
LEMMA MergeExact ==
  ASSUME NEW W, Sensible(W), NEW l, IsList(l),
         ToSet(l.rules) \subseteq RulesOf(W), IsInjective(l.rules), NEW rules \in Seq(RulesOf(W))
  PROVE  LET x == MergeRules(l, rules)
         IN  /\ ToSet(x.rules) \subseteq RulesOf(W) /\ IsInjective(x.rules)
             /\ Len(x.ids) = Len(rules) /\ \A q \in 1..Len(rules) : x.rules[x.ids[q]] = rules[q]
<1> DEFINE base == [rules |-> l.rules, cache |-> l.cache, ids |-> <<>>]
           g == CHOOSE h : Merged(base, rules, Len(rules), h)
           Good(n, x) == /\ Extends(x, l)
                         /\ ToSet(x.rules) \subseteq RulesOf(W) /\ IsInjective(x.rules)
                         /\ Len(x.ids) = n /\ \A q \in 1..n : x.rules[x.ids[q]] = rules[q]
<1>1. Merged(base, rules, Len(rules), g)
  <2> HIDE DEF base
  <2>1. QED
    BY MergedExists, Zenon
<1>2. MergeRules(l, rules) = g[Len(rules)]
  BY DEF MergeRules, Through, Merged
<1>3. Good(0, base)
  <2>1. <<>> \in Seq(1..Len(l.rules)) /\ Len(<<>>) = 0 /\ 1..0 = {}
    OBVIOUS
  <2>2. QED
    BY <2>1 DEF Extends, IsList
<1> HIDE DEF g, base
<1> DEFINE T == {m \in Nat : m <= Len(rules) => Good(m, g[m])}
<1>4. \A n \in 0..Len(rules) :
        g[n] = IF n = 0 THEN base ELSE MergeRule(g[n - 1], rules[n])
  BY <1>1 DEF Merged
<1>5. 0 \in T
  <2>1. g[0] = base
    BY <1>4
  <2> HIDE DEF Good
  <2>2. QED
    BY <2>1, <1>3
<1>6. ASSUME NEW m \in Nat, m \in T
      PROVE  m + 1 \in T
  <2>1. SUFFICES ASSUME m + 1 <= Len(rules)
                 PROVE  Good(m + 1, g[m + 1])
    <3> HIDE DEF Good
    <3>1. QED
      BY m + 1 \in Nat
  <2>2. Good(m, g[m])
    <3> HIDE DEF Good
    <3>1. QED
      BY <1>6, <2>1
  <2>3. rules[m + 1] \in RulesOf(W) /\ rules[m + 1] \in Rules
    BY <2>1 DEF Sensible
  <2>4. m + 1 \in 0..Len(rules) /\ m + 1 # 0 /\ (m + 1) - 1 = m
    BY <2>1
  <2>5. g[m + 1] = MergeRule(g[m], rules[m + 1])
    BY <1>4, <2>4
  <2>6. Extends(g[m + 1], l)
    BY <2>2, <2>3, <2>5, MergeRuleExtends DEF IsList
  <2>7. /\ ToSet(g[m + 1].rules) \subseteq RulesOf(W) /\ IsInjective(g[m + 1].rules)
        /\ Len(g[m + 1].ids) = m + 1 /\ \A q \in 1..(m + 1) : g[m + 1].rules[g[m + 1].ids[q]] = rules[q]
    <3> DEFINE y == g[m]
               rule == rules[m + 1]
    <3>1. /\ Extends(y, l) /\ ToSet(y.rules) \subseteq RulesOf(W) /\ IsInjective(y.rules)
          /\ Len(y.ids) = m /\ \A q \in 1..m : y.rules[y.ids[q]] = rules[q]
      BY <2>2
    <3>2. rule \in RulesOf(W) /\ rules[m + 1] = rule
      BY <2>3
    <3>3. g[m + 1] = MergeRule(y, rule)
      BY <2>5
    <3> HIDE DEF y, rule, Good, T
    <3> DEFINE z == MergeRule(y, rule)
    <3>4. /\ ToSet(z.rules) \subseteq RulesOf(W) /\ IsInjective(z.rules)
          /\ Len(z.ids) = m + 1 /\ \A q \in 1..(m + 1) : z.rules[z.ids[q]] = rules[q]
      BY <3>1, <3>2, MergeRuleExact
    <3>5. QED
      BY <3>3, <3>4
  <2>8. QED
    BY <2>6, <2>7
<1>7. Nat \subseteq T
  <2> HIDE DEF T
  <2>1. QED
    BY <1>5, <1>6, SetInduction
<1>8. Len(rules) \in T
  BY <1>7
<1>9. QED
  BY <1>2, <1>8

\* The context rules first are the same rules.
LEMMA SortedExact ==
  ASSUME NEW l, NEW ids \in Seq(DOMAIN l.rules), IsInjective(ids)
  PROVE  /\ ContextFirst(l, ids) \in Seq(DOMAIN l.rules)
         /\ IsInjective(ContextFirst(l, ids)) /\ ToSet(ContextFirst(l, ids)) = ToSet(ids)
<1> DEFINE D == DOMAIN l.rules
           E == {i \in D : OnContext(l, i)}
           a == Only(ids, E)
           b == Only(ids, D \ E)
<1>1. /\ a \in Seq(D) /\ Range(a) = Range(ids) \cap E /\ IsInjective(a)
      /\ b \in Seq(D) /\ Range(b) = Range(ids) \cap (D \ E) /\ IsInjective(b)
  BY OnlyAlone
<1>2. ContextFirst(l, ids) = a \o b
  BY DEF ContextFirst
<1>3. Range(ids) \subseteq D
  BY DEF Range
<1> HIDE DEF a, b, D, E
<1>4. Range(a) \cap Range(b) = {}
  BY <1>1
<1>5. a \o b \in Seq(D) /\ Range(a \o b) = Range(a) \cup Range(b) /\ IsInjective(a \o b)
  BY <1>1, <1>4, Joined
<1>6. Range(a) \cup Range(b) = Range(ids)
  BY <1>1, <1>3
<1>7. \A s : ToSet(s) = Range(s)
  BY DEF ToSet, Range
<1>8. QED
  BY <1>2, <1>5, <1>6, <1>7 DEF D

-----------------------------------------------------------------------------
(* The events of the first m groups.                                       *)

\* The event of title t goes before that of title u.
Outranks(W, m, t, u) == Heavier(WeightTo(W, m, t), WeightTo(W, m, u))

\* e is the event of name n that the groups make of its rules.
FromFiles(e, rules, W, m, n) ==
  LET t == TitleIn(rules, n, e)
  IN  /\ e.rules \in Seq(DOMAIN rules) /\ IsInjective(e.rules)
      /\ LayersTo(W, m, t) # {} /\ e.props = PropsTo(W, m, t) /\ e.prio = W[FirstTo(W, m, t)].prio

\* All of them, in their order.
EventsMatch(ev, rules, W, m, n) ==
  /\ \A e \in ToSet(ev) : FromFiles(e, rules, W, m, n)
  /\ \A i \in 1..m : W[i].name = n /\ LayersTo(W, m, Title(W[i])) # {} =>
       \E e \in ToSet(ev) : TitleIn(rules, n, e) = Title(W[i])
  /\ \A i, j \in DOMAIN ev :
       i < j => Outranks(W, m, TitleIn(rules, n, ev[i]), TitleIn(rules, n, ev[j]))

\* A list that was made of the first m groups of W.
MadeOf(l, W, m) ==
  /\ ToSet(l.rules) \subseteq RulesOf(W) /\ IsInjective(l.rules)
  /\ \A n \in Names : EventsMatch(l.events[n], l.rules, W, m, n)

\* The first layer, which gives an event its priority and its place.
LEMMA FirstFacts ==
  ASSUME NEW W, Sensible(W), NEW m \in Nat, m <= Len(W), NEW t, LayersTo(W, m, t) # {}
  PROVE  /\ FirstTo(W, m, t) \in LayersTo(W, m, t) /\ FirstTo(W, m, t) \in 1..m
         /\ \A i \in LayersTo(W, m, t) : FirstTo(W, m, t) <= i
         /\ W[FirstTo(W, m, t)].prio \in Int /\ Title(W[FirstTo(W, m, t)]) = t
<1>1. LayersTo(W, m, t) \subseteq 1..m /\ LayersTo(W, m, t) \subseteq Nat
  BY LayerPlaces
<1>2. /\ FirstTo(W, m, t) \in LayersTo(W, m, t)
      /\ \A i \in LayersTo(W, m, t) : FirstTo(W, m, t) <= i
  BY <1>1, MinFacts DEF FirstTo
<1>3. FirstTo(W, m, t) \in 1..m
  BY <1>1, <1>2
<1>4. Title(W[FirstTo(W, m, t)]) = t
  BY <1>2 DEF LayersTo
<1>5. W[FirstTo(W, m, t)] \in ToSet(W)
  <2>1. W \in Seq(ToSet(W))
    BY DEF Sensible
  <2>2. FirstTo(W, m, t) \in DOMAIN W
    BY <1>3, <2>1
  <2>3. QED
    BY <2>2 DEF ToSet
<1>6. W[FirstTo(W, m, t)].prio \in Int
  BY <1>5 DEF Sensible
<1>7. QED
  BY <1>2, <1>3, <1>4, <1>6

\* What sort_event_cb compares, and the places where they are equal.
LEMMA OutranksIs ==
  ASSUME NEW W, Sensible(W), NEW m \in Nat, m <= Len(W), NEW l, IsInjective(l.rules), NEW n,
         NEW e, FromFiles(e, l.rules, W, m, n), NEW f, FromFiles(f, l.rules, W, m, n)
  PROVE  LET a == CountOf(l, e, "request")   b == CountOf(l, f, "request")
             c == CountOf(l, e, "context")   d == CountOf(l, f, "context")
             p == FirstTo(W, m, TitleIn(l.rules, n, e))
             q == FirstTo(W, m, TitleIn(l.rules, n, f))
         IN  /\ e.prio \in Int /\ f.prio \in Int /\ a \in Nat /\ b \in Nat /\ c \in Nat /\ d \in Nat
             /\ p \in 1..m /\ q \in 1..m
             /\ Outranks(W, m, TitleIn(l.rules, n, e), TitleIn(l.rules, n, f)) <=>
                  \/ e.prio > f.prio
                  \/ e.prio = f.prio /\ a > b
                  \/ e.prio = f.prio /\ a = b /\ c > d
                  \/ e.prio = f.prio /\ a = b /\ c = d /\ p < q
<1> DEFINE t == TitleIn(l.rules, n, e)
           u == TitleIn(l.rules, n, f)
           a == CountOf(l, e, "request")
           b == CountOf(l, f, "request")
           c == CountOf(l, e, "context")
           d == CountOf(l, f, "context")
           p == FirstTo(W, m, t)
           q == FirstTo(W, m, u)
<1>1. /\ e.rules \in Seq(DOMAIN l.rules) /\ IsInjective(e.rules)
      /\ LayersTo(W, m, t) # {} /\ e.prio = W[p].prio
      /\ f.rules \in Seq(DOMAIN l.rules) /\ IsInjective(f.rules)
      /\ LayersTo(W, m, u) # {} /\ f.prio = W[q].prio
  BY DEF FromFiles
<1>2. p \in 1..m /\ q \in 1..m /\ W[p].prio \in Int /\ W[q].prio \in Int
  BY <1>1, FirstFacts
<1>3. /\ a = Cardinality(Of(t, "request")) /\ a \in Nat
      /\ c = Cardinality(Of(t, "context")) /\ c \in Nat
      /\ b = Cardinality(Of(u, "request")) /\ b \in Nat
      /\ d = Cardinality(Of(u, "context")) /\ d \in Nat
  BY <1>1, CountsOfTitle, ZenonT(30)
<1> DEFINE v == WeightTo(W, m, t)
           w == WeightTo(W, m, u)
<1>4. /\ v[1] = e.prio /\ v[2] = a /\ v[3] = c /\ v[4] = -p
      /\ w[1] = f.prio /\ w[2] = b /\ w[3] = d /\ w[4] = -q
  BY <1>1, <1>3 DEF WeightTo
<1>5. Outranks(W, m, t, u) <=> Heavier(v, w)
  BY DEF Outranks
<1>6. (-p > -q <=> p < q) /\ e.prio \in Int /\ f.prio \in Int
  BY <1>1, <1>2
<1> HIDE DEF t, u, a, b, c, d, p, q, v, w
<1>7. Heavier(v, w) <=>
           \/ v[1] > w[1]
           \/ v[1] = w[1] /\ v[2] > w[2]
           \/ v[1] = w[1] /\ v[2] = w[2] /\ v[3] > w[3]
           \/ v[1] = w[1] /\ v[2] = w[2] /\ v[3] = w[3] /\ v[4] > w[4]
  BY ONLY HeavierIs
<1>8. Outranks(W, m, t, u) <=>
                  \/ e.prio > f.prio
                  \/ e.prio = f.prio /\ a > b
                  \/ e.prio = f.prio /\ a = b /\ c > d
                  \/ e.prio = f.prio /\ a = b /\ c = d /\ p < q
  BY <1>4, <1>5, <1>6, <1>7
<1>9. QED
  BY <1>2, <1>3, <1>6, <1>8 DEF t, u, a, b, c, d, p, q

\* No two events of a name have one title.
Apart(ev, rules, n) ==
  /\ IsInjective(ev)
  /\ \A e, f \in ToSet(ev) : TitleIn(rules, n, e) = TitleIn(rules, n, f) => e = f

LEMMA TitlesApart ==
  ASSUME NEW W, Sensible(W), NEW m \in Nat, m <= Len(W), NEW l, IsInjective(l.rules), NEW n,
         NEW S, NEW ev \in Seq(S), EventsMatch(ev, l.rules, W, m, n)
  PROVE  Apart(ev, l.rules, n)
<1> DEFINE T(e) == TitleIn(l.rules, n, e)
<1>1. \A i \in DOMAIN ev : FromFiles(ev[i], l.rules, W, m, n)
  BY DEF EventsMatch, ToSet
<1>2. DOMAIN ev = 1..Len(ev)
  OBVIOUS
<1>3. ASSUME NEW i \in DOMAIN ev, NEW j \in DOMAIN ev, i < j
      PROVE  T(ev[i]) # T(ev[j])
  <2>1. SUFFICES ASSUME T(ev[i]) = T(ev[j])
                 PROVE  FALSE
    OBVIOUS
  <2>2. Outranks(W, m, T(ev[i]), T(ev[i]))
    BY <1>3, <2>1 DEF EventsMatch
  <2>3. PICK e : e = ev[i] /\ FromFiles(e, l.rules, W, m, n) /\ Outranks(W, m, T(e), T(e))
    BY <1>1, <2>2
  <2> DEFINE a == CountOf(l, e, "request")
             c == CountOf(l, e, "context")
             p == FirstTo(W, m, T(e))
  <2>4. /\ e.prio \in Int /\ a \in Nat /\ c \in Nat /\ p \in 1..m
        /\ Outranks(W, m, T(e), T(e)) <=>
             \/ e.prio > e.prio
             \/ e.prio = e.prio /\ a > a
             \/ e.prio = e.prio /\ a = a /\ c > c
             \/ e.prio = e.prio /\ a = a /\ c = c /\ p < p
    BY ONLY <2>3, Sensible(W), m \in Nat, m <= Len(W), IsInjective(l.rules), OutranksIs, Zenon
  <2> HIDE DEF a, c, p, T
  <2>5. QED
    BY <2>3, <2>4
<1>4. ASSUME NEW i \in DOMAIN ev, NEW j \in DOMAIN ev, T(ev[i]) = T(ev[j])
      PROVE  i = j
  <2>1. i < j \/ j < i \/ i = j
    BY <1>2
  <2> HIDE DEF T
  <2>2. QED
    BY <1>3, <1>4, <2>1
<1> HIDE DEF T
<1>5. IsInjective(ev)
  <2>1. \A i, j \in DOMAIN ev : ev[i] = ev[j] => i = j
    BY <1>4
  <2>2. QED
    BY <2>1, Zenon DEF IsInjective
<1>6. \A e, f \in ToSet(ev) : T(e) = T(f) => e = f
  BY <1>4 DEF ToSet
<1>7. QED
  BY <1>5, <1>6 DEF T, Apart

\* A group says nothing of the events of other titles.
LEMMA OthersStay ==
  ASSUME NEW W, Sensible(W), NEW m \in Nat, m + 1 <= Len(W), NEW t, t # Title(W[m + 1])
  PROVE  /\ LayersTo(W, m + 1, t) = LayersTo(W, m, t) /\ FirstTo(W, m + 1, t) = FirstTo(W, m, t)
         /\ PropsTo(W, m + 1, t) = PropsTo(W, m, t) /\ WeightTo(W, m + 1, t) = WeightTo(W, m, t)
<1>1. LayersTo(W, m + 1, t) = LayersTo(W, m, t)
  BY LayersNext
<1>2. FirstTo(W, m + 1, t) = FirstTo(W, m, t)
  BY <1>1 DEF FirstTo
<1>3. \A k : TopTo(W, m + 1, t, k) = TopTo(W, m, t, k)
  BY <1>1 DEF TopTo
<1>4. KeysTo(W, m + 1, t) = KeysTo(W, m, t)
  BY <1>1, <1>3 DEF KeysTo
<1>5. PropsTo(W, m + 1, t) = PropsTo(W, m, t)
  BY <1>3, <1>4 DEF PropsTo
<1>6. WeightTo(W, m + 1, t) = WeightTo(W, m, t)
  BY <1>2 DEF WeightTo
<1>7. QED
  BY <1>1, <1>2, <1>5, <1>6

\* More rules at the end of the list leave the titles.
LEMMA TitleStays ==
  ASSUME NEW r, NEW s, NEW n, NEW e, e.rules \in Seq(DOMAIN r),
         DOMAIN r \subseteq DOMAIN s, \A i \in DOMAIN r : s[i] = r[i]
  PROVE  TitleIn(s, n, e) = TitleIn(r, n, e) /\ e.rules \in Seq(DOMAIN s)
<1>1. ToSet(e.rules) \subseteq DOMAIN r
  BY OwnMembers
<1>2. {s[i] : i \in ToSet(e.rules)} = {r[i] : i \in ToSet(e.rules)}
  BY <1>1
<1>3. e.rules \in Seq(DOMAIN s)
  BY <1>1, OwnMembers, MembersIn
<1>4. QED
  BY <1>2, <1>3 DEF TitleIn

LEMMA LongerRules ==
  ASSUME NEW r, NEW s, DOMAIN r \subseteq DOMAIN s, \A i \in DOMAIN r : s[i] = r[i],
         NEW W, NEW m, NEW n, NEW ev, EventsMatch(ev, r, W, m, n)
  PROVE  EventsMatch(ev, s, W, m, n)
<1>1. \A e \in ToSet(ev) : FromFiles(e, r, W, m, n)
  BY DEF EventsMatch
<1>2. \A e \in ToSet(ev) : TitleIn(s, n, e) = TitleIn(r, n, e) /\ e.rules \in Seq(DOMAIN s)
  BY <1>1, TitleStays DEF FromFiles
<1>3. \A e \in ToSet(ev) : FromFiles(e, s, W, m, n)
  BY <1>1, <1>2 DEF FromFiles
<1>4. \A i \in DOMAIN ev : TitleIn(s, n, ev[i]) = TitleIn(r, n, ev[i])
  BY <1>2 DEF ToSet
<1>5. QED
  BY <1>2, <1>3, <1>4 DEF EventsMatch

\* The events of other names stay.
LEMMA OtherNames ==
  ASSUME NEW W, Sensible(W), NEW m \in Nat, m + 1 <= Len(W), NEW n, W[m + 1].name # n,
         NEW rules, NEW ev, EventsMatch(ev, rules, W, m, n)
  PROVE  EventsMatch(ev, rules, W, m + 1, n)
<1> DEFINE T(e) == TitleIn(rules, n, e)
<1>1. \A e : T(e) # Title(W[m + 1])
  BY DEF TitleIn, Title
<1> HIDE DEF T
<1>2. \A e : /\ LayersTo(W, m + 1, T(e)) = LayersTo(W, m, T(e))
             /\ FirstTo(W, m + 1, T(e)) = FirstTo(W, m, T(e))
             /\ PropsTo(W, m + 1, T(e)) = PropsTo(W, m, T(e))
             /\ WeightTo(W, m + 1, T(e)) = WeightTo(W, m, T(e))
  BY <1>1, OthersStay
<1>3. \A e \in ToSet(ev) : FromFiles(e, rules, W, m + 1, n)
  BY <1>2 DEF EventsMatch, FromFiles, T
<1>4. ASSUME NEW i \in 1..(m + 1), W[i].name = n, LayersTo(W, m + 1, Title(W[i])) # {}
      PROVE  \E e \in ToSet(ev) : T(e) = Title(W[i])
  <2>1. i \in 1..m
    BY <1>4
  <2>2. Title(W[i]) # Title(W[m + 1])
    BY <1>4 DEF Title
  <2>3. LayersTo(W, m, Title(W[i])) # {}
    BY <1>4, <2>2, OthersStay
  <2>4. QED
    BY <1>4, <2>1, <2>3 DEF EventsMatch, T
<1>5. \A i, j \in DOMAIN ev : i < j => Outranks(W, m + 1, T(ev[i]), T(ev[j]))
  BY <1>2 DEF EventsMatch, Outranks, T
<1>6. QED
  BY <1>3, <1>4, <1>5 DEF EventsMatch, T

-----------------------------------------------------------------------------
(* What a group makes of the events of its name.                           *)

\* What is true of the events and of the list when group m + 1 is added.
Adding(W, m, l, S, ev) ==
  /\ Sensible(W) /\ m \in Nat /\ m + 1 <= Len(W) /\ IsInjective(l.rules)
  /\ ev \in Seq(S) /\ EventsMatch(ev, l.rules, W, m, W[m + 1].name)

\* There is an event of the title when there are layers of it.
LEMMA TitleFound ==
  ASSUME NEW W, NEW m, NEW l, NEW S, NEW ev, Adding(W, m, l, S, ev),
         LayersTo(W, m, Title(W[m + 1])) # {}
  PROVE  \E e \in ToSet(ev) : TitleIn(l.rules, W[m + 1].name, e) = Title(W[m + 1])
<1> DEFINE t == Title(W[m + 1])
           n == W[m + 1].name
<1>1. PICK i \in LayersTo(W, m, t) : i \in 1..m /\ Title(W[i]) = t
  BY DEF LayersTo
<1>2. W[i].name = n
  BY <1>1 DEF Title
<1>3. \A j \in 1..m : W[j].name = n /\ LayersTo(W, m, Title(W[j])) # {} =>
        \E e \in ToSet(ev) : TitleIn(l.rules, n, e) = Title(W[j])
  BY DEF Adding, EventsMatch
<1>4. QED
  BY <1>1, <1>2, <1>3

\* The events of other titles stay.
LEMMA StaysFromFiles ==
  ASSUME NEW W, NEW m, NEW l, NEW S, NEW ev, Adding(W, m, l, S, ev), NEW e,
         FromFiles(e, l.rules, W, m, W[m + 1].name),
         TitleIn(l.rules, W[m + 1].name, e) # Title(W[m + 1])
  PROVE  LET t == TitleIn(l.rules, W[m + 1].name, e)
         IN  /\ FromFiles(e, l.rules, W, m + 1, W[m + 1].name)
             /\ WeightTo(W, m + 1, t) = WeightTo(W, m, t)
             /\ FirstTo(W, m + 1, t) = FirstTo(W, m, t)
<1> DEFINE t == TitleIn(l.rules, W[m + 1].name, e)
<1>1. /\ LayersTo(W, m + 1, t) = LayersTo(W, m, t) /\ FirstTo(W, m + 1, t) = FirstTo(W, m, t)
      /\ PropsTo(W, m + 1, t) = PropsTo(W, m, t) /\ WeightTo(W, m + 1, t) = WeightTo(W, m, t)
  BY OthersStay DEF Adding
<1>2. QED
  BY <1>1 DEF FromFiles

\* A group that makes an event: it goes behind those that go before it.
LEMMA InsertedMatches ==
  ASSUME NEW W, NEW m, NEW l, NEW S, NEW ev, Adding(W, m, l, S, ev),
         NEW x, x.rules \in Seq(DOMAIN l.rules), IsInjective(x.rules),
         x.prio = W[m + 1].prio, x.props = W[m + 1].props,
         TitleIn(l.rules, W[m + 1].name, x) = Title(W[m + 1]),
         \A e \in ToSet(ev) : TitleIn(l.rules, W[m + 1].name, e) # Title(W[m + 1])
  PROVE  EventsMatch(Inserted(l, ev, x), l.rules, W, m + 1, W[m + 1].name)
<1> DEFINE n == W[m + 1].name
           t == Title(W[m + 1])
           T(e) == TitleIn(l.rules, n, e)
           A == ToSet(ev)
           U == A \cup {x}
           after == {y \in A : Before(l, x, y)}
           front == Only(ev, A \ after)
           back == Only(ev, after)
           R == {pair \in U \X U : Outranks(W, m + 1, T(pair[1]), T(pair[2]))}
           new == Inserted(l, ev, x)
<1>1. /\ Sensible(W) /\ m \in Nat /\ m + 1 \in Nat /\ m + 1 <= Len(W) /\ m <= Len(W)
      /\ IsInjective(l.rules)
      /\ ev \in Seq(S) /\ EventsMatch(ev, l.rules, W, m, n)
  <2>1. /\ Sensible(W) /\ m \in Nat /\ m + 1 <= Len(W) /\ IsInjective(l.rules)
        /\ ev \in Seq(S) /\ EventsMatch(ev, l.rules, W, m, n)
    BY DEF Adding
  <2>2. Len(W) \in Nat
    BY <2>1 DEF Sensible
  <2>3. QED
    BY <2>1, <2>2
<1>2. LayersTo(W, m, t) = {}
  BY TitleFound
<1>3. ~W[m + 1].unsetEvent
  BY <1>1, <1>2, LayersNext
<1>4. /\ LayersTo(W, m + 1, t) = {m + 1} /\ FirstTo(W, m + 1, t) = m + 1
      /\ PropsTo(W, m + 1, t) = W[m + 1].props
  BY <1>1, <1>2, <1>3, PropsFirst
<1>5. FromFiles(x, l.rules, W, m + 1, n) /\ T(x) = t
  BY <1>4 DEF FromFiles
<1>6. ASSUME NEW e \in A
      PROVE  /\ FromFiles(e, l.rules, W, m, n) /\ T(e) # t
             /\ FromFiles(e, l.rules, W, m + 1, n) /\ WeightTo(W, m + 1, T(e)) = WeightTo(W, m, T(e))
             /\ FirstTo(W, m + 1, T(e)) \in 1..m
  <2>1. FromFiles(e, l.rules, W, m, n) /\ T(e) # t
    BY <1>1 DEF EventsMatch
  <2>2. /\ FromFiles(e, l.rules, W, m + 1, n) /\ WeightTo(W, m + 1, T(e)) = WeightTo(W, m, T(e))
        /\ FirstTo(W, m + 1, T(e)) = FirstTo(W, m, T(e))
    BY <2>1, StaysFromFiles
  <2>3. LayersTo(W, m, T(e)) # {}
    BY <2>1 DEF FromFiles
  <2>4. FirstTo(W, m, T(e)) \in 1..m
    BY <1>1, <2>3, FirstFacts
  <2>5. QED
    BY <2>1, <2>2, <2>4
<1> DEFINE N(e) == CountOf(l, e, "request")
           C(e) == CountOf(l, e, "context")
           P(e) == FirstTo(W, m + 1, T(e))
<1>7. ASSUME NEW e \in U, NEW f \in U
      PROVE  /\ e.prio \in Int /\ f.prio \in Int /\ N(e) \in Nat /\ N(f) \in Nat
             /\ C(e) \in Nat /\ C(f) \in Nat /\ P(e) \in 1..(m + 1) /\ P(f) \in 1..(m + 1)
             /\ Outranks(W, m + 1, T(e), T(f)) <=>
                  \/ e.prio > f.prio
                  \/ e.prio = f.prio /\ N(e) > N(f)
                  \/ e.prio = f.prio /\ N(e) = N(f) /\ C(e) > C(f)
                  \/ e.prio = f.prio /\ N(e) = N(f) /\ C(e) = C(f) /\ P(e) < P(f)
  <2>1. FromFiles(e, l.rules, W, m + 1, n) /\ FromFiles(f, l.rules, W, m + 1, n)
    BY <1>5, <1>6
  <2>2. QED
    BY ONLY <1>1, <2>1, OutranksIs, Zenon
<1>8. P(x) = m + 1
  BY <1>4, <1>5
<1>9. \A y \in A : Before(l, x, y) <=>
                  \/ x.prio > y.prio
                  \/ x.prio = y.prio /\ N(x) > N(y)
                  \/ x.prio = y.prio /\ N(x) = N(y) /\ C(x) > C(y)
  BY DEF Before
<1> HIDE DEF N, C, P, T
<1>10. ASSUME NEW y \in after
       PROVE  Outranks(W, m + 1, T(x), T(y))
  BY <1>7, <1>9
<1>11. ASSUME NEW y \in A \ after
       PROVE  Outranks(W, m + 1, T(y), T(x))
  <2>1. ~Before(l, x, y) /\ y \in A
    OBVIOUS
  <2>2. P(y) < m + 1
    BY <1>1, <1>6 DEF P
  <2>3. QED
    BY <1>7, <1>8, <1>9, <2>1, <2>2
<1>12. ASSUME NEW y \in A \ after, NEW z \in after
       PROVE  Outranks(W, m + 1, T(y), T(z))
  <2>1. Outranks(W, m + 1, T(y), T(x)) /\ Outranks(W, m + 1, T(x), T(z))
    BY <1>10, <1>11
  <2>2. /\ y.prio \in Int /\ x.prio \in Int /\ z.prio \in Int /\ N(y) \in Nat /\ N(x) \in Nat
        /\ N(z) \in Nat /\ C(y) \in Nat /\ C(x) \in Nat /\ C(z) \in Nat
        /\ P(y) \in Nat /\ P(x) \in Nat /\ P(z) \in Nat
    BY <1>1, <1>7, SMTT(30)
  <2>3. QED
    BY <1>7, <2>1, <2>2, SMTT(30)
<1>13. Ordered(ev, R)
  <2>1. SUFFICES ASSUME NEW i \in DOMAIN ev, NEW j \in DOMAIN ev, i < j
                 PROVE  <<ev[i], ev[j]>> \in R
    BY DEF Ordered
  <2>2. ev[i] \in A /\ ev[j] \in A
    BY DEF ToSet
  <2>3. Outranks(W, m, T(ev[i]), T(ev[j]))
    BY <1>1, <2>1 DEF EventsMatch, T
  <2>4. Outranks(W, m + 1, T(ev[i]), T(ev[j]))
    BY <1>6, <2>2, <2>3 DEF Outranks
  <2>5. QED
    BY <2>2, <2>4
<1>14. /\ front \in Seq(A) /\ Range(front) = A \ after /\ Ordered(front, R)
       /\ back \in Seq(A) /\ Range(back) = after /\ Ordered(back, R)
  <2>1. ev \in Seq(A) /\ Range(ev) = A
    BY <1>1, OwnMembers DEF Range, ToSet
  <2>2. A \cap (A \ after) = A \ after /\ A \cap after = after
    OBVIOUS
  <2> HIDE DEF R, A, after
  <2>3. QED
    BY <1>13, <2>1, <2>2, OnlyFacts, OnlyMembers, OnlyOrdered
<1>15. new = Append(front, x) \o back
  BY DEF Inserted
<1>16. /\ \A y \in A \ after : <<y, x>> \in R
       /\ \A y \in after : <<x, y>> \in R
       /\ \A y \in A \ after, z \in after : <<y, z>> \in R
  BY <1>10, <1>11, <1>12
<1>17. front \in Seq(U) /\ back \in Seq(U) /\ x \in U
  <2>1. A \subseteq U
    OBVIOUS
  <2>2. \A s : s \in Seq(A) => s \in Seq(U)
    <3> HIDE DEF A, U
    <3>1. QED
      BY <2>1, OwnMembers, MembersIn
  <2>3. QED
    BY <1>14, <2>2
<1> HIDE DEF front, back, R, new, U, after
<1>18. /\ Append(front, x) \in Seq(U) /\ Ordered(Append(front, x), R)
       /\ Range(Append(front, x)) = (A \ after) \cup {x}
  BY <1>14, <1>16, <1>17, Appended, AppendedOrdered
<1>19. new \in Seq(U) /\ Ordered(new, R) /\ Range(new) = ((A \ after) \cup {x}) \cup after
  <2> DEFINE s == Append(front, x)
  <2>1. \A y \in Range(s), z \in Range(back) : <<y, z>> \in R
    BY <1>14, <1>16, <1>18
  <2> HIDE DEF s
  <2>2. s \in Seq(U) /\ Ordered(s, R) /\ Range(s) = (A \ after) \cup {x} /\ new = s \o back
    BY <1>15, <1>18 DEF s
  <2>3. QED
    BY ONLY <1>14, <1>17, <2>1, <2>2, Joined, JoinedOrdered
<1>20. ToSet(new) = U
  BY <1>19 DEF Range, ToSet, U, after
<1>21. \A e \in ToSet(new) : FromFiles(e, l.rules, W, m + 1, n)
  BY <1>5, <1>6, <1>20 DEF U
<1>22. ASSUME NEW i \in 1..(m + 1), W[i].name = n, LayersTo(W, m + 1, Title(W[i])) # {}
       PROVE  \E e \in ToSet(new) : T(e) = Title(W[i])
  <2>1. CASE Title(W[i]) = t
    BY <1>5, <1>20, <2>1 DEF U, T
  <2>2. CASE Title(W[i]) # t
    <3>1. i \in 1..m
      BY <1>1, <2>2
    <3>2. LayersTo(W, m, Title(W[i])) # {}
      BY <1>1, <1>22, <2>2, OthersStay
    <3>3. \E e \in A : T(e) = Title(W[i])
      BY <1>1, <1>22, <3>1, <3>2 DEF EventsMatch, T
    <3>4. QED
      BY <1>20, <3>3 DEF U
  <2>3. QED
    BY <2>1, <2>2
<1>23. \A i, j \in DOMAIN new : i < j => Outranks(W, m + 1, T(new[i]), T(new[j]))
  BY <1>19 DEF Ordered, R
<1>24. QED
  BY <1>21, <1>22, <1>23 DEF EventsMatch, new, T

\* A group that removes an event.
LEMMA RemovedMatches ==
  ASSUME NEW W, NEW m, NEW l, NEW S, NEW ev, Adding(W, m, l, S, ev), W[m + 1].unsetEvent,
         NEW p \in DOMAIN ev, TitleIn(l.rules, W[m + 1].name, ev[p]) = Title(W[m + 1])
  PROVE  EventsMatch(RemoveAt(ev, p), l.rules, W, m + 1, W[m + 1].name)
<1> DEFINE n == W[m + 1].name
           t == Title(W[m + 1])
           T(e) == TitleIn(l.rules, n, e)
           A == ToSet(ev)
           R == {pair \in A \X A : Outranks(W, m, T(pair[1]), T(pair[2]))}
           new == RemoveAt(ev, p)
<1>1. /\ Sensible(W) /\ m \in Nat /\ m + 1 \in Nat /\ m + 1 <= Len(W) /\ m <= Len(W)
      /\ IsInjective(l.rules)
      /\ ev \in Seq(S) /\ EventsMatch(ev, l.rules, W, m, n)
  <2>1. /\ Sensible(W) /\ m \in Nat /\ m + 1 <= Len(W) /\ IsInjective(l.rules)
        /\ ev \in Seq(S) /\ EventsMatch(ev, l.rules, W, m, n)
    BY DEF Adding
  <2>2. Len(W) \in Nat
    BY <2>1 DEF Sensible
  <2>3. QED
    BY <2>1, <2>2
<1>2. IsInjective(ev) /\ \A e, f \in A : T(e) = T(f) => e = f
  <2>1. Apart(ev, l.rules, n)
    BY ONLY <1>1, TitlesApart, Zenon
  <2>2. QED
    BY <2>1 DEF Apart
<1>3. LayersTo(W, m + 1, t) = {}
  BY <1>1, LayersNext
<1>4. ev[p] \in A /\ T(ev[p]) = t
  BY DEF ToSet
<1>5. ASSUME NEW e \in A \ {ev[p]}
      PROVE  /\ FromFiles(e, l.rules, W, m + 1, n) /\ WeightTo(W, m + 1, T(e)) = WeightTo(W, m, T(e))
  <2>1. FromFiles(e, l.rules, W, m, n) /\ T(e) # t
    BY <1>1, <1>2, <1>4 DEF EventsMatch
  <2>2. QED
    BY <2>1, StaysFromFiles
<1> HIDE DEF T
<1>6. Ordered(ev, R)
  <2>1. SUFFICES ASSUME NEW i \in DOMAIN ev, NEW j \in DOMAIN ev, i < j
                 PROVE  <<ev[i], ev[j]>> \in R
    BY DEF Ordered
  <2>2. ev[i] \in A /\ ev[j] \in A
    BY DEF ToSet
  <2>3. Outranks(W, m, T(ev[i]), T(ev[j]))
    BY <1>1, <2>1 DEF EventsMatch, T
  <2>4. QED
    BY <2>2, <2>3
<1> HIDE DEF R, new
<1>7. Range(new) = Range(ev) \ {ev[p]} /\ Ordered(new, R)
  BY <1>1, <1>2, <1>6, RemovedOrdered DEF new
<1>8. ToSet(new) = A \ {ev[p]}
  BY <1>7 DEF ToSet, Range
<1>9. \A e \in ToSet(new) : FromFiles(e, l.rules, W, m + 1, n)
  BY <1>5, <1>8
<1>10. ASSUME NEW i \in 1..(m + 1), W[i].name = n, LayersTo(W, m + 1, Title(W[i])) # {}
       PROVE  \E e \in ToSet(new) : T(e) = Title(W[i])
  <2>1. Title(W[i]) # t
    BY <1>3, <1>10
  <2>2. i \in 1..m
    BY <1>1, <2>1
  <2>3. LayersTo(W, m, Title(W[i])) # {}
    BY <1>1, <1>10, <2>1, OthersStay
  <2>4. PICK e \in A : T(e) = Title(W[i])
    BY <1>1, <1>10, <2>2, <2>3 DEF EventsMatch, T
  <2>5. QED
    BY <1>4, <1>8, <2>1, <2>4
<1>11. ASSUME NEW i \in DOMAIN new, NEW j \in DOMAIN new, i < j
       PROVE  Outranks(W, m + 1, T(new[i]), T(new[j]))
  <2>1. Outranks(W, m, T(new[i]), T(new[j]))
    BY <1>7, <1>11 DEF Ordered, R
  <2>2. new[i] \in A \ {ev[p]} /\ new[j] \in A \ {ev[p]}
    BY <1>8 DEF ToSet
  <2>3. QED
    BY <1>5, <2>1, <2>2 DEF Outranks
<1>12. QED
  BY <1>9, <1>10, <1>11 DEF EventsMatch, new, T

\* A group whose properties go on top of those of an event.
LEMMA LayeredMatches ==
  ASSUME NEW W, NEW m, NEW l, NEW S, NEW ev, Adding(W, m, l, S, ev), ~W[m + 1].unsetEvent,
         NEW p \in DOMAIN ev, TitleIn(l.rules, W[m + 1].name, ev[p]) = Title(W[m + 1]),
         NEW x, x.rules = ev[p].rules, x.prio = ev[p].prio, x.props = Layered(ev[p].props, W[m + 1]),
         NEW new, DOMAIN new = DOMAIN ev, \A i \in DOMAIN ev : new[i] = IF i = p THEN x ELSE ev[i]
  PROVE  EventsMatch(new, l.rules, W, m + 1, W[m + 1].name)
<1> DEFINE n == W[m + 1].name
           t == Title(W[m + 1])
           T(e) == TitleIn(l.rules, n, e)
           A == ToSet(ev)
<1>1. /\ Sensible(W) /\ m \in Nat /\ m + 1 \in Nat /\ m + 1 <= Len(W) /\ m <= Len(W)
      /\ IsInjective(l.rules)
      /\ ev \in Seq(S) /\ EventsMatch(ev, l.rules, W, m, n)
  <2>1. /\ Sensible(W) /\ m \in Nat /\ m + 1 <= Len(W) /\ IsInjective(l.rules)
        /\ ev \in Seq(S) /\ EventsMatch(ev, l.rules, W, m, n)
    BY DEF Adding
  <2>2. Len(W) \in Nat
    BY <2>1 DEF Sensible
  <2>3. QED
    BY <2>1, <2>2
<1>2. IsInjective(ev) /\ \A e, f \in A : T(e) = T(f) => e = f
  <2>1. Apart(ev, l.rules, n)
    BY ONLY <1>1, TitlesApart, Zenon
  <2>2. QED
    BY <2>1 DEF Apart
<1>3. ev[p] \in A /\ T(ev[p]) = t /\ FromFiles(ev[p], l.rules, W, m, n) /\ T(x) = t
  BY <1>1 DEF ToSet, EventsMatch, TitleIn
<1>4. LayersTo(W, m, t) # {} /\ ev[p].props = PropsTo(W, m, t) /\ ev[p].prio = W[FirstTo(W, m, t)].prio
      /\ x.rules \in Seq(DOMAIN l.rules) /\ IsInjective(x.rules)
  BY <1>3 DEF FromFiles
<1>5. LayersTo(W, m + 1, t) = LayersTo(W, m, t) \cup {m + 1}
  BY <1>1, LayersMore
<1>6. FirstTo(W, m + 1, t) = FirstTo(W, m, t)
  <2> DEFINE f == FirstTo(W, m, t)
  <2>1. f \in LayersTo(W, m, t) /\ f \in 1..m /\ \A i \in LayersTo(W, m, t) : f <= i
    BY <1>1, <1>4, FirstFacts
  <2>2. LayersTo(W, m + 1, t) \subseteq Nat
    BY <1>1, LayerPlaces
  <2> HIDE DEF f
  <2>3. f \in LayersTo(W, m + 1, t) /\ \A i \in LayersTo(W, m + 1, t) : f <= i
    <3>1. \A i \in LayersTo(W, m + 1, t) : i \in LayersTo(W, m, t) \/ i = m + 1
      BY <1>5
    <3>2. f <= m + 1
      BY <1>1, <2>1
    <3>3. f \in LayersTo(W, m + 1, t)
      BY <1>5, <2>1
    <3>4. QED
      BY <2>1, <3>1, <3>2, <3>3, Zenon
  <2>4. Min(LayersTo(W, m + 1, t)) = f
    BY <2>2, <2>3, MinIs
  <2>5. QED
    BY <2>4 DEF FirstTo, f
<1>7. PropsTo(W, m + 1, t) = Layered(PropsTo(W, m, t), W[m + 1])
  BY <1>1, <1>4, PropsNext
<1>8. FromFiles(x, l.rules, W, m + 1, n) /\ WeightTo(W, m + 1, t) = WeightTo(W, m, t)
  BY <1>3, <1>4, <1>5, <1>6, <1>7 DEF FromFiles, WeightTo
<1>9. ASSUME NEW i \in DOMAIN ev
      PROVE  /\ FromFiles(new[i], l.rules, W, m + 1, n) /\ T(new[i]) = T(ev[i])
             /\ WeightTo(W, m + 1, T(ev[i])) = WeightTo(W, m, T(ev[i]))
  <2>1. CASE i = p
    BY <1>3, <1>8, <2>1
  <2>2. CASE i # p
    <3>1. new[i] = ev[i] /\ ev[i] \in A /\ FromFiles(ev[i], l.rules, W, m, n)
      BY <1>1, <2>2 DEF ToSet, EventsMatch
    <3>2. ev[i] # ev[p]
      BY <1>2, <2>2 DEF IsInjective
    <3>3. T(ev[i]) # t
      BY <1>2, <1>3, <3>1, <3>2
    <3>4. QED
      BY <3>1, <3>3, StaysFromFiles
  <2>3. QED
    BY <2>1, <2>2
<1> HIDE DEF T
<1>10. \A e \in ToSet(new) : FromFiles(e, l.rules, W, m + 1, n)
  BY <1>9 DEF ToSet
<1>11. ASSUME NEW i \in 1..(m + 1), W[i].name = n, LayersTo(W, m + 1, Title(W[i])) # {}
       PROVE  \E e \in ToSet(new) : T(e) = Title(W[i])
  <2>1. CASE Title(W[i]) = t
    <3>1. new[p] \in ToSet(new) /\ T(new[p]) = t
      BY <1>3, <1>9 DEF ToSet
    <3>2. QED
      BY <2>1, <3>1
  <2>2. CASE Title(W[i]) # t
    <3>1. i \in 1..m
      BY <1>1, <2>2
    <3>2. LayersTo(W, m, Title(W[i])) # {}
      BY <1>1, <1>11, <2>2, OthersStay
    <3>3. PICK e \in A : T(e) = Title(W[i])
      BY <1>1, <1>11, <3>1, <3>2 DEF EventsMatch, T
    <3>4. PICK q \in DOMAIN ev : e = ev[q]
      BY DEF ToSet
    <3>5. new[q] \in ToSet(new) /\ T(new[q]) = Title(W[i])
      BY <1>9, <3>3, <3>4 DEF ToSet
    <3>6. QED
      BY <3>5
  <2>3. QED
    BY <2>1, <2>2
<1>12. ASSUME NEW i \in DOMAIN new, NEW j \in DOMAIN new, i < j
       PROVE  Outranks(W, m + 1, T(new[i]), T(new[j]))
  <2>1. Outranks(W, m, T(ev[i]), T(ev[j]))
    BY <1>1, <1>12 DEF EventsMatch, T
  <2>2. QED
    BY <1>9, <2>1 DEF Outranks
<1>13. QED
  BY <1>10, <1>11, <1>12 DEF EventsMatch, T

\* Rules and events alone say what a list was made of.
LEMMA MadeAlike ==
  ASSUME NEW W, NEW m, NEW l, MadeOf(l, W, m), NEW k, k.rules = l.rules, k.events = l.events
  PROVE  MadeOf(k, W, m)
BY DEF MadeOf

\* One more group.
LEMMA AddGroupMakes ==
  ASSUME NEW s, NEW l, InTheMaking(l, s), AllAttached(l), NEW W, Sensible(W),
         NEW m \in Nat, m + 1 <= Len(W), MadeOf(l, W, m)
  PROVE  MadeOf(AddGroup(l, W[m + 1]), W, m + 1)
<1> DEFINE g == W[m + 1]
           merged == MergeRules(l, g.rules)
           base   == [l EXCEPT !.rules = merged.rules, !.cache = merged.cache]
           ids    == ContextFirst(base, merged.ids)
           events == l.events[g.name]
           same   == SelectInSeq(events, LAMBDA e : RulesEqual(e.rules, ids))
           fresh  == [rules |-> ids, prio |-> g.prio, props |-> g.props]
           new    == [base EXCEPT !.events[g.name] = Inserted(base, events, fresh)]
           less   == [base EXCEPT !.events[g.name] = RemoveAt(events, same)]
           layer  == [events EXCEPT ![same].props = Layered(@, g)]
           more   == [base EXCEPT !.events[g.name] = layer]
           n == g.name
           t == Title(g)
<1>1. AddGroup(l, g) =
        IF same = 0 THEN Subscribe(new, ids)
        ELSE IF g.unsetEvent THEN less ELSE Subscribe(more, events[same].rules)
  BY DEF AddGroup
<1>2. /\ g.name \in Names /\ g.rules \in Seq(RulesOf(W)) /\ g.rules \in Seq(Rules) /\ IsInjective(g.rules)
      /\ g.prio \in Int
  <2>1. W \in Seq(ToSet(W)) /\ m + 1 \in DOMAIN W
    BY DEF Sensible
  <2>2. g \in ToSet(W)
    BY <2>1 DEF ToSet
  <2>3. RulesOf(W) \subseteq Rules /\ g.rules \in Seq(RulesOf(W))
    BY <2>2 DEF Sensible
  <2>4. g.rules \in Seq(Rules)
    BY <2>3, OwnMembers, MembersIn
  <2>5. QED
    BY <2>2, <2>3, <2>4 DEF Sensible
<1>3. t = <<n, ToSet(g.rules)>>
  BY DEF Title
<1> HIDE DEF g, t
<1>4. Extends(merged, l)
  BY <1>2, MergeExtends DEF InTheMaking
<1>5. /\ ToSet(merged.rules) \subseteq RulesOf(W) /\ IsInjective(merged.rules)
      /\ Len(merged.ids) = Len(g.rules)
      /\ \A q \in 1..Len(g.rules) : merged.rules[merged.ids[q]] = g.rules[q]
  BY <1>2, MergeExact DEF InTheMaking, MadeOf
<1> HIDE DEF merged
<1>6. /\ base.id = l.id /\ base.rules = merged.rules /\ base.events = l.events
      /\ InTheMaking(base, s) /\ AllAttached(base)
  BY <1>4, BaseFacts
<1> HIDE DEF base
<1>7. /\ l.rules \in Seq(Rules) /\ base.rules \in Seq(Rules) /\ Len(base.rules) \in Nat
      /\ DOMAIN base.rules = 1..Len(base.rules) /\ DOMAIN l.rules \subseteq DOMAIN base.rules
      /\ \A i \in DOMAIN l.rules : base.rules[i] = l.rules[i]
      /\ merged.ids \in Seq(DOMAIN base.rules)
  <2>1. /\ l.rules \in Seq(Rules) /\ base.rules \in Seq(Rules) /\ Len(l.rules) <= Len(base.rules)
        /\ \A i \in 1..Len(l.rules) : base.rules[i] = l.rules[i]
        /\ merged.ids \in Seq(1..Len(base.rules))
    BY <1>4, <1>6 DEF Extends, InTheMaking, IsList
  <2>2. /\ DOMAIN l.rules = 1..Len(l.rules) /\ DOMAIN base.rules = 1..Len(base.rules)
        /\ Len(l.rules) \in Nat /\ Len(base.rules) \in Nat
    BY <2>1
  <2>3. QED
    BY <2>1, <2>2, SMTT(30)
\* The places of the rules of the group.
<1>8. /\ IsInjective(merged.ids)
      /\ {base.rules[i] : i \in ToSet(merged.ids)} = ToSet(g.rules)
  <2>1. DOMAIN merged.ids = 1..Len(g.rules) /\ DOMAIN g.rules = 1..Len(g.rules)
    BY <1>2, <1>5, <1>7
  <2>2. \A q \in 1..Len(g.rules) : base.rules[merged.ids[q]] = g.rules[q]
    BY <1>5, <1>6
  <2>3. \A p, q \in DOMAIN merged.ids : merged.ids[p] = merged.ids[q] => p = q
    BY <1>2, <2>1, <2>2 DEF IsInjective
  <2>4. IsInjective(merged.ids)
    BY <2>3, Zenon DEF IsInjective
  <2>5. \A q \in 1..Len(g.rules) : merged.ids[q] \in ToSet(merged.ids) /\ g.rules[q] \in ToSet(g.rules)
    BY <2>1 DEF ToSet
  <2>6. /\ \A i \in ToSet(merged.ids) : \E q \in 1..Len(g.rules) : i = merged.ids[q]
        /\ \A r \in ToSet(g.rules) : \E q \in 1..Len(g.rules) : r = g.rules[q]
    BY <2>1 DEF ToSet
  <2>7. ASSUME NEW i \in ToSet(merged.ids)
        PROVE  base.rules[i] \in ToSet(g.rules)
    <3>1. PICK q \in 1..Len(g.rules) : i = merged.ids[q]
      BY <2>6
    <3>2. base.rules[i] = g.rules[q]
      BY <2>2, <3>1
    <3>3. QED
      BY <2>5, <3>2
  <2>8. ASSUME NEW r \in ToSet(g.rules)
        PROVE  \E i \in ToSet(merged.ids) : r = base.rules[i]
    <3>1. PICK q \in 1..Len(g.rules) : r = g.rules[q]
      BY <2>6
    <3>2. base.rules[merged.ids[q]] = r /\ merged.ids[q] \in ToSet(merged.ids)
      BY <2>2, <2>5, <3>1
    <3>3. QED
      BY <3>2
  <2>9. QED
    BY <2>4, <2>7, <2>8
<1>9. /\ ids \in Seq(DOMAIN base.rules) /\ IsInjective(ids) /\ ToSet(ids) = ToSet(merged.ids)
  BY <1>7, <1>8, SortedExact
<1> HIDE DEF ids
<1>10. {base.rules[i] : i \in ToSet(ids)} = ToSet(g.rules)
  BY <1>8, <1>9
<1>11. \A k \in Names : EventsMatch(l.events[k], base.rules, W, m, k)
  BY <1>7, LongerRules DEF MadeOf
<1>12. IsInjective(base.rules) /\ ToSet(base.rules) \subseteq RulesOf(W)
  BY <1>5, <1>6
<1>13. /\ events = base.events[n] /\ events \in Seq(ToSet(events))
       /\ \A e \in ToSet(events) : IsEvent(base, e)
       /\ EventsMatch(events, base.rules, W, m, n)
  BY <1>2, <1>6, <1>11 DEF InTheMaking, HasEvents
<1>14. Adding(W, m, base, ToSet(events), events)
  BY <1>12, <1>13 DEF Adding, g
\* The events that are the group's are those with its title.
<1>15. \A e \in ToSet(events) : RulesEqual(e.rules, ids) <=> TitleIn(base.rules, n, e) = t
  <2>1. SUFFICES ASSUME NEW e \in ToSet(events)
                 PROVE  RulesEqual(e.rules, ids) <=> TitleIn(base.rules, n, e) = t
    OBVIOUS
  <2>2. e.rules \in Seq(DOMAIN base.rules) /\ IsInjective(e.rules)
    BY <1>13 DEF EventsMatch, FromFiles
  <2>3. RulesEqual(e.rules, ids) <=>
          {base.rules[i] : i \in ToSet(e.rules)} = {base.rules[i] : i \in ToSet(ids)}
    BY <1>9, <1>12, <2>2, RulesEqualIs
  <2>4. TitleIn(base.rules, n, e) = <<n, {base.rules[i] : i \in ToSet(e.rules)}>>
    BY DEF TitleIn
  <2>5. PICK A, B : A = {base.rules[i] : i \in ToSet(e.rules)} /\ B = ToSet(g.rules)
    OBVIOUS
  <2>6. (RulesEqual(e.rules, ids) <=> A = B) /\ TitleIn(base.rules, n, e) = <<n, A>> /\ t = <<n, B>>
    BY <1>3, <1>10, <2>3, <2>4, <2>5
  <2>7. QED
    BY ONLY <2>6
<1> DEFINE I == {i \in 1..Len(events) : RulesEqual(events[i].rules, ids)}
<1>16. same = IF I # {} THEN Min(I) ELSE 0
  BY DEF SelectInSeq
<1>17. Len(events) \in Nat /\ DOMAIN events = 1..Len(events) /\ I \subseteq 1..Len(events)
  BY <1>13
<1> HIDE DEF same, events
<1>18. same \in {0} \cup I
  <2> HIDE DEF I
  <2>1. QED
    BY <1>16, <1>17, FirstPlace
<1>19. same = 0 => I = {}
  <2> HIDE DEF I
  <2>1. \A i \in I : i \in Nat /\ i # 0
    BY <1>17
  <2>2. I # {} => Min(I) \in I
    BY <2>1, MinFacts
  <2>3. QED
    BY <1>16, <2>1, <2>2
\* In each case the events of other names stay.
<1>20. ASSUME NEW x, x.rules = base.rules, NEW ev, x.events[n] = ev,
              \A k \in Names \ {n} : x.events[k] = base.events[k],
              EventsMatch(ev, base.rules, W, m + 1, n)
       PROVE  MadeOf(x, W, m + 1)
  <2>1. ASSUME NEW k \in Names
        PROVE  EventsMatch(x.events[k], base.rules, W, m + 1, k)
    <3>1. CASE k = n
      BY <1>20, <3>1
    <3>2. CASE k # n
      <4>1. x.events[k] = l.events[k] /\ EventsMatch(l.events[k], base.rules, W, m, k) /\ W[m + 1].name # k
        BY <1>6, <1>11, <1>20, <3>2 DEF g
      <4>2. PICK ev2 : ev2 = x.events[k] /\ EventsMatch(ev2, base.rules, W, m, k)
        BY <4>1
      <4>3. EventsMatch(ev2, base.rules, W, m + 1, k)
        BY <4>1, <4>2, OtherNames
      <4>4. QED
        BY <4>2, <4>3
    <3>3. QED
      BY <3>1, <3>2
  <2>2. QED
    BY <1>12, <1>20, <2>1 DEF MadeOf
\* A subscription says nothing of them.
<1>21. ASSUME NEW x, InTheMaking(x, s), MadeOf(x, W, m + 1), NEW q \in Seq(1..Len(x.rules))
       PROVE  MadeOf(Subscribe(x, q), W, m + 1)
  <2>1. Subscribe(x, q).rules = x.rules /\ Subscribe(x, q).events = x.events
    BY <1>21, SubscribeFacts DEF Subscribed
  <2>2. QED
    BY <1>21, <2>1, MadeAlike
<1>22. CASE same = 0
  <2> DEFINE ev == Inserted(base, events, fresh)
  <2>1. ev \in Seq(ToSet(ev)) /\ ToSet(ev) \subseteq ToSet(events) \cup {fresh}
    BY <1>13, InsertedFacts
  <2>2. IsEvent(base, fresh) /\ fresh.rules = ids /\ fresh.prio = g.prio /\ fresh.props = g.props
    BY <1>7, <1>9 DEF IsEvent
  <2>3. TitleIn(base.rules, n, fresh) = t
    BY <1>3, <1>10, <2>2 DEF TitleIn
  <2>4. \A e \in ToSet(events) : TitleIn(base.rules, n, e) # t
    <3>1. SUFFICES ASSUME NEW e \in ToSet(events), TitleIn(base.rules, n, e) = t
                   PROVE  FALSE
      OBVIOUS
    <3>2. PICK i \in DOMAIN events : e = events[i]
      BY DEF ToSet
    <3>3. i \in I
      BY <1>15, <1>17, <3>1, <3>2
    <3>4. QED
      BY <1>19, <1>22, <3>3
  <2> HIDE DEF fresh
  <2>5. EventsMatch(ev, base.rules, W, m + 1, n)
    BY <1>9, <1>14, <2>2, <2>3, <2>4, InsertedMatches DEF g, t
  <2> HIDE DEF ev
  <2>6. \A e \in ToSet(ev) : IsEvent(base, e)
    BY <1>13, <2>1, <2>2
  <2>7. new = WithEvents(base, n, ev)
    BY DEF ev, WithEvents
  <2> HIDE DEF new
  <2>8. /\ InTheMaking(new, s) /\ new.rules = base.rules /\ new.events[n] = ev
        /\ \A k \in Names \ {n} : new.events[k] = base.events[k]
    BY <1>2, <1>6, <2>1, <2>6, <2>7, EventsChange
  <2>9. MadeOf(new, W, m + 1)
    BY <1>20, <2>5, <2>8
  <2>10. ids \in Seq(1..Len(new.rules))
    BY <1>7, <1>9, <2>8
  <2>11. MadeOf(Subscribe(new, ids), W, m + 1)
    BY <1>21, <2>8, <2>9, <2>10
  <2>12. QED
    BY <1>1, <1>22, <2>11 DEF g
<1>23. ASSUME same # 0
       PROVE  same \in DOMAIN events /\ TitleIn(base.rules, n, events[same]) = t
              /\ events[same] \in ToSet(events)
  <2>1. same \in I
    BY <1>18, <1>23
  <2>2. same \in DOMAIN events /\ events[same] \in ToSet(events)
    BY <1>17, <2>1 DEF ToSet
  <2>3. QED
    BY <1>15, <2>1, <2>2
<1>24. CASE same # 0 /\ g.unsetEvent
  <2> DEFINE ev == RemoveAt(events, same)
  <2>1. ev \in Seq(ToSet(ev)) /\ ToSet(ev) \subseteq ToSet(events)
    BY <1>13, <1>17, <1>23, <1>24, RemovedFacts
  <2>2. EventsMatch(ev, base.rules, W, m + 1, n)
    BY <1>14, <1>23, <1>24, RemovedMatches DEF g, t
  <2>3. less = WithEvents(base, n, ev)
    BY DEF WithEvents
  <2> HIDE DEF ev, less
  <2>4. \A e \in ToSet(ev) : IsEvent(base, e)
    BY <1>13, <2>1
  <2>5. /\ InTheMaking(less, s) /\ less.rules = base.rules /\ less.events[n] = ev
        /\ \A k \in Names \ {n} : less.events[k] = base.events[k]
    BY <1>2, <1>6, <2>1, <2>3, <2>4, EventsChange
  <2>6. MadeOf(less, W, m + 1)
    BY <1>20, <2>2, <2>5
  <2>7. QED
    BY <1>1, <1>24, <2>6 DEF g
<1>25. CASE same # 0 /\ ~g.unsetEvent
  <2> DEFINE old == events[same]
             e1  == [rules |-> old.rules, prio |-> old.prio, props |-> Layered(old.props, g)]
             ev  == [events EXCEPT ![same] = e1]
  <2>1. same \in 1..Len(events) /\ old \in ToSet(events) /\ IsEvent(base, old)
    BY <1>13, <1>17, <1>23, <1>25
  <2>2. old = [rules |-> old.rules, prio |-> old.prio, props |-> old.props]
        /\ old.rules \in Seq(1..Len(base.rules))
    BY <2>1 DEF IsEvent
  <2>3. more = WithEvents(base, n, ev)
    <3>1. [old EXCEPT !.props = Layered(@, g)] = e1
      BY ONLY <2>2
    <3>2. layer = [events EXCEPT ![same] = [old EXCEPT !.props = Layered(@, g)]]
      OBVIOUS
    <3>3. QED
      BY <3>1, <3>2 DEF WithEvents
  <2> HIDE DEF more
  <2>4. /\ IsEvent(base, e1) /\ e1.rules = old.rules /\ e1.prio = old.prio
        /\ e1.props = Layered(old.props, g)
    BY <2>2 DEF IsEvent
  <2> HIDE DEF e1
  <2>5. /\ Len(ev) = Len(events) /\ DOMAIN ev = DOMAIN events
        /\ \A i \in DOMAIN events : ev[i] = IF i = same THEN e1 ELSE events[i]
    BY <1>13, <1>17, <2>1
  <2>15. ev = [i \in 1..Len(events) |-> ev[i]]
    BY <1>13, <1>17, <2>1
  <2> HIDE DEF ev
  <2>6. ToSet(ev) \subseteq ToSet(events) \cup {e1} /\ ev \in Seq(ToSet(ev))
    <3>1. \A i \in 1..Len(events) : ev[i] \in ToSet(ev)
      BY <1>17, <2>5 DEF ToSet
    <3>2. ev \in Seq(ToSet(ev))
      BY ONLY <1>17, <2>15, <3>1
    <3>3. \A i \in DOMAIN ev : ev[i] \in ToSet(events) \cup {e1}
      BY <2>5 DEF ToSet
    <3>4. ToSet(ev) \subseteq ToSet(events) \cup {e1}
      BY <3>3 DEF ToSet
    <3>5. QED
      BY <3>2, <3>4
  <2>7. EventsMatch(ev, base.rules, W, m + 1, n)
    <3>1. /\ same \in DOMAIN events /\ TitleIn(base.rules, W[m + 1].name, events[same]) = Title(W[m + 1])
          /\ ~W[m + 1].unsetEvent
          /\ e1.rules = events[same].rules /\ e1.prio = events[same].prio
          /\ e1.props = Layered(events[same].props, W[m + 1])
      BY <1>23, <1>25, <2>4 DEF g, t
    <3>2. EventsMatch(ev, base.rules, W, m + 1, W[m + 1].name)
      BY ONLY <1>14, <2>5, <3>1, LayeredMatches, SMTT(60)
    <3>3. QED
      BY <3>2 DEF g
  <2>8. \A e \in ToSet(ev) : IsEvent(base, e)
    BY <1>13, <2>4, <2>6
  <2>9. /\ InTheMaking(more, s) /\ more.rules = base.rules /\ more.events[n] = ev
        /\ \A k \in Names \ {n} : more.events[k] = base.events[k]
    BY <1>2, <1>6, <2>3, <2>6, <2>8, EventsChange
  <2>10. MadeOf(more, W, m + 1)
    BY <1>20, <2>7, <2>9
  <2>11. old.rules \in Seq(1..Len(more.rules))
    BY <2>2, <2>9
  <2>12. MadeOf(Subscribe(more, old.rules), W, m + 1)
    BY <1>21, <2>9, <2>10, <2>11
  <2>13. QED
    BY <1>1, <1>25, <2>12 DEF g
<1>26. QED
  BY <1>22, <1>24, <1>25

-----------------------------------------------------------------------------
(* Whole configurations, and the invariant.                                *)

LEMMA FilesSensible ==
  ASSUME FilesMakeSense, NEW c \in Boots \cup Files
  PROVE  Sensible(c.sys \o c.user)
<1> DEFINE W == c.sys \o c.user
           a == c.sys
           b == c.user
           S == ToSet(a) \cup ToSet(b)
<1>1. a \in Seq(ToSet(a)) /\ b \in Seq(ToSet(b))
  BY FilesAssumption
<1>2. a \in Seq(S) /\ b \in Seq(S)
  <2>1. \A s : s \in Seq(ToSet(s)) /\ ToSet(s) \subseteq S => s \in Seq(S)
    <3> HIDE DEF S
    <3>1. QED
      BY MembersIn
  <2>2. QED
    BY <1>1, <2>1
<1>3. W \in Seq(S) /\ ToSet(W) = S
  <2>1. \A s : ToSet(s) = Range(s)
    BY DEF ToSet, Range
  <2>2. a \o b \in Seq(S) /\ Range(a \o b) = Range(a) \cup Range(b)
    <3> HIDE DEF S, a, b
    <3>1. QED
      BY <1>2, Joined
  <2>3. QED
    BY <2>1, <2>2
<1>4. /\ \A g \in ToSet(W) : IsInjective(g.rules)
      /\ \A g, h \in ToSet(W) : \A x \in ToSet(g.rules), y \in ToSet(h.rules) :
           RuleEqual(x, y) => x = y
      /\ \A i \in DOMAIN W : W[i].unsetEvent =>
           \E j \in 1..(i - 1) :
             /\ Title(W[j]) = Title(W[i])
             /\ \A k \in j..(i - 1) : Title(W[k]) = Title(W[i]) => ~W[k].unsetEvent
  BY DEF FilesMakeSense
<1>5. ASSUME NEW g \in S
      PROVE  /\ g.name \in Names /\ g.rules \in Seq(ToSet(g.rules)) /\ g.prio \in Int
             /\ g.props = [k \in DOMAIN g.props |-> g.props[k]]
             /\ ToSet(g.rules) \subseteq Rules
  <2>1. /\ g.name \in Names /\ g.rules \in Seq(ToSet(g.rules)) /\ g.prio \in Int
        /\ g.props = [k \in DOMAIN g.props |-> g.props[k]]
    BY FilesAssumption
  <2>2. g \in UNION {ToSet(d.sys) \cup ToSet(d.user) : d \in Boots \cup Files}
    OBVIOUS
  <2>3. ToSet(g.rules) \subseteq Rules
    BY <2>2 DEF Rules
  <2>4. QED
    BY <2>1, <2>3
<1> HIDE DEF W, S
<1>6. \A g \in ToSet(W) : g.rules \in Seq(RulesOf(W))
  <2>1. \A g \in ToSet(W) : ToSet(g.rules) \subseteq RulesOf(W)
    BY DEF RulesOf
  <2>2. QED
    BY <1>3, <1>5, <2>1, MembersIn
<1>7. RulesOf(W) \subseteq Rules
  BY <1>3, <1>5 DEF RulesOf
<1>8. \A x, y \in RulesOf(W) : RuleEqual(x, y) => x = y
  BY <1>4 DEF RulesOf
<1>9. Sensible(W)
  BY <1>3, <1>4, <1>5, <1>6, <1>7, <1>8 DEF Sensible
<1>10. QED
  BY <1>9 DEF W

\* The groups of a file, from place b of W on.
LEMMA ParseMakes ==
  ASSUME NEW s, NEW l, InTheMaking(l, s), AllAttached(l), NEW groups, IsFile(groups),
         NEW W, Sensible(W), NEW b \in Nat, b + Len(groups) <= Len(W),
         \A i \in 1..Len(groups) : W[b + i] = groups[i], MadeOf(l, W, b)
  PROVE  MadeOf(ParseEvents(l, groups), W, b + Len(groups))
<1> DEFINE g == CHOOSE h : Parsed(l, groups, Len(groups), h)
           Made(m, x) == InTheMaking(x, s) /\ AllAttached(x) /\ MadeOf(x, W, b + m)
           n == Len(groups)
<1>0. groups \in Seq(ToSet(groups)) /\ n \in Nat
  BY DEF IsFile
<1>1. Parsed(l, groups, Len(groups), g)
  BY <1>0, ParsedExists, Zenon
<1>2. ParseEvents(l, groups) = g[n]
  BY DEF ParseEvents, Through, Parsed
<1> HIDE DEF g
<1> DEFINE T == {m \in Nat : m <= n => Made(m, g[m])}
<1>3. \A m \in 0..n : g[m] = IF m = 0 THEN l ELSE AddGroup(g[m - 1], groups[m])
  BY <1>1 DEF Parsed
<1>4. Made(0, g[0])
  <2>1. g[0] = l /\ b + 0 = b
    BY <1>0, <1>3
  <2>2. QED
    BY <2>1
<1>5. ASSUME NEW m \in Nat, m + 1 <= n, Made(m, g[m])
      PROVE  Made(m + 1, g[m + 1])
  <2>1. m + 1 \in 0..n /\ m + 1 # 0 /\ (m + 1) - 1 = m /\ m + 1 \in 1..Len(groups)
    BY <1>0, <1>5
  <2>2. g[m + 1] = AddGroup(g[m], groups[m + 1])
    BY <1>3, <2>1
  <2>3. groups[m + 1] \in ToSet(groups)
    BY <1>0, <2>1 DEF ToSet
  <2>4. groups[m + 1].name \in Names /\ groups[m + 1].rules \in Seq(Rules)
    BY <2>3 DEF IsFile
  <2>5. Len(W) \in Nat
    BY DEF Sensible
  <2>6. PICK c \in Nat : c = b + m /\ c + 1 = b + (m + 1) /\ c + 1 <= Len(W)
    BY <1>0, <1>5, <2>5
  <2>7. W[c + 1] = groups[m + 1]
    BY <2>1, <2>6
  <2>8. PICK x : x = g[m] /\ InTheMaking(x, s) /\ AllAttached(x) /\ MadeOf(x, W, c)
    BY <1>5, <2>6
  <2> HIDE DEF n
  <2>9. MadeOf(AddGroup(x, W[c + 1]), W, c + 1)
    BY <2>6, <2>8, AddGroupMakes
  <2>10. PICK y : y = groups[m + 1] /\ y.name \in Names /\ y.rules \in Seq(Rules)
    BY <2>4
  <2>11. InTheMaking(AddGroup(x, y), s) /\ AllAttached(AddGroup(x, y))
    <3>1. /\ InTheMaking(AddGroup(x, y), s) /\ AllAttached(AddGroup(x, y))
          /\ AddGroup(x, y).id = x.id
          /\ ~y.unsetEvent => AddGroup(x, y).events[y.name] # <<>>
      BY ONLY <2>8, <2>10, AddGroupFacts
    <3>2. QED
      BY <3>1
  <2>12. QED
    BY <2>2, <2>6, <2>7, <2>8, <2>9, <2>10, <2>11
<1>6. Nat \subseteq T
  <2>1. 0 \in T
    BY <1>4
  <2>2. ASSUME NEW m \in Nat, m \in T
        PROVE  m + 1 \in T
    <3>1. SUFFICES ASSUME m + 1 <= n
                   PROVE  Made(m + 1, g[m + 1])
      OBVIOUS
    <3>2. Made(m, g[m])
      <4>1. m <= n
        BY <1>0, <3>1
      <4> HIDE DEF Made
      <4>2. QED
        BY <2>2, <4>1
    <3>3. QED
      BY <1>5, <3>1, <3>2
  <2> HIDE DEF T
  <2>3. QED
    BY <2>1, <2>2, SetInduction
<1>7. n \in T
  BY <1>0, <1>6
<1>8. Made(n, g[n])
  <2> HIDE DEF Made
  <2>1. QED
    BY <1>0, <1>7
<1>9. QED
  BY <1>2, <1>8

LEMMA EmptyMakes ==
  ASSUME NEW W, NEW id, NEW s
  PROVE  MadeOf(EmptyList(id, s), W, 0)
<1> DEFINE l == EmptyList(id, s)
<1>1. l.rules = <<>> /\ \A n \in Names : l.events[n] = <<>>
  BY DEF EmptyList
<1> HIDE DEF l
<1>2. ToSet(<<>>) = {} /\ IsInjective(<<>>) /\ DOMAIN <<>> = {} /\ 1..0 = {}
  BY DEF ToSet, IsInjective
<1>3. MadeOf(l, W, 0)
  BY <1>1, <1>2 DEF MadeOf, EventsMatch
<1>4. QED
  BY <1>3 DEF l

\* A list of a configuration.
LEMMA ConfigurationMakes ==
  ASSUME FilesMakeSense, NEW c \in Boots \cup Files, NEW s, NEW l, InTheMaking(l, s),
         AllAttached(l), MadeOf(l, c.sys \o c.user, 0)
  PROVE  MadeOf(ParseEvents(ParseEvents(l, c.sys), c.user), c.sys \o c.user, Len(c.sys \o c.user))
<1> DEFINE a == c.sys
           b == c.user
           W == a \o b
           x == ParseEvents(l, a)
<1>1. IsFile(a) /\ IsFile(b) /\ Sensible(W)
  BY ConfigurationFiles, FilesSensible
<1>2. a \in Seq(ToSet(a)) /\ b \in Seq(ToSet(b))
  BY <1>1 DEF IsFile
<1>3. /\ Len(a) \in Nat /\ Len(b) \in Nat /\ Len(W) = Len(a) + Len(b)
      /\ \A i \in 1..Len(a) : W[i] = a[i]
      /\ \A i \in 1..Len(b) : W[Len(a) + i] = b[i]
  <2> HIDE DEF a, b
  <2>1. QED
    BY <1>2
<1> HIDE DEF a, b, W
<1>4. MadeOf(l, W, 0)
  BY DEF a, b, W
<1>5. MadeOf(x, W, 0 + Len(a))
  <2>1. /\ 0 \in Nat /\ 0 + Len(a) <= Len(W) /\ \A i \in 1..Len(a) : W[0 + i] = a[i]
    BY <1>3
  <2>2. QED
    BY ONLY InTheMaking(l, s), AllAttached(l), <1>1, <1>4, <2>1, ParseMakes
<1>6. InTheMaking(x, s) /\ AllAttached(x)
  BY <1>1, ParseFacts
<1> HIDE DEF x
<1>7. MadeOf(x, W, Len(a))
  BY <1>3, <1>5
<1>8. MadeOf(ParseEvents(x, b), W, Len(a) + Len(b))
  BY <1>1, <1>3, <1>6, <1>7, ParseMakes, SMTT(30)
<1>9. QED
  BY <1>3, <1>8 DEF a, b, W, x

\* The list in use is what the files make.
FilesInv == config \in Boots \cup Files /\ MadeOf(list, Written, Len(Written))

LEMMA BodyMakes ==
  ASSUME NEW l, NEW W, NEW m, MadeOf(l, W, m)
  PROVE  MadeOf(Body(l), W, m)
<1>1. Body(l).rules = l.rules /\ Body(l).events = l.events
  BY DEF Body
<1>2. QED
  BY <1>1, MadeAlike

LEMMA InitMakes == FilesMakeSense /\ Init => FilesInv
<1> SUFFICES ASSUME FilesMakeSense, Init
             PROVE  FilesInv
  OBVIOUS
<1> DEFINE nobody == [k \in Keys |-> <<>>]
           l0 == EmptyList(1, nobody)
           l2 == ParseEvents(ParseEvents(l0, config.sys), config.user)
<1>1. config \in Boots /\ list = Body(l2)
  BY DEF Init
<1>2. InTheMaking(l0, nobody) /\ AllAttached(l0)
  <2>1. \A k \in Keys : nobody[k] \in Seq(Subscribers)
    OBVIOUS
  <2>2. nobody = [k \in Keys |-> nobody[k]]
    OBVIOUS
  <2> HIDE DEF nobody
  <2>3. QED
    BY <2>1, <2>2, EmptyListFacts
<1>3. MadeOf(l0, Written, 0)
  BY EmptyMakes
<1> HIDE DEF l0
<1>4. MadeOf(l2, Written, Len(Written))
  BY <1>1, <1>2, <1>3, ConfigurationMakes DEF Written
<1> HIDE DEF l2
<1>5. MadeOf(list, Written, Len(Written))
  BY <1>1, <1>4, BodyMakes
<1>6. QED
  BY <1>1, <1>5 DEF FilesInv

LEMMA ReloadMakes ==
  ASSUME FilesMakeSense, RulesInv, FilesInv, NEW c \in Files, Reload(c)
  PROVE  FilesInv'
<1> DEFINE l0 == EmptyList(made + 1, subs)
           l2 == ParseEvents(ParseEvents(l0, c.sys), c.user)
           W == c.sys \o c.user
<1>1. made <= MaxReloads /\ list' = Body(l2) /\ config' = c
  BY DEF Reload
<1>2. made + 1 \in Nat
  BY <1>1, ReloadAssumption DEF RulesInv
<1>3. InTheMaking(l0, subs) /\ AllAttached(l0)
  <2>1. subs = [k \in Keys |-> subs[k]] /\ \A k \in Keys : subs[k] \in Seq(Subscribers)
    BY DEF RulesInv, Registered
  <2>2. QED
    BY <1>2, <2>1, EmptyListFacts
<1>4. MadeOf(l0, W, 0)
  BY EmptyMakes
<1> HIDE DEF l0
<1>5. MadeOf(l2, W, Len(W))
  BY <1>3, <1>4, ConfigurationMakes
<1> HIDE DEF l2
<1>6. MadeOf(list', W, Len(W))
  BY <1>1, <1>5, BodyMakes
<1>7. Written' = W
  BY <1>1 DEF Written
<1>8. QED
  BY <1>1, <1>6, <1>7 DEF FilesInv

LEMMA FilesNext ==
  ASSUME FilesMakeSense, RulesInv, FilesInv, [Next]_vars
  PROVE  FilesInv'
<1>1. ASSUME config' = config, list'.rules = list.rules, list'.events = list.events
      PROVE  FilesInv'
  <2>1. Written' = Written
    BY <1>1 DEF Written
  <2>2. MadeOf(list', Written, Len(Written))
    BY <1>1, MadeAlike DEF FilesInv
  <2>3. QED
    BY <1>1, <2>1, <2>2 DEF FilesInv
<1>2. list = Body(list)
  BY DEF RulesInv
<1>3. ASSUME NEW c, list' = [list EXCEPT !.cache = c]
      PROVE  list'.rules = list.rules /\ list'.events = list.events
  BY ONLY <1>2, <1>3 DEF Body
<1>4. CASE \E k \in Keys, v \in Values : SetValue(k, v)
  <2>1. PICK k \in Keys, v \in Values : SetValue(k, v)
    BY <1>4
  <2> DEFINE c == [i \in DOMAIN list.cache |->
                     IF Contains(subs[k], [list |-> list.id, rule |-> i])
                     THEN Truth(Matches(list.rules[i], v)) ELSE list.cache[i]]
  <2>2. list' = [list EXCEPT !.cache = c] /\ config' = config
    BY <2>1 DEF SetValue
  <2> HIDE DEF c
  <2>3. QED
    BY <1>1, <1>3, <2>2
<1>5. CASE \E r \in Asked : Evaluate(r)
  <2>1. PICK r \in Asked : Evaluate(r)
    BY <1>5
  <2> DEFINE c == [i \in DOMAIN list.cache |->
                     IF i \in LookedAt(r) /\ OnContext(list, i)
                     THEN Truth(RuleHolds(i, r.props)) ELSE list.cache[i]]
  <2>2. list' = [list EXCEPT !.cache = c] /\ config' = config
    BY <2>1 DEF Evaluate
  <2> HIDE DEF c
  <2>3. QED
    BY <1>1, <1>3, <2>2
<1>6. CASE \E c \in Files : Reload(c)
  BY <1>6, ReloadMakes
<1>7. CASE \E c \in Files : ReloadFails(c)
  <2>1. list' = list /\ config' = config
    BY <1>7 DEF ReloadFails
  <2>2. QED
    BY <1>1, <2>1
<1>8. CASE UNCHANGED vars
  BY <1>1, <1>8 DEF vars
<1>9. QED
  BY <1>4, <1>5, <1>6, <1>7, <1>8 DEF Next

-----------------------------------------------------------------------------
(* From the list in use to what is promised.                               *)

\* What the promise says of the files, in terms of all groups.
LEMMA PromiseIs ==
  ASSUME Written \in Seq(ToSet(Written)), NEW t
  PROVE  /\ Layers(t) = LayersTo(Written, Len(Written), t)
         /\ PropsOf(t) = PropsTo(Written, Len(Written), t)
         /\ Weight(t) = WeightTo(Written, Len(Written), t)
<1> DEFINE W == Written
           m == Len(W)
<1>1. DOMAIN W = 1..m
  OBVIOUS
<1>2. Layers(t) = LayersTo(W, m, t)
  BY <1>1 DEF Layers, LayersTo
<1> HIDE DEF W, m
<1>3. \A k : Max({i \in Layers(t) : k \in Written[i].unset \cup DOMAIN Written[i].props}) = TopTo(W, m, t, k)
  BY <1>2 DEF TopTo, Tells, W
<1> DEFINE keys == UNION {DOMAIN Written[i].props : i \in Layers(t)}
           top(k) == Max({i \in Layers(t) : k \in Written[i].unset \cup DOMAIN Written[i].props})
<1>4. PropsOf(t) = [k \in {k \in keys : k \in DOMAIN Written[top(k)].props} |->
                      Written[top(k)].props[k]]
  BY DEF PropsOf
<1>5. {k \in keys : k \in DOMAIN Written[top(k)].props} = KeysTo(W, m, t)
  BY <1>2, <1>3 DEF KeysTo, W
<1>6. PropsOf(t) = PropsTo(W, m, t)
  BY <1>3, <1>4, <1>5 DEF PropsTo, W
<1>7. Min(Layers(t)) = FirstTo(W, m, t)
  BY <1>2 DEF FirstTo
<1>8. Weight(t) = WeightTo(W, m, t)
  BY <1>7 DEF Weight, WeightTo, Of, W
<1>9. QED
  BY <1>2, <1>6, <1>8 DEF W, m

\* A rule of the list holds when it holds of the context and the request.
LEMMA HoldsIs ==
  ASSUME RulesInv, NEW r, NEW i \in DOMAIN list.rules
  PROVE  RuleHolds(i, r.props) <=> HoldsNow(list.rules[i], r)
<1> DEFINE rule == list.rules[i]
           asked == IF rule.key \in DOMAIN r.props THEN r.props[rule.key] ELSE NoValue
<1>1. CASE OnContext(list, i)
  <2>1. list.cache[i] \in {"true", "false"} =>
          list.cache[i] = Truth(Matches(rule, values[rule.key]))
    BY DEF RulesInv, Current
  <2>2. list.cache[i] \in {"true", "false"} =>
          (list.cache[i] = "true" <=> Matches(rule, values[rule.key]))
    BY <2>1 DEF Truth
  <2>3. RuleHolds(i, r.props) <=>
          IF list.cache[i] \in {"true", "false"} THEN list.cache[i] = "true"
          ELSE Matches(rule, values[rule.key])
    BY <1>1 DEF RuleHolds
  <2>4. HoldsNow(rule, r) <=> Matches(rule, values[rule.key])
    BY <1>1 DEF HoldsNow, OnContext
  <2>5. QED
    BY <2>2, <2>3, <2>4
<1>2. CASE ~OnContext(list, i)
  <2>1. RuleHolds(i, r.props) <=> Matches(rule, asked)
    BY <1>2 DEF RuleHolds
  <2>2. HoldsNow(rule, r) <=> Matches(rule, asked)
    BY <1>2 DEF HoldsNow, OnContext
  <2>3. QED
    BY <2>1, <2>2
<1>3. QED
  BY <1>1, <1>2

\* No two titles outrank each other.
LEMMA OneOutranks ==
  ASSUME NEW W, Sensible(W), NEW m \in Nat, m <= Len(W), NEW l, IsInjective(l.rules), NEW n,
         NEW e, FromFiles(e, l.rules, W, m, n), NEW f, FromFiles(f, l.rules, W, m, n),
         Outranks(W, m, TitleIn(l.rules, n, e), TitleIn(l.rules, n, f))
  PROVE  ~Outranks(W, m, TitleIn(l.rules, n, f), TitleIn(l.rules, n, e))
<1> DEFINE T(x) == TitleIn(l.rules, n, x)
           N(x) == CountOf(l, x, "request")
           C(x) == CountOf(l, x, "context")
           P(x) == FirstTo(W, m, T(x))
<1>1. ASSUME NEW x \in {e, f}, NEW y \in {e, f}
      PROVE  /\ x.prio \in Int /\ y.prio \in Int /\ N(x) \in Nat /\ N(y) \in Nat
             /\ C(x) \in Nat /\ C(y) \in Nat /\ P(x) \in 1..m /\ P(y) \in 1..m
             /\ Outranks(W, m, T(x), T(y)) <=>
                  \/ x.prio > y.prio
                  \/ x.prio = y.prio /\ N(x) > N(y)
                  \/ x.prio = y.prio /\ N(x) = N(y) /\ C(x) > C(y)
                  \/ x.prio = y.prio /\ N(x) = N(y) /\ C(x) = C(y) /\ P(x) < P(y)
  <2>1. FromFiles(x, l.rules, W, m, n) /\ FromFiles(y, l.rules, W, m, n)
    BY <1>1
  <2>2. QED
    BY ONLY <2>1, Sensible(W), m \in Nat, m <= Len(W), IsInjective(l.rules), OutranksIs, Zenon
<1>2. Outranks(W, m, T(e), T(f))
  OBVIOUS
<1> HIDE DEF T, N, C, P
<1>3. ~Outranks(W, m, T(f), T(e))
  BY <1>1, <1>2
<1>4. QED
  BY <1>3 DEF T

\* n_core_evaluate_request finds the event the files promise for the present
\* context, with the properties that they layer, for any files that make sense.
THEOREM EvaluationsAreExact ==
  ASSUME \A c \in Files : \A g \in ToSet(c.sys) : ~g.unsetEvent
  PROVE  FilesMakeSense => (Spec => []EvaluationIsExact)
<1> SUFFICES ASSUME FilesMakeSense
             PROVE  Spec => []EvaluationIsExact
  OBVIOUS
<1>1. RulesInv /\ FilesInv => EvaluationIsExact
  <2> SUFFICES ASSUME RulesInv, FilesInv, NEW r \in Asked
               PROVE  IF Candidates(r) = {} THEN Found(r) = 0
                      ELSE /\ Found(r) # 0
                           /\ list.events[r.name][Found(r)].props = PropsOf(Promised(r))
                           /\ list.events[r.name][Found(r)].prio = Weight(Promised(r))[1]
    BY DEF EvaluationIsExact
  <2> DEFINE n == r.name
             W == Written
             m == Len(W)
             ev == list.events[n]
             T(e) == TitleIn(list.rules, n, e)
             I == {p \in 1..Len(ev) : EventHolds(ev[p], r.props)}
  <2>1. Sensible(W) /\ W \in Seq(ToSet(W)) /\ m \in Nat /\ m <= m /\ DOMAIN W = 1..m
    <3>1. Sensible(W)
      BY FilesSensible DEF FilesInv, Written
    <3>2. W \in Seq(ToSet(W))
      BY <3>1 DEF Sensible
    <3> HIDE DEF W
    <3>3. QED
      BY <3>1, <3>2
  <2>2. /\ n \in Names /\ IsInjective(list.rules) /\ EventsMatch(ev, list.rules, W, m, n)
        /\ ev \in Seq(ToSet(ev))
    BY AskedAssumption DEF FilesInv, MadeOf, RulesInv, HasEvents
  <2>3. DOMAIN ev = 1..Len(ev) /\ Len(ev) \in Nat
    BY <2>2
  <2>4. \A p \in DOMAIN ev : FromFiles(ev[p], list.rules, W, m, n)
    BY <2>2 DEF EventsMatch, ToSet
  <2>5. ASSUME NEW p \in DOMAIN ev
        PROVE  EventHolds(ev[p], r.props) <=> \A rule \in T(ev[p])[2] : HoldsNow(rule, r)
    <3> DEFINE ids == ev[p].rules
    <3>1. ids \in Seq(DOMAIN list.rules)
      BY <2>4 DEF FromFiles
    <3>2. \A q \in DOMAIN ids : ids[q] \in DOMAIN list.rules
      BY <3>1
    <3>3. \A q \in DOMAIN ids : RuleHolds(ids[q], r.props) <=> HoldsNow(list.rules[ids[q]], r)
      BY <3>2, HoldsIs
    <3>4. T(ev[p])[2] = {list.rules[i] : i \in ToSet(ids)}
      BY DEF TitleIn
    <3>5. ToSet(ids) = {ids[q] : q \in DOMAIN ids}
      BY DEF ToSet
    <3>6. EventHolds(ev[p], r.props) <=> \A q \in DOMAIN ids : RuleHolds(ids[q], r.props)
      BY DEF EventHolds
    <3> HIDE DEF ids, T
    <3>7. (\A q \in DOMAIN ids : HoldsNow(list.rules[ids[q]], r)) <=>
            \A i \in ToSet(ids) : HoldsNow(list.rules[i], r)
      BY <3>5
    <3>8. (\A i \in ToSet(ids) : HoldsNow(list.rules[i], r)) <=>
            \A rule \in T(ev[p])[2] : HoldsNow(rule, r)
      BY <3>4
    <3>9. QED
      BY <3>3, <3>6, <3>7, <3>8
  <2>6. \A t : /\ Layers(t) = LayersTo(W, m, t) /\ PropsOf(t) = PropsTo(W, m, t)
               /\ Weight(t) = WeightTo(W, m, t)
    BY <2>1, PromiseIs
  <2>7. Found(r) = IF I # {} THEN Min(I) ELSE 0
    BY DEF Found, SelectInSeq
  <2>8. \A p \in DOMAIN ev : T(ev[p])[1] = n
    BY DEF TitleIn
\* The candidates are the titles of the events that hold.
  <2>9. ASSUME NEW p \in I
        PROVE  T(ev[p]) \in Candidates(r)
    <3> DEFINE t == T(ev[p])
    <3>1. p \in DOMAIN ev /\ EventHolds(ev[p], r.props)
      BY <2>3
    <3>2. LayersTo(W, m, t) # {}
      BY <2>4, <3>1 DEF FromFiles
    <3>3. t \in {Title(W[i]) : i \in DOMAIN W}
      <4>1. PICK i \in 1..m : Title(W[i]) = t
        BY <3>2 DEF LayersTo
      <4>2. QED
        BY <2>1, <4>1
    <3>4. Layers(t) # {} /\ \A rule \in t[2] : HoldsNow(rule, r)
      BY <2>5, <2>6, <3>1, <3>2
    <3>5. QED
      BY <2>8, <3>1, <3>3, <3>4 DEF Candidates
  <2>10. ASSUME NEW t \in Candidates(r)
         PROVE  \E p \in I : t = T(ev[p])
    <3>1. /\ t \in {Title(W[i]) : i \in DOMAIN W} /\ t[1] = r.name /\ Layers(t) # {}
          /\ \A rule \in t[2] : HoldsNow(rule, r)
      BY DEF Candidates
    <3>2. PICK i \in DOMAIN W : t = Title(W[i])
      BY <3>1
    <3>3. i \in 1..m /\ W[i].name = n /\ LayersTo(W, m, Title(W[i])) # {}
      BY <2>1, <2>6, <3>1, <3>2 DEF Title
    <3>4. PICK e \in ToSet(ev) : T(e) = Title(W[i])
      BY <2>2, <3>3 DEF EventsMatch
    <3>5. PICK p \in DOMAIN ev : e = ev[p]
      BY DEF ToSet
    <3>6. EventHolds(ev[p], r.props)
      BY <2>5, <3>1, <3>2, <3>4, <3>5
    <3>7. QED
      BY <2>3, <3>2, <3>4, <3>5, <3>6
  <2>11. I \subseteq 1..Len(ev)
    OBVIOUS
  <2>12. CASE I = {}
    BY <2>7, <2>10, <2>12
  <2>13. CASE I # {}
    <3> DEFINE p == Min(I)
               t == T(ev[p])
    <3>1. p \in I /\ \A q \in I : p <= q
      <4>1. I \subseteq Nat
        BY <2>11
      <4> HIDE DEF I
      <4>2. QED
        BY <2>13, <4>1, MinFacts
    <3>2. Found(r) = p /\ p \in DOMAIN ev /\ p # 0
      BY <2>3, <2>7, <2>13, <3>1, SMTT(30)
    <3>3. t \in Candidates(r)
      BY <2>9, <3>1
    <3> HIDE DEF p, I, T
    <3>4. ASSUME NEW u \in Candidates(r) \ {t}
          PROVE  Heavier(Weight(t), Weight(u)) /\ ~Heavier(Weight(u), Weight(t))
      <4>1. PICK q \in I : u = T(ev[q])
        BY <2>10
      <4>2. q \in DOMAIN ev /\ p < q
        <5>1. q # p
          BY <4>1
        <5>2. QED
          BY <2>3, <2>11, <3>1, <5>1
      <4>3. Outranks(W, m, t, u)
        BY <2>2, <3>2, <4>1, <4>2 DEF EventsMatch, T
      <4>4. ~Outranks(W, m, u, t)
        <5>1. PICK e, f : e = ev[p] /\ f = ev[q]
          OBVIOUS
        <5>2. /\ FromFiles(e, list.rules, W, m, n) /\ FromFiles(f, list.rules, W, m, n)
              /\ Outranks(W, m, T(e), T(f))
          BY <2>4, <3>2, <4>1, <4>2, <4>3, <5>1
        <5>3. ~Outranks(W, m, T(f), T(e))
          BY ONLY <2>1, <2>2, <5>2, OneOutranks, Zenon DEF T
        <5>4. QED
          BY <4>1, <5>1, <5>3
      <4>5. QED
        BY <2>6, <4>3, <4>4 DEF Outranks
    <3> HIDE DEF t
    <3>5. Promised(r) = t
      <4> DEFINE Best(x) == \A u \in Candidates(r) \ {x} : Heavier(Weight(x), Weight(u))
      <4>1. Best(t)
        BY <3>4
      <4>2. ASSUME NEW x \in Candidates(r), Best(x)
            PROVE  x = t
        <5>1. SUFFICES ASSUME x # t
                       PROVE  FALSE
          OBVIOUS
        <5>2. Heavier(Weight(x), Weight(t))
          BY <3>3, <4>2, <5>1
        <5>3. QED
          BY <3>4, <5>1, <5>2
      <4>3. Promised(r) = CHOOSE x \in Candidates(r) : Best(x)
        BY DEF Promised
      <4> HIDE DEF Best
      <4>4. QED
        BY <3>3, <4>1, <4>2, <4>3
    <3>6. ev[p].props = PropsOf(t) /\ ev[p].prio = Weight(t)[1]
      <4>1. ev[p].props = PropsTo(W, m, t) /\ ev[p].prio = W[FirstTo(W, m, t)].prio
        BY <2>4, <3>2 DEF FromFiles, t, T
      <4>2. QED
        BY <2>6, <4>1 DEF WeightTo
    <3>7. QED
      BY <3>2, <3>3, <3>5, <3>6
  <2>14. QED
    BY <2>12, <2>13
<1>2. Init => FilesInv
  BY InitMakes
<1>3. RulesInv /\ FilesInv /\ [Next]_vars => FilesInv'
  BY FilesNext
<1>4. QED
  BY <1>1, <1>2, <1>3, Invariance, PTL DEF Spec
=============================================================================
