---------------------------- MODULE MCEventRules ----------------------------
(* Small instances of EventRules for TLC, after data/events.d.             *)
EXTENDS EventRules

\* Strings are numbered, the numbers of an int are themselves.
Str(n) == [type |-> "string", val |-> n]
Num(n) == [type |-> "int", val |-> n]
AnyString == Str(0)
MeetingString == Str(1)
ShortString == Str(2)
LongString == Str(3)

TwoNames  == {"ringtone", "chat"}
TwoKeys   == {"profile", "level"}
SomeValues == {MeetingString, AnyString, Num(1), Num(2)}

Rule(target, key, op, value) ==
  [target |-> target, key |-> key, op |-> op, value |-> value]

AnyMode   == Rule("request", "mode", "always", AnyString)
ShortMode == Rule("request", "mode", "equals", ShortString)
Meeting   == Rule("context", "profile", "equals", MeetingString)
Elsewhere == Rule("context", "profile", "nequals", MeetingString)
Loud      == Rule("context", "level", "greater", Num(1))

Group(name, prio, rules, props) ==
  [name |-> name, prio |-> prio, rules |-> rules, props |-> props,
   unset |-> {}, unsetEvent |-> FALSE]

RingMeeting == Group("ringtone", 0, <<AnyMode, Meeting>>, [file |-> "beep", repeat |-> "no"])
RingShort   == Group("ringtone", 0, <<ShortMode>>, [tone |-> "wait"])
RingLoud    == Group("ringtone", 0, <<Loud, Elsewhere>>, [file |-> "soft"])
RingDefault == Group("ringtone", 0, <<>>, [file |-> "ring", repeat |-> "yes"])
ChatMeeting == Group("chat", 1, <<Meeting>>, [file |-> "click"])
ChatAny     == Group("chat", 2, <<AnyMode>>, [file |-> "chat"])

Shipped == {RingMeeting, RingShort, RingLoud, RingDefault, ChatMeeting, ChatAny}

\* What a user adds: an event less, a property less, another priority.
UserGroups ==
  {[RingShort EXCEPT !.props = <<>>, !.unsetEvent = TRUE],
   [RingDefault EXCEPT !.props = [repeat |-> "no"], !.unset = {"file"}],
   Group("ringtone", 1, <<Meeting>>, [file |-> "hush"]),
   [ChatMeeting EXCEPT !.prio = 3, !.props = [repeat |-> "no"]]}

\* A group that removes an event follows one that made it.
Removes(sys, user) ==
  \A i \in DOMAIN user : user[i].unsetEvent =>
    /\ Contains(sys, RingShort)
    /\ \A j \in 1..(i - 1) : ~user[j].unsetEvent

SomeBoots ==
  {c \in [sys  : {s \in UNION {[1..n -> Shipped] : n \in 1..3} : IsInjective(s)},
          user : UNION {[1..n -> UserGroups] : n \in 0..2}] : Removes(c.sys, c.user)}

Conf(sys, user) == [sys |-> sys, user |-> user]

AllShipped == <<RingMeeting, RingShort, RingLoud, RingDefault, ChatMeeting, ChatAny>>

\* All that is shipped, or up to three groups in every order.
EveryBoot ==
  {Conf(AllShipped, <<>>)}
    \cup {c \in SomeBoots : Len(c.sys) + Len(c.user) <= 3}

\* On disk at a reload: everything, something else, something with additions of
\* the user, files without a group.
SomeFiles ==
  {Conf(AllShipped, <<>>), Conf(<<ChatMeeting, RingLoud>>, <<>>),
   Conf(<<RingDefault, RingShort>>, <<Group("ringtone", 1, <<Meeting>>, [file |-> "hush"])>>),
   Conf(<<>>, <<>>)}

SomeAsked ==
  [name : TwoNames, props : {<<>>, [mode |-> ShortString], [mode |-> LongString]}]

ASSUME MCFilesMakeSense == FilesMakeSense
=============================================================================
