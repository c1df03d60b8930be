-------------------------- MODULE MCStreamRestore --------------------------
(* Small instances of StreamRestore for TLC.                               *)
EXTENDS StreamRestore

SomeStreams == {"media", "voice", "flash", "ringing"}

\* One transform to a stream, with its volumes turned round, one to a key.
TwoTransforms ==
  {[src |-> "media", dst |-> "flash", toContext |-> FALSE, base |-> 100, max |-> 50],
   [src |-> "voice", dst |-> "alert", toContext |-> TRUE, base |-> 0, max |-> 100]}

\* builtin@(min:alert,system) external@(system).
OneRole ==
  [ringing |-> <<[key |-> "alert",  type |-> "builtin",  min |-> TRUE],
                 [key |-> "system", type |-> "builtin",  min |-> TRUE],
                 [key |-> "system", type |-> "external", min |-> FALSE]>>]

TwoKeys   == {"alert", "system"}
TwoValues == {50, 100}
TwoRoutes == {"builtin", "external"}
FullMedia == {[stream |-> "media", volume |-> 100]}

\* A left channel that is louder than the right one.
OneMix    == {<<65536, 0>>}
TwoAddresses == {"a", "b"}

\* As x-meego-ringing-volume and x-meego-system-sound-level of 50-streamrestore.ini.
ASSUME MCRolesAreOwn == RolesAreOwn

\* "flash" and "alert" are no role and no parameter, and carried over to once.
ASSUME MCTransformsAreOwn == TransformsAreOwn
=============================================================================
