-------------------------- MODULE RequestLifecycle --------------------------
(***************************************************************************)
(* What the core promises to whoever submits a request, without sinks and  *)
(* timers: a request is accepted once, begins to end once, is retried with *)
(* its fallback at most once and only after a failure, and gets exactly    *)
(* one last status.  Player implements it; DbusInput is built on it.       *)
(***************************************************************************)
EXTENDS Naturals

CONSTANT Requests    \* request identifiers

VARIABLES
  stage,    \* how far the request of an id has come
  listed,   \* ids that a lookup in core->requests finds
  ending,   \* ids whose done source is pending
  failed,   \* ids whose current attempt has failed
  last,     \* the last status sent for an id
  up        \* FALSE once the daemon has died

lifecycleVars == <<stage, listed, ending, failed, last, up>>

Stages == {"new", "first", "fallback", "closed"}
Open(r) == stage[r] \in {"first", "fallback"}

LifecycleInit ==
  /\ stage = [r \in Requests |-> "new"]
  /\ listed = {} /\ ending = {} /\ failed = {}
  /\ last = [r \in Requests |-> "none"]
  /\ up = TRUE

\* An attempt begins.  It runs; or it fails at once, with sinks (the client has
\* been told that it plays) or without any (nobody can look it up).
Attempt(r) ==
  \/ /\ listed' = listed \cup {r}
     /\ ending' = ending \ {r} /\ failed' = failed \ {r}
     /\ last' = [last EXCEPT ![r] = "playing"]
  \/ /\ listed' = listed \cup {r}
     /\ ending' = ending \cup {r} /\ failed' = failed \cup {r}
     /\ last' = [last EXCEPT ![r] = "playing"]
  \/ /\ listed' = listed \ {r}
     /\ ending' = ending \cup {r} /\ failed' = failed \cup {r}
     /\ UNCHANGED last

Accept(r) ==
  /\ stage[r] = "new"
  /\ stage' = [stage EXCEPT ![r] = "first"]
  /\ Attempt(r)
  /\ UNCHANGED up

\* The request is paused or resumed; the client is told when it worked.
Report(r, status) ==
  /\ r \in listed /\ status \in {"playing", "paused"}
  /\ last' = [last EXCEPT ![r] = status]
  /\ UNCHANGED <<stage, listed, ending, failed, up>>

\* A set of listed requests is stopped, completes or times out.
End(R) ==
  /\ R \subseteq listed
  /\ ending' = ending \cup R
  /\ UNCHANGED <<stage, listed, failed, last, up>>

Fail(r) ==
  /\ r \in listed \ ending
  /\ ending' = ending \cup {r}
  /\ failed' = failed \cup {r}
  /\ UNCHANGED <<stage, listed, last, up>>

Retry(r) ==
  /\ stage[r] = "first" /\ r \in ending \cap failed
  /\ stage' = [stage EXCEPT ![r] = "fallback"]
  /\ Attempt(r)
  /\ UNCHANGED up

Close(r) ==
  /\ Open(r) /\ r \in ending
  /\ stage' = [stage EXCEPT ![r] = "closed"]
  /\ last' = [last EXCEPT ![r] = IF r \in failed THEN "failed"
                                                 ELSE "completed"]
  /\ listed' = listed \ {r} /\ ending' = ending \ {r}
  /\ failed' = failed \ {r}
  /\ UNCHANGED up

Crash ==
  /\ up' = FALSE
  /\ UNCHANGED <<stage, listed, ending, failed, last>>

LifecycleNext ==
  /\ up
  /\ \/ Crash
     \/ \E R \in SUBSET listed : End(R)
     \/ \E r \in Requests :
          \/ Accept(r) \/ Fail(r) \/ Retry(r) \/ Close(r)
          \/ \E status \in {"playing", "paused"} : Report(r, status)

LifecycleSpec ==
  /\ LifecycleInit /\ [][LifecycleNext]_lifecycleVars
  /\ \A r \in Requests :
       WF_lifecycleVars(up /\ (Retry(r) \/ Close(r)))
=============================================================================
