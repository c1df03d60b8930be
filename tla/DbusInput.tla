----------------------------- MODULE DbusInput ------------------------------
(***************************************************************************)
(* The D-Bus input plugin (src/src/plugins/dbus/plugin.c) on top of what   *)
(* the core promises about requests (RequestLifecycle): the list of known  *)
(* clients, the reference count of each client structure, the number of    *)
(* its active requests and the two limits.  A request keeps a pointer to   *)
(* its client in its properties; its fallback copy keeps the same pointer. *)
(* A definition introduced by "Slip" is the one below it with a bug.       *)
(***************************************************************************)
EXTENDS RequestLifecycle, FiniteSets

CONSTANTS
  Clients,       \* unique bus names; the bus never hands one out twice
  Nobody,        \* the owner of an id that was never played
  MaxClients,    \* dbusif_max_clients
  MaxRequests    \* dbusif_max_requests, of one client

ASSUME ClientAssumption == Nobody \notin Clients
ASSUME LimitAssumption == MaxClients \in Nat /\ MaxRequests \in Nat

VARIABLES
  clients,    \* idata->clients
  gone,       \* names whose owner has left the bus
  ref,        \* client->ref; 0 when the name has no structure
  active,     \* client->active_requests
  owner,      \* the client an id was played by
  excused     \* history: open ids whose first attempt had failed, and
              \* whose fallback had not begun, when their client left

clientVars == <<clients, gone, ref, active, owner, excused>>
vars == <<lifecycleVars, clientVars>>

OpenOf(c) == {r \in Requests : Open(r) /\ owner[r] = c}

\* A stop does not keep the fallback of a failed request from being played.
RetriesOf(c) == {r \in failed : stage[r] = "first" /\ owner[r] = c}

-----------------------------------------------------------------------------
Init ==
  /\ LifecycleInit
  /\ clients = {} /\ gone = {}
  /\ ref = [c \in Clients |-> 0]
  /\ active = [c \in Clients |-> 0]
  /\ owner = [r \in Requests |-> Nobody]
  /\ excused = {}

\* Slip: one more than the limit passes.
AdmittedOneMore(c) ==
  IF c \in clients THEN active[c] <= MaxRequests
                   ELSE Cardinality(clients) <= MaxClients

\* The first part of dbusif_play_handler: a known client is held to its limit
\* of requests, an unknown one is registered within the limit of clients.
Admitted(c) ==
  IF c \in clients THEN active[c] < MaxRequests
                   ELSE Cardinality(clients) < MaxClients

Registered(c) == IF c \in clients THEN ref[c] ELSE 1

\* Slip: the request takes no reference.
PlayUnreferenced(c, r) ==
  /\ c \notin gone /\ Admitted(c)
  /\ Accept(r)
  /\ clients' = clients \cup {c}
  /\ ref' = [ref EXCEPT ![c] = Registered(c)]
  /\ active' = [active EXCEPT ![c] = @ + 1]
  /\ owner' = [owner EXCEPT ![r] = c]
  /\ UNCHANGED <<gone, excused>>

\* The client takes a reference for the request before the core sees it.
Play(c, r) ==
  /\ c \notin gone /\ Admitted(c)
  /\ Accept(r)
  /\ clients' = clients \cup {c}
  /\ ref' = [ref EXCEPT ![c] = Registered(c) + 1]
  /\ active' = [active EXCEPT ![c] = @ + 1]
  /\ owner' = [owner EXCEPT ![r] = c]
  /\ UNCHANGED <<gone, excused>>

\* The arguments are parsed after the client was registered.
PlayMalformed(c) ==
  /\ c \notin gone /\ Admitted(c)
  /\ clients' = clients \cup {c}
  /\ ref' = [ref EXCEPT ![c] = Registered(c)]
  /\ UNCHANGED <<lifecycleVars, gone, active, owner, excused>>

\* A known client may stop or pause any listed request, its own or not.
StopMessage(c, r) ==
  /\ c \in clients /\ r \in listed
  /\ End({r})
  /\ UNCHANGED clientVars

PauseMessage(c, r) ==
  /\ c \in clients /\ r \in listed
  /\ Report(r, "paused") \/ Report(r, "playing") \/ Crash
  /\ UNCHANGED clientVars

\* Slips: a name that is no client is forgotten too; its requests play on;
\* fallbacks that are running play on.
DisconnectAnybody(c) ==
  /\ c \notin gone
  /\ gone' = gone \cup {c} /\ excused' = excused \cup RetriesOf(c)
  /\ End({r \in listed : owner[r] = c})
  /\ clients' = clients \ {c}
  /\ ref' = [ref EXCEPT ![c] = @ - 1]
  /\ UNCHANGED <<active, owner>>

DisconnectOnly(c) ==
  /\ c \notin gone
  /\ gone' = gone \cup {c} /\ excused' = excused \cup RetriesOf(c)
  /\ clients' = clients \ {c}
  /\ ref' = [ref EXCEPT ![c] = IF c \in clients THEN @ - 1 ELSE @]
  /\ UNCHANGED <<lifecycleVars, active, owner>>

DisconnectFirst(c) ==
  /\ c \notin gone
  /\ gone' = gone \cup {c} /\ excused' = excused \cup RetriesOf(c)
  /\ End({r \in listed : owner[r] = c /\ stage[r] = "first"})
  /\ clients' = clients \ {c}
  /\ ref' = [ref EXCEPT ![c] = IF c \in clients THEN @ - 1 ELSE @]
  /\ UNCHANGED <<active, owner>>

\* NameOwnerChanged for a client: what it plays is stopped, it is forgotten,
\* and its structure lives on until the last of its requests is closed.
Disconnect(c) ==
  /\ c \notin gone
  /\ gone' = gone \cup {c} /\ excused' = excused \cup RetriesOf(c)
  /\ IF c \in clients
     THEN /\ End({r \in listed : owner[r] = c})
          /\ clients' = clients \ {c}
          /\ ref' = [ref EXCEPT ![c] = @ - 1]
     ELSE UNCHANGED <<lifecycleVars, clients, ref>>
  /\ UNCHANGED <<active, owner>>

\* NameOwnerChanged for ohmd or mce.
ServiceRestarted ==
  /\ listed # {}
  /\ End(listed)
  /\ UNCHANGED clientVars

\* Slips: the count of requests stays; the reference is kept.
RequestClosedUncounted(r) ==
  /\ Close(r)
  /\ ref' = [ref EXCEPT ![owner[r]] = @ - 1]
  /\ excused' = excused \ {r}
  /\ UNCHANGED <<clients, gone, owner, active>>

RequestClosedReferenced(r) ==
  /\ Close(r)
  /\ active' = [active EXCEPT ![owner[r]] = IF @ = 0 THEN 0 ELSE @ - 1]
  /\ excused' = excused \ {r}
  /\ UNCHANGED <<clients, gone, owner, ref>>

\* dbusif_send_reply with the last status: client_request_done, client_unref.
RequestClosed(r) ==
  /\ Close(r)
  /\ LET c == owner[r]
     IN  /\ active' = [active EXCEPT ![c] = IF @ = 0 THEN 0 ELSE @ - 1]
         /\ ref' = [ref EXCEPT ![c] = @ - 1]
  /\ excused' = excused \ {r}
  /\ UNCHANGED <<clients, gone, owner>>

\* What the core does between the calls of the clients.
CoreStep(r) ==
  /\ Fail(r) \/ (r \in listed /\ End({r})) \/ Retry(r)
  /\ UNCHANGED clientVars

Next ==
  /\ up
  /\ \/ ServiceRestarted
     \/ \E c \in Clients : PlayMalformed(c) \/ Disconnect(c)
     \/ \E c \in Clients, r \in Requests :
          Play(c, r) \/ StopMessage(c, r) \/ PauseMessage(c, r)
     \/ \E r \in Requests : CoreStep(r) \/ RequestClosed(r)

Spec == Init /\ [][Next]_vars

\* The core closes or retries a request whose done source is pending.
FairSpec ==
  Spec /\ \A r \in Requests :
            WF_vars(up /\ (RequestClosed(r)
                           \/ (Retry(r) /\ UNCHANGED clientVars)))

-----------------------------------------------------------------------------
(* Properties.                                                             *)

TypeOK ==
  /\ stage \in [Requests -> Stages]
  /\ listed \subseteq Requests /\ ending \subseteq Requests
  /\ failed \subseteq Requests
  /\ last \in [Requests -> {"none", "playing", "paused", "completed", "failed"}]
  /\ up \in BOOLEAN
  /\ clients \subseteq Clients /\ gone \subseteq Clients
  /\ ref \in [Clients -> Nat] /\ active \in [Clients -> Nat]
  /\ owner \in [Requests -> Clients \cup {Nobody}]
  /\ excused \subseteq Requests

\* The count of a client structure is one for the list of clients and one for
\* each open request that points to it: the structure that the last status of
\* a request reads is never freed before, and never leaks afterwards.
RefsAreCounted ==
  \A c \in Clients :
    ref[c] = Cardinality(OpenOf(c)) + (IF c \in clients THEN 1 ELSE 0)

\* active_requests counts the open requests of the client, across failures,
\* fallbacks, stops by others and requests that never had a sink.
ActiveIsExact == \A c \in Clients : active[c] = Cardinality(OpenOf(c))

\* Neither limit is passed; a client's first request is admitted before its
\* own limit is looked at.
LimitsHold ==
  /\ Cardinality(clients) <= MaxClients
  /\ \A c \in Clients :
       active[c] <= IF MaxRequests = 0 THEN 1 ELSE MaxRequests

\* The counts of a client are exact, the limits that they stand for hold, and
\* every variable has its type.
CountsAreExact == TypeOK /\ RefsAreCounted /\ ActiveIsExact /\ LimitsHold

\* What a client leaves behind when it disconnects is ending, its running
\* fallbacks too, except a fallback that begins afterwards: its first attempt
\* had failed, and waited for the done source, when the client left.
OrphansAreEnding ==
  \A r \in Requests :
    Open(r) /\ owner[r] \in gone =>
      r \in ending \/ (stage[r] = "fallback" /\ r \in excused)

\* A client that keeps no request open costs nothing once it has left.
GoneClientsAreFreed ==
  \A c \in Clients :
    c \in gone ~> \/ ref[c] = 0 \/ ~up
                  \/ \E r \in OpenOf(c) \cap excused :
                       stage[r] = "fallback" /\ r \notin ending
=============================================================================
