------------------------------ MODULE PulseLink ------------------------------
(***************************************************************************)
(* How the volume controller gets a connection to PulseAudio and another   *)
(* when that is gone (src/src/plugins/streamrestore/volume-controller.c):  *)
(* the address is taken from the environment or asked for on the session   *)
(* bus, and a timer tries again after every failure and every reply.       *)
(*                                                                         *)
(* External: the session bus, which answers, and PulseAudio.               *)
(***************************************************************************)
EXTENDS Naturals

CONSTANTS
  EnvAddress,   \* PULSE_DBUS_SERVER, or None
  Addresses,    \* where a PulseAudio can be
  MaxRestarts   \* bound: how often PulseAudio goes

None == "none"

ASSUME LinkAssumption ==
  /\ None \notin Addresses
  /\ EnvAddress \in Addresses \cup {None}
  /\ MaxRestarts \in Nat

VARIABLES
  stage,     \* "loading", "loaded", "running" after INIT_DONE, "unloaded"
  retry,     \* volume_retry_id is a timer
  asking,    \* a call for the address is pending
  address,   \* volume_pulse_address
  bus,       \* volume_bus: "up", or "dead" while its end is not yet known
  server,    \* external: the address of PulseAudio, None while it is down
  restarts   \* number of times that PulseAudio went

link == <<stage, retry, asking, address, bus, server, restarts>>

Target == IF address = None THEN EnvAddress ELSE address

\* connect_get_address: the call is made, or cannot be (there is no session bus)
\* and the timer tries again.
AskAddress ==
  /\ Target = None
  /\ \/ asking' = TRUE /\ retry' = FALSE
     \/ retry' = TRUE /\ UNCHANGED asking
  /\ bus' = None
  /\ UNCHANGED <<server, restarts>>

\* connect_peer_to_peer, where nobody is or nobody is any longer.
FailToOpen ==
  /\ Target # None /\ Target # server
  /\ retry' = TRUE
  /\ bus' = None
  /\ UNCHANGED <<asking, server, restarts>>

\* It opens, but PulseAudio may go while what waited is sent to it.
Open(dies) ==
  /\ Target # None /\ Target = server
  /\ retry' = FALSE
  /\ IF dies THEN /\ restarts < MaxRestarts
                  /\ restarts' = restarts + 1
                  /\ bus' = "dead" /\ server' = None
             ELSE bus' = "up" /\ UNCHANGED <<server, restarts>>
  /\ UNCHANGED asking

\* connect_to_pulseaudio.
Connect(dies) == address' = Target /\ (AskAddress \/ FailToOpen \/ Open(dies))

LinkLoad ==
  /\ stage = "loading"
  /\ stage' = "loaded"
  /\ Connect(FALSE)

\* Slip: only an address is worth another try.
RetryWithAddress ==
  /\ asking /\ stage # "unloaded"
  /\ asking' = FALSE
  /\ address' = server
  /\ retry' = (server # None)
  /\ UNCHANGED <<stage, bus, server, restarts>>

\* get_address_reply_cb: the timer is started whatever the answer is.
LinkAddressReply ==
  /\ asking /\ stage # "unloaded"
  /\ asking' = FALSE
  /\ address' = server
  /\ retry' = TRUE
  /\ UNCHANGED <<stage, bus, server, restarts>>

\* retry_timeout_cb.
LinkRetry(dies) ==
  /\ retry
  /\ Connect(dies)
  /\ UNCHANGED stage

\* filter_cb, told that the connection is gone: the address is forgotten.
LinkDisconnected ==
  /\ bus = "dead"
  /\ bus' = None
  /\ address' = None
  /\ retry' = TRUE
  /\ UNCHANGED <<stage, asking, server, restarts>>

\* volume_controller_shutdown, which leaves a pending call.
LinkUnload ==
  /\ stage = "running"
  /\ stage' = "unloaded"
  /\ retry' = FALSE /\ bus' = None /\ address' = None
  /\ UNCHANGED <<asking, server, restarts>>

PulseGoes ==
  /\ stage # "unloaded" /\ server # None /\ restarts < MaxRestarts
  /\ restarts' = restarts + 1
  /\ server' = None
  /\ bus' = IF bus = "up" THEN "dead" ELSE bus
  /\ UNCHANGED <<stage, retry, asking, address>>

PulseComes(a) ==
  /\ stage # "unloaded" /\ server = None
  /\ server' = a
  /\ UNCHANGED <<stage, retry, asking, address, bus, restarts>>

LinkInit ==
  /\ stage = "loading" /\ retry = FALSE /\ asking = FALSE
  /\ address = None /\ bus = None
  /\ server = None /\ restarts = 0

\* What StreamRestore does to the link; INIT_DONE only moves the stage on.
LinkNext ==
  \/ LinkLoad \/ LinkAddressReply \/ LinkDisconnected \/ LinkUnload \/ PulseGoes
  \/ \E dies \in BOOLEAN : LinkRetry(dies)
  \/ \E a \in Addresses : PulseComes(a)
  \/ stage = "loaded" /\ stage' = "running"
       /\ UNCHANGED <<retry, asking, address, bus, server, restarts>>

LinkSpec == LinkInit /\ [][LinkNext]_link

\* The timer fires, the reply comes, and the main loop gets to the message that
\* there are no more.  A retry that finds no session bus leaves all as it is and
\* is no step of this fairness: in the end one finds it.
LinkFairness ==
  /\ WF_link(LinkAddressReply)
  /\ WF_link(\E dies \in BOOLEAN : LinkRetry(dies))
  /\ WF_link(LinkDisconnected)

-----------------------------------------------------------------------------
\* Once a PulseAudio stays, ngfd gets to it, whatever came before: unless the
\* address of an older one that it was given by the session bus is another.
\* That address is kept, and tried, for ever (only a connection that breaks
\* drops it), although "path to runtime files may change"
\* (volume-controller.c:275).
Reconnects ==
  <>[](stage \in {"loaded", "running"} /\ server # None /\ address \in {None, server})
    => <>[](bus = "up")
=============================================================================
