------------------------------- MODULE Tonegen -------------------------------
(***************************************************************************)
(* The tone generator (src/src/plugins/tonegen): it keeps no data of its   *)
(* requests.  All indicator tones share one stream of PulseAudio and all   *)
(* DTMF tones another; while DTMF tones sound, telephony is asked to mute. *)
(* A stream destroys itself in its write callback when its time is over.   *)
(* The arithmetic that makes samples is left out, and so are the tones     *)
(* that follow each other in a chain, which no request asks for.           *)
(*                                                                         *)
(* External: PulseAudio, whose streams can be flushed or drained only when *)
(* they are ready.                                                         *)
(***************************************************************************)
EXTENDS SinkContract, Integers

CONSTANT MaxPlays   \* bound: how often one request is played (and resumed)

Kinds   == {"indicator", "dtmf"}   \* tonegen.type, and the stream of each type
NoStream == [state |-> "none", tones |-> FALSE]

VARIABLES
  kind,       \* tonegen.type of a request
  stream,     \* the listed stream of a type, and whether it has tones
  link,       \* the connection to PulseAudio
  retry,      \* ausrv->timer is set
  mute,       \* mute was requested last
  unmute,     \* tmute_id is set
  toneless,   \* mute was requested for a tone without volume, or its stream
              \* was destroyed when it had no tones
  stuck,      \* an indicator was stopped when its stream was not ready
  plays       \* how often a request was played

muteVars == <<mute, unmute, toneless>>
toneVars == <<kind, stream, link, retry, muteVars, stuck, plays>>

ToneInit ==
  /\ kind \in [Requests -> Kinds]
  /\ stream = [k \in Kinds |-> NoStream]
  /\ link = "connecting" /\ retry = FALSE
  /\ mute = FALSE /\ unmute = FALSE /\ toneless = FALSE /\ stuck = FALSE
  /\ plays = [r \in Requests |-> 0]

Listed(k) == stream[k].state # "none"
Ready(k)  == stream[k].state = "ready"

\* destroy_callback of the DTMF stream: muting ends with the tones.
MuteDies(dies) ==
  /\ mute' = (mute /\ ~(dies /\ stream["dtmf"].tones))
  /\ unmute' = (unmute /\ ~dies)
  /\ toneless' = (mute' /\ (toneless \/ dies))

-----------------------------------------------------------------------------
(* start_indicator_tone and start_dtmf_tone.  Some tones are silent: they  *)
(* have no volume, or the standard has none for them.                      *)

\* stream_create; that it fails does not fail the request.
Creates(k, tones) ==
  \/ /\ link = "ready"
     /\ stream' = [stream EXCEPT ![k] = [state |-> "creating", tones |-> tones]]
  \/ UNCHANGED stream

\* indicator_play: the stream that is there is used again, and it is then that
\* DTMF tones are stopped.
PlayIndicator(tones) ==
  IF ~Listed("indicator") THEN Creates("indicator", tones) /\ UNCHANGED <<muteVars, stuck>>
  ELSE /\ stream' = [stream EXCEPT !["indicator"].tones = tones, !["dtmf"].tones = FALSE]
       /\ unmute' = (unmute \/ Listed("dtmf")) /\ stuck' = FALSE
       /\ UNCHANGED <<mute, toneless>>

\* dtmf_play: with a stream that is there, the indicators are killed.
PlayDtmf(tones) ==
  IF Listed("dtmf")
  THEN /\ stream' = [stream EXCEPT !["dtmf"].tones = tones,
                                   !["indicator"] = IF Ready("indicator") THEN NoStream ELSE @]
       /\ mute' = TRUE /\ unmute' = FALSE /\ toneless' = ~tones
       /\ stuck' = (Listed("indicator") /\ ~Ready("indicator"))
  ELSE /\ Creates("dtmf", tones)
       /\ IF stream' = stream THEN UNCHANGED muteVars
          ELSE mute' = TRUE /\ unmute' = FALSE /\ toneless' = ~tones
       /\ UNCHANGED stuck

TonePlay(r) ==
  /\ plays[r] < MaxPlays /\ plays' = [plays EXCEPT ![r] = @ + 1]
  /\ \E tones \in BOOLEAN : IF kind[r] = "dtmf" THEN PlayDtmf(tones) ELSE PlayIndicator(tones)
  /\ UNCHANGED <<kind, link, retry>>

-----------------------------------------------------------------------------
(* Calls of the core.                                                      *)

Prepare(r) == PreparesPrompt(r) /\ UNCHANGED toneVars

\* A request without a valid tone fails.
Start(r) ==
  /\ Plays(r)
  /\ TonePlay(r) \/ (phase'[r] = "ending" /\ UNCHANGED toneVars)

\* The sink has no pause.
Pause(r) == Pauses(r) /\ UNCHANGED toneVars

Resume(r) == Resumes(r) /\ r \in played' /\ (TonePlay(r) \/ UNCHANGED toneVars)

\* Slip: dtmf_stop leaves the timeout of muting to the end of the stream.
StopDtmfStaysMute ==
  /\ stream' = [stream EXCEPT !["dtmf"].tones = FALSE]
  /\ UNCHANGED <<muteVars, stuck>>

\* dtmf_stop: the tones end, the stream stays for a while.
StopDtmf ==
  /\ stream' = [stream EXCEPT !["dtmf"].tones = FALSE]
  /\ unmute' = (unmute \/ Listed("dtmf"))
  /\ UNCHANGED <<mute, toneless, stuck>>

\* Slip: the stream is kept with its tones, as that of DTMF.
StopIndicatorLater == stuck' = stuck /\ UNCHANGED <<stream, muteVars>>

\* indicator_stop: stream_destroy gives up on a stream that is not ready.
StopIndicator ==
  /\ stream' = [stream EXCEPT !["indicator"] = IF Ready("indicator") THEN NoStream ELSE @]
  /\ stuck' = (Listed("indicator") /\ ~Ready("indicator"))
  /\ UNCHANGED muteVars

\* The tone of the type ends, whichever request has asked for it.
Stop(r) ==
  /\ Stops(r)
  /\ IF kind[r] = "dtmf" THEN StopDtmf ELSE StopIndicator
  /\ UNCHANGED <<kind, link, retry, plays>>

EndAttempts == \E R \in (SUBSET Requests) \ {{}} : Ends(R) /\ UNCHANGED toneVars

-----------------------------------------------------------------------------
(* Callbacks of the streams.                                               *)

\* External: PulseAudio creates a stream, or ends it.
StreamChanges(k) ==
  /\ \/ stream[k].state = "creating" /\ stream' = [stream EXCEPT ![k].state = "ready"]
     \/ stream[k].state \in {"creating", "ready"} /\ stream' = [stream EXCEPT ![k].state = "failed"]
  /\ UNCHANGED <<contractVars, kind, link, retry, muteVars, stuck, plays>>

\* tone_write_callback: an indicator has a duration.
ToneEnds ==
  /\ Ready("indicator") /\ stream["indicator"].tones
  /\ stream' = [stream EXCEPT !["indicator"].tones = FALSE]
  /\ UNCHANGED <<contractVars, kind, link, retry, muteVars, stuck, plays>>

\* write_callback at the end of its time, or underflow_callback.
StreamEnds(k) ==
  /\ Ready(k)
  /\ stream' = [stream EXCEPT ![k] = NoStream]
  /\ MuteDies(k = "dtmf")
  /\ stuck' = (stuck /\ k = "dtmf")
  /\ UNCHANGED <<contractVars, kind, link, retry, plays>>

\* mute_timeout_callback.
MuteTimeout ==
  /\ unmute /\ unmute' = FALSE /\ mute' = FALSE /\ toneless' = FALSE
  /\ UNCHANGED <<contractVars, kind, stream, link, retry, stuck, plays>>

-----------------------------------------------------------------------------
(* The connection: context_callback and retry_connect.                     *)

Connects ==
  /\ link = "connecting" /\ link' = "ready" /\ retry' = FALSE
  /\ UNCHANGED <<contractVars, kind, stream, muteVars, stuck, plays>>

\* All streams are killed, ready or not.
Disconnects ==
  /\ link \in {"connecting", "ready"} /\ link' = "down" /\ retry' = TRUE
  /\ stream' = [k \in Kinds |-> NoStream]
  /\ MuteDies(Listed("dtmf"))
  /\ stuck' = FALSE
  /\ UNCHANGED <<contractVars, kind, plays>>

Retries ==
  /\ retry /\ retry' = FALSE /\ link' = "connecting"
  /\ UNCHANGED <<contractVars, kind, stream, muteVars, stuck, plays>>

ToneNext ==
  \/ EndAttempts \/ ToneEnds \/ MuteTimeout \/ Connects \/ Disconnects \/ Retries
  \/ \E k \in Kinds : StreamChanges(k) \/ StreamEnds(k)
  \/ \E r \in Requests : Prepare(r) \/ Start(r) \/ Pause(r) \/ Resume(r) \/ Stop(r)

-----------------------------------------------------------------------------
\* A tone is there only while a request of its type is, though requests share
\* the streams, unless the stream of the indicator was not ready for the stop;
\* and no stream is kept from a connection that was lost, after which another
\* attempt is due.
TonesHaveRequests ==
  /\ \A k \in Kinds :
       stream[k].tones => \/ k = "indicator" /\ stuck
                          \/ \E r \in Requests : kind[r] = k /\ Held(r) /\ r \in played
  /\ link # "ready" => \A k \in Kinds : ~Listed(k)
  /\ link = "down" => retry

\* Telephony stays muted only while a DTMF tone is there or the timeout that
\* ends it is set, unless there was never a tone to hear or the stream died
\* between the stop and the timeout.
MuteIsReleased == mute => unmute \/ stream["dtmf"].tones \/ toneless
=============================================================================
