--------------------------- MODULE MqttKeepalive ----------------------------
(***************************************************************************)
(* MqttClient with two history variables: for how many ticks the broker of  *)
(* a CONNECTED client has been sent nothing, and how many PINGRESPs the     *)
(* client has read in that time.  The silence, and not the client's         *)
(* s_last_activity_ms, is what the broker measures KEEPALIVE_SEC against.   *)
(***************************************************************************)
EXTENDS MqttClient

CONSTANT MaxSilence   \* bound: the history variable counts no further

ASSUME KeepaliveAssumption == MaxSilence \in Nat

VARIABLES silence, answered

(* The pump has written something: a SEND is under way. *)
Sent == ~sock.busy /\ sock'.busy
Longer(t) == IF t > MaxSilence THEN MaxSilence ELSE t

(* The client has taken a PINGRESP from the socket. *)
Answered ==
  /\ sock'.sr = sock.sr
  /\ sock.in # <<>> /\ Head(sock.in) = PINGRESP
  /\ sock'.in = Tail(sock.in)

KInit == Init /\ silence = 0 /\ answered = 0

(* Whatever is written ends the silence; the time a BLINK takes passes      *)
(* after the pump has run.  A connection begins with none.                  *)
KNext ==
  /\ Next
  /\ IF s_state # "CONNECTED" \/ s_state' # "CONNECTED"
     THEN silence' = 0 /\ answered' = 0
     ELSE /\ silence' = Longer((IF Sent THEN 0 ELSE silence) + Minus(tick', tick))
          /\ answered' = (IF Sent THEN 0 ELSE answered) + (IF Answered THEN 1 ELSE 0)

kvars == <<vars, silence, answered>>
KSpec == KInit /\ [][KNext]_kvars

(* With nothing queued, the client has been silent for at most a keepalive  *)
(* half and a poll interval, and as long again for every PINGRESP that it   *)
(* read meanwhile: each refreshes s_last_activity_ms, though nothing was    *)
(* sent, and so puts the next PINGREQ off.  One is the rule; a broker or a  *)
(* network that is late makes it more, since PINGREQs are sent unanswered.  *)
SilenceBounded ==
  s_state = "CONNECTED" /\ s_tx = NoTx
    => silence <= (answered + 1) * (KEEPALIVE_HALF + MaxGap)

(* mqtt_client.h:19: PINGREQ is sent often enough to stay under the         *)
(* keepalive interval; stated with the half interval of grace that MQTT     *)
(* makes the broker add before it drops the client.                         *)
KeepaliveHonoured == s_state = "CONNECTED" => silence <= 3 * KEEPALIVE_HALF
=============================================================================
