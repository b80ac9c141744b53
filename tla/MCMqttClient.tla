---------------------------- MODULE MCMqttClient ----------------------------
(* Instances of MqttClient small enough for TLC.                            *)
EXTENDS MqttClient, TLC

CONSTANTS ssl1, ssl2, ssl3

TwoSessions == {ssl1, ssl2}
ThreeSessions == {ssl1, ssl2, ssl3}
SessionSymmetry == Permutations(Sessions)

Count  == [verb |-> "COUNT", arg |-> NoDigits]
Blink1 == [verb |-> "BLINK", arg |-> 1]
JustBlink == {Blink1}
JustCount == {Count}
CountAndBlink == {Count, Blink1}

(* Time passes only where a keepalive may come of it.  For runs that do not *)
(* ask about time: with no backoff, a tick changes nothing elsewhere.       *)
TimeInSession ==
  tick' # tick => s_state = "CONNECTED" /\ s_tx = NoTx /\ sock.in = <<>>
=============================================================================
