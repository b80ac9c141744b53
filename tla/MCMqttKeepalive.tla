-------------------------- MODULE MCMqttKeepalive ---------------------------
(* Instances of MqttKeepalive small enough for TLC.                         *)
EXTENDS MqttKeepalive, TLC

CONSTANTS ssl1

OneSession == {ssl1}
JustCount == {[verb |-> "COUNT", arg |-> NoDigits]}
JustBlink == {[verb |-> "BLINK", arg |-> 1]}
=============================================================================
