---------------------------- MODULE MqttService -----------------------------
(***************************************************************************)
(* What the MQTT client promises, without sockets, packets or sessions.     *)
(*                                                                         *)
(* The service goes through its phases in order and may fall back to        *)
(* "down" from any of them; a command is executed only while it is serving, *)
(* its reply takes the one reply slot, and no reply of an earlier           *)
(* connection is owed when service begins again.                            *)
(***************************************************************************)
EXTENDS Commands

CONSTANTS CmdPayloads, None

VARIABLES phase, owed, total, led

vars == <<phase, owed, total, led>>

Init ==
  /\ phase \in {"disabled", "opening"}
  /\ owed = None /\ total = 0 /\ led = FALSE

Open ==
  /\ phase = "opening" /\ phase' = "securing"
  /\ UNCHANGED <<owed, total, led>>

(* Whatever an earlier connection owed is forgotten. *)
Join ==
  /\ phase = "securing" /\ phase' = "joining"
  /\ owed' = None
  /\ UNCHANGED <<total, led>>

Serve ==
  /\ phase = "joining" /\ owed = None
  /\ phase' = "serving"
  /\ UNCHANGED <<owed, total, led>>

(* The LED has been on and off for each blink, and is off in the end. *)
Execute(c) ==
  /\ phase = "serving"
  /\ owed' = Reply(c, total)
  /\ total' = TotalAfter(c, total)
  /\ led' = (led /\ Blinked(c) = 0)
  /\ UNCHANGED phase

Deliver ==
  /\ phase = "serving" /\ owed # None
  /\ owed' = None
  /\ UNCHANGED <<phase, total, led>>

Fall ==
  /\ phase \in {"opening", "securing", "joining", "serving"}
  /\ phase' = "down"
  /\ owed' \in {owed, None}
  /\ UNCHANGED <<total, led>>

Retry ==
  /\ phase = "down" /\ phase' = "opening"
  /\ UNCHANGED <<owed, total, led>>

Next ==
  \/ Open \/ Join \/ Serve \/ Deliver \/ Fall \/ Retry
  \/ \E c \in CmdPayloads : Execute(c)

Spec == Init /\ [][Next]_vars
=============================================================================
