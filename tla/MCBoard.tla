------------------------------ MODULE MCBoard ------------------------------
(* A small instance of Board: commands for TLC. *)
EXTENDS Board

(* A BLINK beyond the cap. *)
ChannelCommands == {[verb |-> "BLINK", arg |-> BLINK_MAX + 1]}
=============================================================================
