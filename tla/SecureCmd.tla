----------------------------- MODULE SecureCmd -----------------------------
(***************************************************************************)
(* secure_cmd.c: one AES-GCM packet per connection, its command executed,   *)
(* an encrypted reply, disconnect.                                          *)
(*                                                                         *)
(* SecureCmd_Task() reads Sn_SR once and acts on what it read, so that a    *)
(* call is GetStatus and one of the actions that follow it.  A command      *)
(* keeps the call busy in do_blink(), blink by blink, while the chip and    *)
(* the client go on.                                                        *)
(***************************************************************************)
EXTENDS Commands, RxBuffer, Sequences

CONSTANTS
  None,           \* no request, no answer, no command
  Forged,         \* a packet that does not decrypt or authenticate
  ClientCommands, \* the commands that clients encrypt
  MaxUnits        \* bound: halves that a client sends ahead of the task

VARIABLES
  sock, peer,     \* the socket and its client (W5500Server)
  sipr,           \* whether the chip has an address (W5500Server)
  seen,           \* what getSn_SR() returned in this call; Idle between calls
  exec,           \* the command in execution, the blinks it still needs, and
                  \* whether one of them has the LED on
  s_total_blinks,
  led

Requests == ClientCommands \cup {Forged}
INSTANCE W5500Server WITH Answers <- Replies

ASSUME SecureAssumption ==
  /\ ClientCommands \subseteq Commands /\ Forged \notin Commands
  /\ None \notin Commands \cup {Forged} /\ None \notin Replies

vars == <<sock, peer, sipr, seen, exec, s_total_blinks, led>>

Idle == "IDLE"
NoCommand == [cmd |-> None, left |-> 0, lit |-> FALSE]
Executions == {NoCommand} \cup [cmd : Commands, left : 0 .. BLINK_MAX, lit : BOOLEAN]

(* SecureCmd_Init() stores the socket number and starts the generator that  *)
(* module TlsTransport models; the Task opens the socket.                   *)
Init ==
  /\ ServerInit
  /\ seen = Idle /\ exec = NoCommand
  /\ s_total_blinks = 0 /\ led \in BOOLEAN

-----------------------------------------------------------------------------
(* SecureCmd_Task().                                                        *)

GetStatus ==
  /\ seen = Idle
  /\ seen' = sock.sr
  /\ UNCHANGED <<sock, peer, sipr, exec, s_total_blinks, led>>

Act(status) ==
  /\ seen = status /\ exec = NoCommand
  /\ seen' = Idle
  /\ UNCHANGED <<sipr, s_total_blinks, led>>

(* What socket() returns is ignored: when it fails the next call tries again.*)
Reopen == Act("CLOSED") /\ sock' = socket(sock) /\ UNCHANGED <<peer, exec>>

Listen == Act("INIT") /\ sock' = listen(sock) /\ UNCHANGED <<peer, exec>>

(* Mutant of HangUp: no branch for SOCK_CLOSE_WAIT. *)
HangUp_Ignored == Act("CLOSE_WAIT") /\ UNCHANGED <<sock, peer, exec>>

HangUp == Act("CLOSE_WAIT") /\ sock' = disconnect(sock) /\ UNCHANGED <<peer, exec>>

Ignore ==
  /\ \E status \in {"LISTEN", "CLOSING"} : Act(status)
  /\ UNCHANGED <<sock, peer, exec>>

(* recv() finds the connection gone, or nothing yet. *)
ReceiveNothing ==
  /\ Act("ESTABLISHED")
  /\ \/ recv_fails(sock) /\ sock' = close /\ peer' = NoPeer
     \/ ~recv_fails(sock) /\ sock.in = <<>> /\ UNCHANGED <<sock, peer>>
  /\ UNCHANGED exec

(* Mutant of decrypt_packet: the result of wc_AesGcmDecrypt() is ignored.   *)
decrypt_packet_NoTag(data) ==
  IF data = <<1, 2>> /\ peer.req = Forged THEN CHOOSE c \in ClientCommands : TRUE
  ELSE IF data = <<1, 2>> THEN peer.req ELSE None

(* What recv() returned decrypts to a command when it is exactly one packet *)
(* and its tag is right.                                                    *)
decrypt_packet(data) ==
  IF data = <<1, 2>> /\ peer.req # Forged THEN peer.req ELSE None

ReceiveBad ==
  /\ Act("ESTABLISHED")
  /\ ~recv_fails(sock) /\ sock.in # <<>>
  /\ decrypt_packet(recv_data(sock)) = None
  /\ sock' = disconnect(recv_rest(sock))
  /\ UNCHANGED <<peer, exec>>

(* The call goes on with the command. *)
ReceiveCommand ==
  /\ seen = "ESTABLISHED" /\ exec = NoCommand
  /\ ~recv_fails(sock) /\ sock.in # <<>>
  /\ LET cmd == decrypt_packet(recv_data(sock))
     IN  cmd # None /\ exec' = [cmd |-> cmd, left |-> Blinked(cmd), lit |-> FALSE]
  /\ sock' = recv_rest(sock)
  /\ UNCHANGED <<peer, sipr, seen, s_total_blinks, led>>

(* One turn of the loop in do_blink(): the LED on and a delay, then the LED  *)
(* off and a delay.                                                         *)
BlinkOn ==
  /\ exec.left > 0 /\ ~exec.lit
  /\ exec' = [exec EXCEPT !.lit = TRUE]
  /\ led' = TRUE
  /\ UNCHANGED <<sock, peer, sipr, seen, s_total_blinks>>

(* Mutant of BlinkOff: the LED is not turned off again. *)
BlinkOff_Lit ==
  /\ exec.lit
  /\ exec' = [exec EXCEPT !.lit = FALSE, !.left = @ - 1]
  /\ UNCHANGED <<sock, peer, sipr, seen, s_total_blinks, led>>

BlinkOff ==
  /\ exec.lit
  /\ exec' = [exec EXCEPT !.lit = FALSE, !.left = @ - 1]
  /\ led' = FALSE
  /\ UNCHANGED <<sock, peer, sipr, seen, s_total_blinks>>

(* Mutant of Finished: no disconnect() after the reply. *)
Finished_Open(sk) == sk

Finished(sk) == disconnect(sk)

(* encrypt_packet() may fail (wolfCrypt has no memory): nothing to send. *)
encrypt_packet(reply) == {reply, None}

(* The counter, the reply, disconnect().  What send() returns is ignored. *)
Respond ==
  /\ exec # NoCommand /\ exec.left = 0
  /\ s_total_blinks' = TotalAfter(exec.cmd, s_total_blinks)
  /\ \E pkt \in encrypt_packet(Reply(exec.cmd, s_total_blinks)) :
       sock' = Finished(IF pkt = None THEN sock ELSE send(sock, pkt))
  /\ seen' = Idle /\ exec' = NoCommand
  /\ UNCHANGED <<peer, sipr, led>>

SecureCmd_Task ==
  \/ GetStatus \/ Reopen \/ Listen \/ HangUp \/ Ignore
  \/ ReceiveNothing \/ ReceiveBad \/ ReceiveCommand
  \/ BlinkOn \/ BlinkOff \/ Respond

Environment == Network /\ UNCHANGED <<seen, exec, s_total_blinks, led>>

(* The callbacks of DHCP_run(). *)
Chip == (ChipReset \/ Addressed) /\ UNCHANGED <<seen, exec, s_total_blinks, led>>

(* The buttons of the page and the blinks of the MQTT client, between calls.*)
OtherTasks ==
  /\ seen = Idle
  /\ led' \in BOOLEAN
  /\ UNCHANGED <<sock, peer, sipr, seen, exec, s_total_blinks>>

Next == SecureCmd_Task \/ Environment \/ Chip \/ OtherTasks

Spec == Init /\ [][Next]_vars

-----------------------------------------------------------------------------
(* Properties.                                                              *)

(* The types of the variables. *)
TypeOK ==
  /\ ServerTypeOK
  /\ seen \in Status \cup {Idle} /\ exec \in Executions
  /\ s_total_blinks \in Ulongs /\ led \in BOOLEAN

(* `a' answers command c, and its total is the counter's value still. *)
Earned(a, c) ==
  \E t \in Ulongs : a = Reply(c, t) /\ s_total_blinks = TotalAfter(c, t)

(* Whatever a client gets, now or still on its way, is the reply that its   *)
(* own command earned, and no later command has run: also when the          *)
(* connection was lost and taken up by others while the LED was blinking.   *)
RepliesEarned ==
  \A a \in {sock.tx, peer.got} \ {None} : Earned(a, peer.req)

(* Nothing a client does without the key makes the board execute or answer, *)
(* and no command is in execution while such a client is connected.         *)
ForgedRefused ==
  peer.req = Forged => exec = NoCommand /\ sock.tx = None /\ peer.got = None

(* A connection carries one command: when that has ended no more is taken   *)
(* from its client, and what the client sent after it is not found in the   *)
(* buffer of the next one.                                                  *)
OneCommandPerConnection ==
  [][/\ exec # NoCommand /\ exec' = NoCommand => sock'.sr \notin Open
     /\ sock.sr \notin Open /\ sock'.sr \in Open => exec' = NoCommand /\ sock'.in = <<>>]_vars

(* The one socket of the service becomes free again and again, whatever its *)
(* clients send and whenever they leave, unless one vanished without a word;*)
(* also after the chip was left without an address, once it has one again.  *)
ListensAgain == ChipSettles => []<>(sock.sr = "LISTEN" \/ Abandoned)

=============================================================================
