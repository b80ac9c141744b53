------------------------------ MODULE HttpdLed ------------------------------
(***************************************************************************)
(* httpd_led.c: a web page with two buttons, one request per connection.    *)
(*                                                                         *)
(* A request is the path it asks for: "on", "off" or any other.  As in      *)
(* secure_cmd.c the Task reads Sn_SR once and acts on what it read.  The    *)
(* LED belongs to the board: commands of the other services blink it        *)
(* between two calls.                                                       *)
(***************************************************************************)
EXTENDS RxBuffer, Sequences

CONSTANTS None, MaxUnits

VARIABLES
  sock, peer,     \* the socket and its client (W5500Server)
  sipr,           \* whether the chip has an address (W5500Server)
  seen,           \* what getSn_SR() returned in this call; Idle between calls
  led

Requests == {"on", "off", "other"}
Pages == [led : BOOLEAN]
INSTANCE W5500Server WITH Answers <- Pages

vars == <<sock, peer, sipr, seen, led>>

Idle == "IDLE"

(* HTTPD_LED_Init() only stores the socket number: the Task opens it. *)
Init == ServerInit /\ seen = Idle /\ led = FALSE

-----------------------------------------------------------------------------
(* HTTPD_LED_Task().                                                        *)

GetStatus == seen = Idle /\ seen' = sock.sr /\ UNCHANGED <<sock, peer, sipr, led>>

Act(status) == seen = status /\ seen' = Idle /\ UNCHANGED sipr

(* What socket() returns is ignored: when it fails the next call tries again.*)
Reopen == Act("CLOSED") /\ sock' = socket(sock) /\ UNCHANGED <<peer, led>>

Listen == Act("INIT") /\ sock' = listen(sock) /\ UNCHANGED <<peer, led>>

(* Mutant of HangUp: no branch for SOCK_CLOSE_WAIT. *)
HangUp_Ignored == Act("CLOSE_WAIT") /\ UNCHANGED <<sock, peer, led>>

HangUp == Act("CLOSE_WAIT") /\ sock' = disconnect(sock) /\ UNCHANGED <<peer, led>>

Ignore ==
  /\ \E status \in {"LISTEN", "CLOSING"} : Act(status)
  /\ UNCHANGED <<sock, peer, led>>

(* recv() finds the connection gone, or nothing yet. *)
ReceiveNothing ==
  /\ Act("ESTABLISHED")
  /\ \/ recv_fails(sock) /\ sock' = close /\ peer' = NoPeer
     \/ ~recv_fails(sock) /\ sock.in = <<>> /\ UNCHANGED <<sock, peer>>
  /\ UNCHANGED led

(* strstr(): the path is found when the whole request is in buf; the first  *)
(* half alone may hold it or break off within.                              *)
paths(data) == IF Len(data) >= 2 THEN {peer.req} ELSE {peer.req, "other"}

(* The LED after a request for path p. *)
Switched(p) == IF p = "other" THEN led ELSE p = "on"

(* Mutant of Serve: the page is built before the LED is switched. *)
Serve_StalePage ==
  /\ Act("ESTABLISHED")
  /\ ~recv_fails(sock) /\ sock.in # <<>>
  /\ \E p \in paths(recv_data(sock)) : led' = Switched(p)
  /\ sock' = disconnect(send(recv_rest(sock), [led |-> led]))
  /\ UNCHANGED peer

(* The LED is switched and read back, the page sent, disconnect(). *)
Serve ==
  /\ Act("ESTABLISHED")
  /\ ~recv_fails(sock) /\ sock.in # <<>>
  /\ \E p \in paths(recv_data(sock)) : led' = Switched(p)
  /\ sock' = disconnect(send(recv_rest(sock), [led |-> led']))
  /\ UNCHANGED peer

HTTPD_LED_Task ==
  \/ GetStatus \/ Reopen \/ Listen \/ HangUp \/ Ignore
  \/ ReceiveNothing \/ Serve

-----------------------------------------------------------------------------
Environment == Network /\ UNCHANGED <<seen, led>>

(* The callbacks of DHCP_run(). *)
Chip == (ChipReset \/ Addressed) /\ UNCHANGED <<seen, led>>

(* do_blink() of the other services turns the LED on and off, between two    *)
(* calls of this Task.                                                      *)
Blink ==
  /\ seen = Idle
  /\ led' \in BOOLEAN
  /\ UNCHANGED <<sock, peer, sipr, seen>>

Next == HTTPD_LED_Task \/ Environment \/ Chip \/ Blink

Spec == Init /\ [][Next]_vars

-----------------------------------------------------------------------------
(* Properties.                                                              *)

(* The types of the variables. *)
TypeOK == ServerTypeOK /\ seen \in Status \cup {Idle} /\ led \in BOOLEAN

(* A client whose request came in one piece gets a page that shows what it  *)
(* asked for, whatever the LED did before and has done since.               *)
ButtonsHonoured ==
  peer.whole /\ peer.req # "other"
    => \A page \in {sock.tx, peer.got} \ {None} : page.led = (peer.req = "on")

(* The connection asks for the LED and has had no answer yet. *)
Pressed == peer.req = "on" /\ sock.tx = None /\ peer.got = None

(* A call of this Task turns the LED on only on behalf of a connection that *)
(* asks for it and has had no answer yet: one press of the button, one      *)
(* switch, although the same request may arrive in the buffer again.        *)
PressedOnce == [][HTTPD_LED_Task /\ ~led /\ led' => Pressed]_vars

(* The one socket of the page becomes free again and again, whatever its    *)
(* clients send and whenever they leave, unless one vanished without a word;*)
(* also after the chip was left without an address, once it has one again.  *)
ListensAgain == ChipSettles => []<>(sock.sr = "LISTEN" \/ Abandoned)
=============================================================================
