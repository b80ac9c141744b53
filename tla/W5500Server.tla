---------------------------- MODULE W5500Server ----------------------------
(***************************************************************************)
(* A W5500 socket in TCP server mode, opened with SF_IO_NONBLOCK, as the    *)
(* tasks of httpd_led.c and secure_cmd.c use it: the calls of the ioLibrary *)
(* as operators on the socket, and the steps of the chip and of the client  *)
(* at the other end, which may come between any two calls of a task.        *)
(*                                                                         *)
(* A socket takes one client at a time.  A request crosses the network in   *)
(* two halves, 1 and 2, which arrive together or apart; a client may send   *)
(* its request over and over.                                               *)
(***************************************************************************)
EXTENDS Naturals, Sequences

CONSTANTS
  Requests,   \* what a client may ask
  Answers,    \* what a task may send
  None,       \* no request, no answer
  RxUnits,    \* halves that fit in the buffer a task hands to recv()
  MaxUnits    \* bound: halves that a client sends ahead of the task

VARIABLES
  sock,    \* Sn_SR, the unread halves in the RX buffer, the answer in TX
  peer,    \* the client of the connection
  sipr     \* whether the chip has an address: SIPR is not 0.0.0.0

Status == {"CLOSED", "INIT", "LISTEN", "ESTABLISHED", "CLOSE_WAIT", "CLOSING"}
Open == {"ESTABLISHED", "CLOSE_WAIT"}

(* `whole' tells whether every segment so far was one whole request. *)
Peers == [up : BOOLEAN, req : Requests \cup {None}, got : Answers \cup {None},
          whole : BOOLEAN]
NoPeer == [up |-> FALSE, req |-> None, got |-> None, whole |-> TRUE]
Sockets == [sr : Status, in : Seq({1, 2}), tx : Answers \cup {None}]

-----------------------------------------------------------------------------
(* The ioLibrary.                                                           *)

close == [sr |-> "CLOSED", in |-> <<>>, tx |-> None]

(* socket() for TCP is an error while the chip has no address; otherwise it *)
(* closes whatever is open first.                                           *)
socket(sk) == IF sipr THEN [close EXCEPT !.sr = "INIT"] ELSE sk

(* listen() on a socket that is not in SOCK_INIT is an error. *)
listen(sk) == IF sk.sr = "INIT" THEN [sk EXCEPT !.sr = "LISTEN"] ELSE sk

(* recv(): an error closes the socket. *)
recv_fails(sk) == sk.sr \notin Open \/ (sk.sr = "CLOSE_WAIT" /\ sk.in = <<>>)
recv_data(sk) ==
  SubSeq(sk.in, 1, IF Len(sk.in) < RxUnits THEN Len(sk.in) ELSE RxUnits)
recv_rest(sk) ==
  [sk EXCEPT !.in = SubSeq(@, Len(recv_data(sk)) + 1, Len(@))]

(* send() on a socket without a connection is an error that nobody reads.   *)
(* An answer always fits in the TX buffer of 2 KB.                          *)
send(sk, answer) == IF sk.sr \in Open THEN [sk EXCEPT !.tx = answer] ELSE sk

(* disconnect() starts the closing handshake and does not wait for it. *)
disconnect(sk) == IF sk.sr \in Open THEN [sk EXCEPT !.sr = "CLOSING"] ELSE sk

-----------------------------------------------------------------------------
(* The client, and the chip.                                                *)

(* Network_Config() does not return before the chip has an address. *)
ServerInit == sock = close /\ peer = NoPeer /\ sipr = TRUE

Connect ==
  /\ sock.sr = "LISTEN"
  /\ sock' = [sock EXCEPT !.sr = "ESTABLISHED"]
  /\ \E r \in Requests : peer' = [NoPeer EXCEPT !.up = TRUE, !.req = r]

Speaking == sock.sr = "ESTABLISHED" /\ peer.up /\ Len(sock.in) < MaxUnits

(* The half that comes next in the stream: a task never takes an odd number *)
(* of halves without closing the connection.                                *)
NextHalf == IF Len(sock.in) % 2 = 0 THEN 1 ELSE 2

ClientSend ==
  /\ Speaking /\ NextHalf = 1
  /\ sock' = [sock EXCEPT !.in = @ \o <<1, 2>>]
  /\ UNCHANGED peer

ClientSendHalf ==
  /\ Speaking
  /\ sock' = [sock EXCEPT !.in = Append(@, NextHalf)]
  /\ peer' = [peer EXCEPT !.whole = FALSE]

(* The client closes its side; it still hears the answer. *)
ClientFin ==
  /\ sock.sr = "ESTABLISHED" /\ peer.up
  /\ sock' = [sock EXCEPT !.sr = "CLOSE_WAIT"]
  /\ UNCHANGED peer

(* A RST: the connection and its data are gone. *)
Lost ==
  /\ sock.sr \in Open \cup {"CLOSING"}
  /\ sock' = close /\ peer' = NoPeer

(* default_ip_update() and default_ip_conflict() reset the chip: whatever   *)
(* the socket was doing, it is closed.  The one gives the chip an address   *)
(* anew, the other leaves it without.                                       *)
ChipReset == sock' = close /\ peer' = NoPeer /\ sipr' \in BOOLEAN

(* default_ip_assign(): a lease. *)
Addressed == sipr' = TRUE /\ UNCHANGED <<sock, peer>>

(* The client's host disappears without a word. *)
Vanish ==
  /\ peer.up
  /\ peer' = [peer EXCEPT !.up = FALSE]
  /\ UNCHANGED sock

Deliver ==
  /\ sock.tx # None /\ peer.up
  /\ sock' = [sock EXCEPT !.tx = None]
  /\ peer' = [peer EXCEPT !.got = sock.tx]

(* The closing handshake ends, or times out when nobody answers. *)
Closed ==
  /\ sock.sr = "CLOSING" /\ (sock.tx = None \/ ~peer.up)
  /\ sock' = close /\ peer' = NoPeer

Network ==
  /\ \/ Connect \/ ClientSend \/ ClientSendHalf \/ ClientFin
     \/ Lost \/ Vanish \/ Deliver \/ Closed
  /\ UNCHANGED sipr

(* Somebody connects again and again, a client that is still there sends or *)
(* leaves, TCP delivers, and a closing handshake ends.                      *)
NetworkFairness ==
  /\ WF_<<sock, peer>>(Connect)
  /\ WF_<<sock, peer>>(ClientSend \/ ClientSendHalf \/ ClientFin)
  /\ WF_<<sock, peer>>(Deliver) /\ WF_<<sock, peer>>(Closed)

ServerTypeOK == sock \in Sockets /\ peer \in Peers /\ sipr \in BOOLEAN

(* The chip is not reset for ever, and has an address in the end. *)
ChipSettles == <>[]sipr /\ <>[][~ChipReset]_<<sock, peer, sipr>>

(* The client vanished before it sent anything: nothing is in flight that   *)
(* could time out, and the socket waits for it for ever.                    *)
Abandoned ==
  sock.sr = "ESTABLISHED" /\ sock.in = <<>> /\ sock.tx = None /\ ~peer.up
=============================================================================
