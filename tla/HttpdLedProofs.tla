--------------------------- MODULE HttpdLedProofs ---------------------------
(* Proofs about HttpdLed, for every value of its constants.                 *)
EXTENDS HttpdLed, SequenceTheorems, TLAPS

-----------------------------------------------------------------------------
(* The socket.                                                              *)

LEMMA NoPeerType == NoPeer \in Peers
  BY DEF NoPeer, Peers

LEMMA CallTypes ==
  ASSUME NEW sk \in Sockets
  PROVE  /\ close \in Sockets /\ socket(sk) \in Sockets
         /\ listen(sk) \in Sockets /\ disconnect(sk) \in Sockets
         /\ \A page \in Pages : send(sk, page) \in Sockets
<1>1. <<>> \in Seq({1, 2})
  OBVIOUS
<1>2. close \in Sockets /\ socket(sk) \in Sockets
  BY <1>1 DEF close, socket, Sockets, Status
<1> QED BY <1>2 DEF listen, disconnect, send, Sockets, Status

(* recv() takes all there is, up to the size of buf, and leaves the rest.   *)
LEMMA RecvFacts ==
  ASSUME NEW sk \in Sockets
  PROVE  /\ recv_rest(sk) \in Sockets
         /\ recv_rest(sk).sr = sk.sr /\ recv_rest(sk).tx = sk.tx
         /\ Len(sk.in) >= 2 => Len(recv_data(sk)) >= 2
<1> DEFINE k == IF Len(sk.in) < RxUnits THEN Len(sk.in) ELSE RxUnits
<1>1. sk.in \in Seq({1, 2}) /\ Len(sk.in) \in Nat
  BY DEF Sockets
<1>2. k \in Nat /\ k <= Len(sk.in) /\ (Len(sk.in) >= 2 => k >= 2)
  BY <1>1, RxAssumption
<1>3. Len(recv_data(sk)) = k
  <2>1. \A i \in 1 .. k : sk.in[i] \in {1, 2}
    BY <1>1, <1>2, ElementOfSeq
  <2> QED BY <1>1, <1>2, <2>1, SubSeqProperties DEF recv_data
<1> HIDE DEF k
<1>4. SubSeq(sk.in, k + 1, Len(sk.in)) \in Seq({1, 2})
  <2>1. \A i \in k + 1 .. Len(sk.in) : sk.in[i] \in {1, 2}
    BY <1>1, <1>2, ElementOfSeq
  <2> QED BY <1>1, <1>2, <2>1, SubSeqProperties
<1>5. recv_rest(sk) = [sk EXCEPT !.in = SubSeq(sk.in, k + 1, Len(sk.in))]
  BY <1>3 DEF recv_rest
<1> QED BY <1>2, <1>3, <1>4, <1>5 DEF Sockets

-----------------------------------------------------------------------------
(* The inductive invariant.                                                 *)

Free == {"CLOSED", "INIT", "LISTEN"}

(* A socket without a connection has no client, no request and no page. *)
PeerInv == sock.sr \in Free => peer = NoPeer /\ sock.tx = None /\ sock.in = <<>>

(* A socket seen closed stays closed: only the Task opens it. *)
SeenInv == seen = "CLOSED" => sock.sr = "CLOSED"

(* Nothing follows a page but the end of the connection. *)
AnswerInv == sock.tx # None \/ peer.got # None => sock.sr = "CLOSING"

(* Requests that were sent whole are there whole. *)
WholeInv ==
  sock.sr \in Open /\ peer.whole /\ sock.in # <<>> => Len(sock.in) >= 2

(* An open connection has a client that asked something. *)
AskedInv == sock.sr \in Open => peer.req \in Requests

IInv == TypeOK /\ PeerInv /\ SeenInv /\ AnswerInv /\ WholeInv /\ AskedInv
          /\ ButtonsHonoured

LEMMA InitHolds == Init => IInv
<1> SUFFICES ASSUME Init PROVE IInv
  OBVIOUS
<1> USE DEF Init, ServerInit
<1>1. close \in Sockets
  BY DEF close, Sockets, Status
<1>2. TypeOK
  BY <1>1, NoPeerType DEF TypeOK, ServerTypeOK
<1> QED BY <1>2 DEF IInv, PeerInv, SeenInv, AnswerInv, WholeInv, AskedInv,
              ButtonsHonoured, close, NoPeer, Free, Open, Idle

-----------------------------------------------------------------------------
(* Steps, by what they do to the connection.                                *)

(* The connection is gone, if there was one. *)
LEMMA ClosedStep ==
  ASSUME IInv, sock' = close, peer' = NoPeer, led' \in BOOLEAN, sipr' \in BOOLEAN,
         seen' \in Status \cup {Idle}
  PROVE  IInv'
<1>1. TypeOK'
  BY CallTypes, NoPeerType DEF IInv, TypeOK, ServerTypeOK
<1> QED BY <1>1 DEF IInv, PeerInv, SeenInv, AnswerInv, WholeInv, AskedInv,
              ButtonsHonoured, close, NoPeer, Free, Open

(* The socket goes on, with the same client and the same page, if any. *)
LEMMA QuietStep ==
  ASSUME IInv, sock' \in Sockets, led' \in BOOLEAN, peer' = peer, sipr' \in BOOLEAN,
         seen' \in Status \cup {Idle}, seen' = "CLOSED" => sock'.sr = "CLOSED",
         sock'.tx = sock.tx, sock'.in = sock.in,
         \/ sock'.sr = sock.sr
         \/ sock.sr \in Free /\ sock'.sr \in Free
         \/ sock.sr \in Open /\ sock'.sr = "CLOSING"
  PROVE  IInv'
<1>1. TypeOK'
  BY DEF IInv, TypeOK, ServerTypeOK
<1>2. PeerInv' /\ SeenInv' /\ AnswerInv'
  BY DEF IInv, PeerInv, SeenInv, AnswerInv, Free, Open
<1>3. WholeInv' /\ AskedInv'
  BY DEF IInv, WholeInv, AskedInv, Free, Open
<1>4. ButtonsHonoured'
  BY DEF IInv, ButtonsHonoured
<1> QED BY <1>1, <1>2, <1>3, <1>4 DEF IInv

LEMMA NetworkStep == IInv /\ (Environment \/ Chip) => IInv'
<1> SUFFICES ASSUME IInv, Environment \/ Chip PROVE IInv'
  OBVIOUS
<1>1. /\ sock \in Sockets /\ peer \in Peers /\ UNCHANGED <<seen, led>>
      /\ seen' \in Status \cup {Idle} /\ led' \in BOOLEAN /\ sipr' \in BOOLEAN
      /\ sock.in \in Seq({1, 2})
  BY DEF IInv, TypeOK, ServerTypeOK, Environment, Network, Chip, ChipReset, Addressed, Sockets
<1>2. CASE Connect
  <2>1. PICK r \in Requests : peer' = [NoPeer EXCEPT !.up = TRUE, !.req = r]
    BY <1>2 DEF Connect
  <2>2. /\ sock' = [sock EXCEPT !.sr = "ESTABLISHED"] /\ sock.tx = None /\ sock.in = <<>>
        /\ sock.sr = "LISTEN" /\ seen # "CLOSED"
    BY <1>2 DEF Connect, IInv, PeerInv, SeenInv, Free
  <2>3. /\ sock' \in Sockets /\ sock'.sr = "ESTABLISHED" /\ sock'.tx = None
        /\ sock'.in = sock.in
    BY <1>1, <2>2 DEF Sockets, Status
  <2>4. /\ peer' \in Peers /\ peer'.req = r /\ peer'.got = None
    BY <2>1 DEF Peers, NoPeer
  <2>5. TypeOK' /\ PeerInv' /\ SeenInv' /\ AnswerInv' /\ AskedInv' /\ ButtonsHonoured'
    BY <1>1, <2>2, <2>3, <2>4
       DEF TypeOK, ServerTypeOK, PeerInv, SeenInv, AnswerInv, AskedInv,
           ButtonsHonoured, Free
  <2>6. WholeInv'
    BY <2>2, <2>3 DEF WholeInv
  <2> QED BY <2>5, <2>6 DEF IInv
<1>3. CASE ClientSend \/ ClientSendHalf
  <2>1. sock.sr = "ESTABLISHED" /\ sock.tx = None /\ peer.got = None
    BY <1>3 DEF ClientSend, ClientSendHalf, Speaking, IInv, AnswerInv
  <2>2. /\ sock' \in Sockets /\ sock'.sr = sock.sr /\ sock'.tx = sock.tx
        /\ peer' \in Peers /\ peer'.req = peer.req /\ peer'.got = peer.got
        /\ peer'.whole => Len(sock'.in) >= 2
    <3>1. CASE ClientSend
      <4>1. <<1, 2>> \in Seq({1, 2}) /\ Len(<<1, 2>>) = 2
        OBVIOUS
      <4>2. /\ sock.in \o <<1, 2>> \in Seq({1, 2})
            /\ Len(sock.in \o <<1, 2>>) = Len(sock.in) + 2
        BY <1>1, <4>1, ConcatProperties
      <4>3. sock' = [sock EXCEPT !.in = sock.in \o <<1, 2>>] /\ peer' = peer
        BY <3>1 DEF ClientSend
      <4>4. sock'.in = sock.in \o <<1, 2>>
        BY <1>1, <4>3 DEF Sockets
      <4>5. Len(sock'.in) >= 2
        BY <1>1, <4>2, <4>4, LenProperties
      <4> QED BY <1>1, <4>2, <4>3, <4>5 DEF Sockets
    <3>2. CASE ClientSendHalf
      <4>1. Append(sock.in, NextHalf) \in Seq({1, 2})
        BY <1>1 DEF NextHalf
      <4> QED BY <1>1, <3>2, <4>1 DEF ClientSendHalf, Sockets, Peers
    <3> QED BY <1>3, <3>1, <3>2
  <2> QED BY <1>1, <2>1, <2>2
       DEF IInv, TypeOK, ServerTypeOK, PeerInv, SeenInv, AnswerInv, WholeInv,
           AskedInv, ButtonsHonoured, Free, Open
<1>4. CASE ClientFin
  <2>1. /\ sock' \in Sockets /\ sock'.sr = "CLOSE_WAIT" /\ sock'.tx = sock.tx
        /\ sock'.in = sock.in /\ peer' = peer /\ sock.sr = "ESTABLISHED"
    BY <1>1, <1>4 DEF ClientFin, Sockets, Status
  <2> QED BY <1>1, <2>1
       DEF IInv, TypeOK, ServerTypeOK, PeerInv, SeenInv, AnswerInv, WholeInv,
           AskedInv, ButtonsHonoured, Free, Open
<1>5. CASE Lost \/ ChipReset \/ Closed
  <2>1. sock' = close /\ peer' = NoPeer
    BY <1>5 DEF Lost, ChipReset, Closed, IInv, PeerInv, Free
  <2> QED BY <1>1, <2>1, ClosedStep
<1>6. CASE Vanish
  <2>1. /\ peer' \in Peers /\ peer'.req = peer.req /\ peer'.got = peer.got
        /\ peer'.whole = peer.whole /\ sock' = sock /\ sock.sr \notin Free
    <3>1. peer.up /\ peer' = [peer EXCEPT !.up = FALSE] /\ sock' = sock
      BY <1>6 DEF Vanish
    <3>2. peer # NoPeer
      BY <3>1 DEF NoPeer
    <3> QED BY <1>1, <3>1, <3>2 DEF Peers, IInv, PeerInv
  <2> QED BY <1>1, <2>1
       DEF IInv, TypeOK, ServerTypeOK, PeerInv, SeenInv, AnswerInv, WholeInv,
           AskedInv, ButtonsHonoured
<1>7. CASE Deliver
  <2>1. /\ sock' \in Sockets /\ sock'.sr = sock.sr /\ sock'.tx = None
        /\ peer' \in Peers /\ peer'.req = peer.req /\ peer'.got = sock.tx
        /\ peer'.whole = peer.whole /\ sock.tx # None /\ sock.sr = "CLOSING"
    BY <1>1, <1>7 DEF Deliver, Peers, Sockets, IInv, AnswerInv
  <2> QED BY <1>1, <2>1
       DEF IInv, TypeOK, ServerTypeOK, PeerInv, SeenInv, AnswerInv, WholeInv,
           AskedInv, ButtonsHonoured, Free, Open
<1>8. CASE Addressed
  BY <1>1, <1>8 DEF Addressed, IInv, TypeOK, ServerTypeOK, PeerInv, SeenInv, AnswerInv,
       WholeInv, AskedInv, ButtonsHonoured
<1> QED BY <1>2, <1>3, <1>4, <1>5, <1>6, <1>7, <1>8 DEF Environment, Network, Chip

(* A request is served on an open connection that had no page yet. *)
LEMMA ServeStep ==
  ASSUME IInv, Serve
  PROVE  IInv' /\ (~led /\ led' => peer.req = "on")
               /\ sock.tx = None /\ peer.got = None
<1> DEFINE rest == recv_rest(sock)  page == [led |-> led']
<1>1. PICK p \in paths(recv_data(sock)) : led' = Switched(p)
  BY DEF Serve
<1>2. /\ sock \in Sockets /\ peer \in Peers /\ led \in BOOLEAN
      /\ sock.sr \in Open /\ sock.in # <<>> /\ UNCHANGED <<peer, sipr>> /\ seen' = Idle
      /\ sipr \in BOOLEAN
      /\ sock' = disconnect(send(rest, page)) /\ sock.tx = None /\ peer.got = None
  BY DEF Serve, Act, IInv, TypeOK, ServerTypeOK, recv_fails, AnswerInv, Open
<1>3. peer.req \in Requests /\ p \in Requests /\ (p # peer.req => ~peer.whole /\ p = "other")
  <2>1. peer.req \in Requests
    BY <1>2 DEF IInv, AskedInv
  <2>2. peer.whole => Len(recv_data(sock)) >= 2
    BY <1>2, RecvFacts DEF IInv, WholeInv
  <2> QED BY <2>1, <2>2 DEF paths, Requests
<1>4. led' \in BOOLEAN /\ page \in Pages
  BY <1>1, <1>2, <1>3 DEF Switched, Pages, Requests
<1>5. /\ peer.whole /\ peer.req # "other" => led' = (peer.req = "on")
      /\ ~led /\ led' => peer.req = "on"
  BY <1>1, <1>2, <1>3 DEF Switched, Requests
<1>6. rest \in Sockets /\ rest.sr = sock.sr
  BY <1>2, RecvFacts
<1> HIDE DEF rest
<1>7. page.led = led'
  OBVIOUS
<1> HIDE DEF page
<1>8. send(rest, page) \in Sockets /\ send(rest, page).sr = sock.sr
        /\ send(rest, page).tx = page
  BY <1>2, <1>4, <1>6, CallTypes DEF send, Sockets
<1>9. sock' \in Sockets /\ sock'.sr = "CLOSING" /\ sock'.tx = page
  BY <1>2, <1>8, CallTypes DEF disconnect, Sockets
<1>10. TypeOK' /\ PeerInv' /\ SeenInv' /\ AnswerInv' /\ WholeInv' /\ AskedInv'
  BY <1>2, <1>4, <1>9
     DEF TypeOK, ServerTypeOK, PeerInv, SeenInv, AnswerInv, WholeInv, AskedInv,
         Free, Open, Idle
<1>11. ButtonsHonoured'
  BY <1>2, <1>5, <1>7, <1>9 DEF ButtonsHonoured
<1> QED BY <1>2, <1>5, <1>10, <1>11 DEF IInv

LEMMA TaskStep == IInv /\ (HTTPD_LED_Task \/ Blink) => IInv'
<1> SUFFICES ASSUME IInv, HTTPD_LED_Task \/ Blink PROVE IInv'
  OBVIOUS
<1>1. /\ sock \in Sockets /\ peer \in Peers /\ led \in BOOLEAN
      /\ seen \in Status \cup {Idle} /\ sock.sr \in Status /\ sipr \in BOOLEAN
  BY DEF IInv, TypeOK, ServerTypeOK, Sockets
<1>2. CASE GetStatus
  BY <1>1, <1>2, QuietStep DEF GetStatus
<1>3. CASE Reopen
  <2>1. sock.sr = "CLOSED" /\ sock.tx = None /\ sock.in = <<>>
    BY <1>3 DEF Reopen, Act, IInv, SeenInv, PeerInv, Free
  <2>2. sock' \in Sockets /\ sock'.sr \in {"INIT", "CLOSED"} /\ sock'.tx = None /\ sock'.in = <<>>
    BY <1>1, <1>3, <2>1, CallTypes DEF Reopen, socket, close
  <2> QED BY <1>1, <1>3, <2>1, <2>2, QuietStep DEF Reopen, Act, Idle, Free
<1>4. CASE Listen
  <2>1. /\ sock' \in Sockets /\ sock'.tx = sock.tx /\ sock'.in = sock.in
        /\ sock' = sock \/ (sock.sr = "INIT" /\ sock'.sr = "LISTEN")
    BY <1>1, <1>4, CallTypes DEF Listen, listen, Sockets
  <2> QED BY <1>1, <1>4, <2>1, QuietStep DEF Listen, Act, Idle, Free
<1>5. CASE HangUp
  <2>1. /\ sock' \in Sockets /\ sock'.tx = sock.tx /\ sock'.in = sock.in
        /\ sock' = sock \/ (sock.sr \in Open /\ sock'.sr = "CLOSING")
    BY <1>1, <1>5, CallTypes DEF HangUp, disconnect, Sockets
  <2> QED BY <1>1, <1>5, <2>1, QuietStep DEF HangUp, Act, Idle
<1>6. CASE Ignore
  BY <1>1, <1>6, QuietStep DEF Ignore, Act, Idle
<1>7. CASE ReceiveNothing
  BY <1>1, <1>7, QuietStep, ClosedStep DEF ReceiveNothing, Act, Idle
<1>8. CASE Serve
  BY <1>8, ServeStep
<1>9. CASE Blink
  BY <1>1, <1>9, QuietStep DEF Blink, Idle
<1> QED BY <1>2, <1>3, <1>4, <1>5, <1>6, <1>7, <1>8, <1>9 DEF HTTPD_LED_Task

LEMMA StepHolds == IInv /\ [Next]_vars => IInv'
<1> SUFFICES ASSUME IInv, [Next]_vars PROVE IInv'
  OBVIOUS
<1>1. CASE UNCHANGED vars
  BY <1>1 DEF vars, IInv, TypeOK, ServerTypeOK, PeerInv, SeenInv, AnswerInv,
              WholeInv, AskedInv, ButtonsHonoured
<1> QED BY <1>1, NetworkStep, TaskStep DEF Next

LEMMA Invariance == Spec => []IInv
  BY InitHolds, StepHolds, PTL DEF Spec

-----------------------------------------------------------------------------
(* Whoever asked for ON or OFF in one piece sees it on the page. *)
THEOREM ButtonsAreHonoured == Spec => []ButtonsHonoured
<1>1. IInv => ButtonsHonoured
  BY DEF IInv
<1> QED BY <1>1, Invariance, PTL

(* A call that turns the LED on serves a connection that asks for it and    *)
(* that no earlier call has served, whatever the LED did in between.        *)
THEOREM PressedOnceHolds == Spec => PressedOnce
<1>1. IInv /\ [Next]_vars => [HTTPD_LED_Task /\ ~led /\ led' => Pressed]_vars
  <2> SUFFICES ASSUME IInv, HTTPD_LED_Task, ~led, led' PROVE Pressed
    OBVIOUS
  <2>1. Serve
    BY DEF HTTPD_LED_Task, GetStatus, Reopen, Listen, HangUp, Ignore, ReceiveNothing
  <2> QED BY <2>1, ServeStep DEF Pressed
<1> QED BY <1>1, Invariance, PTL DEF Spec, PressedOnce
=============================================================================
