-------------------------- MODULE SecureCmdProofs --------------------------
(* Proofs about SecureCmd, for every value of its constants.                *)
EXTENDS SecureCmd, CommandsProofs, SequenceTheorems

-----------------------------------------------------------------------------
(* The ioLibrary's calls keep the socket's type.                            *)

LEMMA CallTypes ==
  ASSUME NEW sk \in Sockets
  PROVE  /\ close \in Sockets /\ socket(sk) \in Sockets
         /\ listen(sk) \in Sockets /\ disconnect(sk) \in Sockets
         /\ \A a \in Replies : send(sk, a) \in Sockets
<1>1. <<>> \in Seq({1, 2})
  OBVIOUS
<1>2. close \in Sockets /\ socket(sk) \in Sockets
  BY <1>1 DEF close, socket, Sockets, Status
<1> QED BY <1>2 DEF listen, disconnect, send, Sockets, Status

(* A part of a sequence of halves. *)
LEMMA PartOfSeq ==
  ASSUME NEW s \in Seq({1, 2}), NEW m \in 1 .. Len(s) + 1, NEW n \in 0 .. Len(s)
  PROVE  SubSeq(s, m, n) \in Seq({1, 2})
<1>1. \A i \in m .. n : s[i] \in {1, 2}
  BY ElementOfSeq
<1> QED BY <1>1, SubSeqProperties

LEMMA RestType == ASSUME NEW sk \in Sockets PROVE recv_rest(sk) \in Sockets
<1> DEFINE k == IF Len(sk.in) < RxUnits THEN Len(sk.in) ELSE RxUnits
<1>1. sk.in \in Seq({1, 2}) /\ Len(sk.in) \in Nat
  BY DEF Sockets
<1>2. k \in Nat /\ k <= Len(sk.in)
  BY <1>1, RxAssumption
<1>3. Len(recv_data(sk)) = k
  <2>1. \A i \in 1 .. k : sk.in[i] \in {1, 2}
    BY <1>1, <1>2, ElementOfSeq
  <2> QED BY <1>1, <1>2, <2>1, SubSeqProperties DEF recv_data
<1> HIDE DEF k
<1>4. SubSeq(sk.in, k + 1, Len(sk.in)) \in Seq({1, 2})
  BY <1>1, <1>2, PartOfSeq
<1>5. recv_rest(sk) = [sk EXCEPT !.in = SubSeq(sk.in, k + 1, Len(sk.in))]
  BY <1>3 DEF recv_rest
<1> QED BY <1>4, <1>5 DEF Sockets

(* What a client sends is made of halves. *)
LEMMA SendTypes ==
  ASSUME NEW sk \in Sockets, NEW h \in {1, 2}
  PROVE  /\ [sk EXCEPT !.in = @ \o <<1, 2>>] \in Sockets
         /\ [sk EXCEPT !.in = Append(@, h)] \in Sockets
<1>1. sk.in \in Seq({1, 2}) /\ <<1, 2>> \in Seq({1, 2})
  BY DEF Sockets
<1>2. sk.in \o <<1, 2>> \in Seq({1, 2}) /\ Append(sk.in, h) \in Seq({1, 2})
  BY <1>1
<1> QED BY <1>2 DEF Sockets

-----------------------------------------------------------------------------
(* The inductive invariant.                                                 *)

Free == {"CLOSED", "INIT", "LISTEN"}

(* A socket without a connection has no client, one with a connection has.  *)
PeerInv ==
  /\ sock.sr \in Free => peer = NoPeer /\ sock.tx = None
  /\ sock.sr \notin Free => peer.req \in Requests

(* A socket seen closed stays closed: only the Task opens it. *)
SeenInv == seen = "CLOSED" => sock.sr = "CLOSED"

(* Nothing follows an answer but the end of the connection. *)
AnswerInv == sock.tx # None \/ peer.got # None => sock.sr = "CLOSING"

(* A command runs for the client that sent it, or for none: as long as it   *)
(* runs, nobody reopens the socket.                                         *)
ExecInv ==
  /\ exec # NoCommand =>
       /\ seen = "ESTABLISHED" /\ exec.cmd \in ClientCommands
       /\ sock.sr \in Open \cup {"CLOSED"}
       /\ sock.sr \in Open => peer.req = exec.cmd
  /\ exec.lit => exec.left > 0

IInv == TypeOK /\ PeerInv /\ SeenInv /\ AnswerInv /\ ExecInv
          /\ RepliesEarned /\ ForgedRefused

LEMMA NoPeerType == NoPeer \in Peers
  BY DEF NoPeer, Peers

LEMMA NoCommandFields == NoCommand.lit = FALSE /\ NoCommand.left = 0
  BY DEF NoCommand

LEMMA InitHolds == Init => IInv
<1> SUFFICES ASSUME Init PROVE IInv
  OBVIOUS
<1> USE DEF Init, ServerInit
<1>1. close \in Sockets
  BY DEF close, Sockets, Status
<1>2. TypeOK
  BY <1>1, NoPeerType, CommandsAssumption
     DEF TypeOK, ServerTypeOK, Executions, Ulongs, Status
<1>3. PeerInv /\ SeenInv /\ AnswerInv
  BY DEF PeerInv, SeenInv, AnswerInv, close, NoPeer, Free, Idle
<1>4. ExecInv
  BY NoCommandFields, Zenon DEF ExecInv
<1>5. RepliesEarned /\ ForgedRefused
  BY DEF RepliesEarned, ForgedRefused, close, NoPeer
<1> QED BY <1>2, <1>3, <1>4, <1>5 DEF IInv

-----------------------------------------------------------------------------
(* The steps of the chip and of the client.                                 *)

LEMMA NetworkStep == IInv /\ (Environment \/ Chip) => IInv'
<1> SUFFICES ASSUME IInv, Environment \/ Chip PROVE IInv'
  OBVIOUS
<1> USE DEF IInv
<1>1. /\ sock \in Sockets /\ peer \in Peers /\ sipr' \in BOOLEAN
      /\ UNCHANGED <<seen, exec, s_total_blinks, led>>
  BY DEF TypeOK, ServerTypeOK, Environment, Network, Chip, ChipReset, Addressed
<1>2. Connect \/ ClientSend \/ ClientSendHalf \/ ClientFin
      \/ Lost \/ ChipReset \/ Addressed \/ Vanish \/ Deliver \/ Closed
  BY DEF Environment, Network, Chip
<1>3. sock' \in Sockets /\ peer' \in Peers
  <2>1. CASE Connect
    BY <1>1, <2>1 DEF Connect, Sockets, Status, Peers, NoPeer
  <2>2. CASE ClientSend
    BY <1>1, <2>2, SendTypes DEF ClientSend
  <2>3. CASE ClientSendHalf
    <3>1. NextHalf \in {1, 2}
      BY DEF NextHalf
    <3>2. sock' \in Sockets
      BY <1>1, <2>3, <3>1, SendTypes DEF ClientSendHalf
    <3>3. peer' \in Peers
      BY <1>1, <2>3 DEF ClientSendHalf, Peers
    <3> QED BY <3>2, <3>3
  <2>4. CASE ClientFin
    BY <1>1, <2>4 DEF ClientFin, Sockets, Status
  <2>5. CASE Lost \/ ChipReset \/ Closed
    BY <1>1, <2>5, CallTypes, NoPeerType DEF Lost, ChipReset, Closed
  <2>6. CASE Vanish
    BY <1>1, <2>6 DEF Vanish, Peers
  <2>7. CASE Deliver
    BY <1>1, <2>7 DEF Deliver, Peers, Sockets
  <2>8. CASE Addressed
    BY <1>1, <2>8 DEF Addressed
  <2> QED BY <1>2, <2>1, <2>2, <2>3, <2>4, <2>5, <2>6, <2>7, <2>8
<1>4. TypeOK'
  BY <1>1, <1>3 DEF TypeOK, ServerTypeOK
(* The connection is taken up, kept, on its way out, or gone. *)
<1>5. \/ sock.sr = "LISTEN" /\ Connect
      \/ /\ sock.sr \notin Free /\ sock'.sr \notin Free
         /\ sock'.sr = sock.sr \/ (sock.sr \in Open /\ sock'.sr \in Open)
         /\ peer'.req = peer.req
         /\ \/ sock'.tx = sock.tx /\ peer'.got = peer.got
            \/ sock'.tx = None /\ peer'.got = sock.tx
      \/ sock' = close /\ peer' = NoPeer
      \/ UNCHANGED <<sock, peer>>
  <2>1. CASE ClientSend \/ ClientSendHalf \/ ClientFin
    BY <1>1, <2>1 DEF ClientSend, ClientSendHalf, ClientFin, Speaking, Sockets, Peers, Free, Open
  <2>2. CASE Vanish
    BY <1>1, <2>2 DEF Vanish, PeerInv, NoPeer, Peers
  <2>3. CASE Deliver
    BY <1>1, <2>3 DEF Deliver, PeerInv, Sockets, Peers
  <2>4. CASE Lost \/ ChipReset \/ Closed
    BY <2>4 DEF Lost, ChipReset, Closed, PeerInv, Free
  <2> QED BY <1>2, <2>1, <2>2, <2>3, <2>4 DEF Connect, Addressed
<1>6. CASE sock.sr = "LISTEN" /\ Connect
  <2>1. /\ sock' = [sock EXCEPT !.sr = "ESTABLISHED"] /\ sock.tx = None
        /\ exec = NoCommand /\ seen # "CLOSED"
    BY <1>6 DEF Connect, PeerInv, Free, ExecInv, SeenInv, Open
  <2>2. PICK r \in Requests : peer' = [NoPeer EXCEPT !.up = TRUE, !.req = r]
    BY <1>6 DEF Connect
  <2>3. sock'.sr = "ESTABLISHED" /\ sock'.tx = None /\ peer'.req = r /\ peer'.got = None
    BY <1>1, <2>1, <2>2 DEF Sockets, NoPeer
  <2> QED BY <1>1, <1>4, <2>1, <2>3
          DEF PeerInv, SeenInv, AnswerInv, ExecInv, RepliesEarned, ForgedRefused, Free
<1>7. CASE /\ sock.sr \notin Free /\ sock'.sr \notin Free
           /\ sock'.sr = sock.sr \/ (sock.sr \in Open /\ sock'.sr \in Open)
           /\ peer'.req = peer.req
           /\ \/ sock'.tx = sock.tx /\ peer'.got = peer.got
              \/ sock'.tx = None /\ peer'.got = sock.tx
  <2>1. PeerInv' /\ SeenInv' /\ AnswerInv'
    BY <1>1, <1>7 DEF PeerInv, SeenInv, AnswerInv, Free, Open
  <2>2. ExecInv'
    BY <1>1, <1>7 DEF ExecInv, Free
  <2>3. RepliesEarned' /\ ForgedRefused'
    BY <1>1, <1>7 DEF RepliesEarned, Earned, ForgedRefused
  <2> QED BY <1>4, <2>1, <2>2, <2>3
<1>8. CASE sock' = close /\ peer' = NoPeer
  <2>1. sock'.sr = "CLOSED" /\ sock'.tx = None /\ peer'.got = None /\ peer'.req = None
    BY <1>8 DEF close, NoPeer
  <2>2. PeerInv' /\ SeenInv' /\ AnswerInv'
    BY <1>8, <2>1 DEF PeerInv, SeenInv, AnswerInv, Free
  <2>3. ExecInv'
    BY <1>1, <2>1 DEF ExecInv, Open
  <2>4. RepliesEarned' /\ ForgedRefused'
    BY <2>1, SecureAssumption DEF RepliesEarned, ForgedRefused
  <2> QED BY <1>4, <2>2, <2>3, <2>4
<1>9. CASE UNCHANGED <<sock, peer>>
  BY <1>1, <1>4, <1>9
     DEF PeerInv, SeenInv, AnswerInv, ExecInv, RepliesEarned, Earned, ForgedRefused
<1> QED BY <1>5, <1>6, <1>7, <1>8, <1>9

-----------------------------------------------------------------------------
(* The steps of the Task.                                                   *)

(* disconnect() ends the connection, if there is one, and keeps the rest.   *)
LEMMA DisconnectFacts ==
  ASSUME NEW sk \in Sockets
  PROVE  /\ sk.sr \in Open => disconnect(sk).sr = "CLOSING"
         /\ sk.sr \notin Open => disconnect(sk) = sk
         /\ disconnect(sk).tx = sk.tx
  BY DEF disconnect, Sockets

(* Steps that leave the client and the command alone, and change the socket *)
(* at most as listen() or disconnect() do.                                  *)
LEMMA QuietStep ==
  ASSUME IInv, UNCHANGED <<peer, sipr, exec, s_total_blinks, led>>, exec = NoCommand,
         seen' \in Status \cup {Idle}, sock' \in Sockets,
         seen' = "CLOSED" => sock'.sr = "CLOSED",
         sock'.tx = sock.tx,
         \/ sock'.sr = sock.sr
         \/ sock.sr \in Free /\ sock'.sr \in Free
         \/ sock.sr \in Open /\ sock'.sr = "CLOSING"
  PROVE  IInv'
<1> USE DEF IInv
<1>1. TypeOK'
  BY DEF TypeOK, ServerTypeOK
<1>2. PeerInv' /\ SeenInv' /\ AnswerInv'
  BY DEF PeerInv, SeenInv, AnswerInv, Free, Open
<1>3. ExecInv'
  BY DEF ExecInv
<1>4. RepliesEarned' /\ ForgedRefused'
  BY DEF RepliesEarned, Earned, ForgedRefused
<1> QED BY <1>1, <1>2, <1>3, <1>4

LEMMA TaskStep == IInv /\ SecureCmd_Task => IInv'
<1> SUFFICES ASSUME IInv, SecureCmd_Task PROVE IInv'
  OBVIOUS
<1>1. /\ sock \in Sockets /\ peer \in Peers /\ exec \in Executions
      /\ seen \in Status \cup {Idle} /\ s_total_blinks \in Ulongs /\ led \in BOOLEAN
      /\ sipr \in BOOLEAN
  BY DEF IInv, TypeOK, ServerTypeOK
<1>2. sock.sr \in Status
  BY <1>1 DEF Sockets
<1>3. CASE GetStatus
  <2>1. exec = NoCommand
    BY <1>3 DEF GetStatus, IInv, ExecInv, Idle
  <2> QED BY <1>1, <1>2, <1>3, <2>1, QuietStep DEF GetStatus
<1>4. CASE Reopen
  <2>1. sock.sr = "CLOSED" /\ sock.tx = None /\ exec = NoCommand
    BY <1>4 DEF Reopen, Act, IInv, SeenInv, PeerInv, Free
  <2>2. sock' \in Sockets /\ sock'.sr \in {"INIT", "CLOSED"} /\ sock'.tx = None
    BY <1>1, <1>4, <2>1, CallTypes DEF Reopen, socket, close
  <2> QED BY <1>4, <2>1, <2>2, QuietStep DEF Reopen, Act, Idle, Free
<1>5. CASE Listen
  <2>1. /\ sock' \in Sockets /\ sock'.tx = sock.tx
        /\ sock'.sr = sock.sr \/ (sock.sr = "INIT" /\ sock'.sr = "LISTEN")
    BY <1>1, <1>5, CallTypes DEF Listen, listen, Sockets
  <2> QED BY <1>5, <2>1, QuietStep DEF Listen, Act, Idle, Free
<1>6. CASE HangUp
  <2>1. /\ sock' \in Sockets /\ sock'.tx = sock.tx
        /\ sock'.sr = sock.sr \/ (sock.sr \in Open /\ sock'.sr = "CLOSING")
    BY <1>1, <1>6, CallTypes, DisconnectFacts DEF HangUp
  <2> QED BY <1>6, <2>1, QuietStep DEF HangUp, Act, Idle
<1>7. CASE Ignore
  BY <1>1, <1>7, QuietStep DEF Ignore, Act, Idle
<1>8. CASE ReceiveNothing
  <2>1. CASE UNCHANGED <<sock, peer>>
    BY <1>1, <1>8, <2>1, QuietStep DEF ReceiveNothing, Act, Idle
  <2>2. CASE sock' = close /\ peer' = NoPeer
    <3>1. /\ sock'.sr = "CLOSED" /\ sock'.tx = None
          /\ peer'.got = None /\ peer'.req = None
          /\ exec' = NoCommand /\ seen' = Idle
      BY <1>8, <2>2 DEF close, NoPeer, ReceiveNothing, Act
    <3>2. TypeOK'
      BY <1>1, <1>8, <2>2, <3>1, CallTypes, NoPeerType
         DEF TypeOK, ServerTypeOK, ReceiveNothing, Act
    <3>3. PeerInv' /\ SeenInv' /\ AnswerInv'
      BY <2>2, <3>1 DEF PeerInv, SeenInv, AnswerInv, Free, Idle
    <3>4. ExecInv'
      BY <3>1, NoCommandFields, Zenon DEF ExecInv
    <3>5. RepliesEarned' /\ ForgedRefused'
      BY <3>1, SecureAssumption DEF RepliesEarned, ForgedRefused
    <3> QED BY <3>2, <3>3, <3>4, <3>5 DEF IInv
  <2> QED BY <1>8, <2>1, <2>2 DEF ReceiveNothing
<1>9. CASE ReceiveBad
  <2>1. recv_rest(sock) \in Sockets
    BY <1>1, RestType
  <2>2. recv_rest(sock).sr = sock.sr /\ recv_rest(sock).tx = sock.tx
    BY <1>1 DEF recv_rest, Sockets
  <2>3. sock.sr \in Open
    BY <1>9 DEF ReceiveBad, recv_fails
  <2>4. sock' \in Sockets /\ sock'.tx = sock.tx /\ sock'.sr = "CLOSING"
    BY <1>9, <2>1, <2>2, <2>3, CallTypes, DisconnectFacts DEF ReceiveBad
  <2> QED BY <1>9, <2>3, <2>4, QuietStep DEF ReceiveBad, Act, Idle
<1>10. CASE ReceiveCommand
  <2> DEFINE cmd == decrypt_packet(recv_data(sock))
  <2>1. /\ sock.sr \in Open /\ sock' = recv_rest(sock) /\ seen = "ESTABLISHED"
        /\ UNCHANGED <<peer, sipr, seen, s_total_blinks, led>>
        /\ cmd # None /\ exec' = [cmd |-> cmd, left |-> Blinked(cmd), lit |-> FALSE]
    BY <1>10 DEF ReceiveCommand, recv_fails
  <2>2. cmd = peer.req /\ cmd \in ClientCommands
    BY <2>1 DEF decrypt_packet, IInv, PeerInv, Free, Open, Requests
  <2>3. sock' \in Sockets /\ sock'.sr = sock.sr /\ sock'.tx = sock.tx
    BY <1>1, <2>1, RestType DEF recv_rest, Sockets
  <2> HIDE DEF cmd
  <2>4. exec' \in Executions /\ exec'.cmd = cmd
    <3>1. cmd \in Commands /\ Blinked(cmd) \in 0 .. BLINK_MAX
      BY <2>2, SecureAssumption, BlinkedType
    <3> QED BY <2>1, <3>1 DEF Executions
  <2>5. sock.tx = None /\ peer.got = None
    BY <2>1 DEF IInv, AnswerInv, Open
  <2>6. TypeOK'
    BY <1>1, <2>1, <2>3, <2>4 DEF TypeOK, ServerTypeOK
  <2>7. PeerInv' /\ SeenInv' /\ AnswerInv'
    BY <2>1, <2>3 DEF IInv, PeerInv, SeenInv, AnswerInv
  <2>8. ExecInv'
    BY <2>1, <2>2, <2>3, <2>4 DEF ExecInv
  <2>9. RepliesEarned'
    BY <2>1, <2>3, <2>5 DEF RepliesEarned
  <2>10. ForgedRefused'
    BY <2>1, <2>2, SecureAssumption DEF ForgedRefused
  <2> QED BY <2>6, <2>7, <2>8, <2>9, <2>10 DEF IInv
<1>11. CASE BlinkOn \/ BlinkOff
  <2>1. exec # NoCommand
    BY <1>11 DEF BlinkOn, BlinkOff, NoCommand
  <2>2. exec \in [cmd : Commands, left : 0 .. BLINK_MAX, lit : BOOLEAN] /\ exec.left > 0
    BY <1>1, <1>11, <2>1 DEF Executions, BlinkOn, BlinkOff, IInv, ExecInv
  <2>3. /\ exec' \in [cmd : Commands, left : 0 .. BLINK_MAX, lit : BOOLEAN]
        /\ exec'.cmd = exec.cmd /\ (exec'.lit => exec'.left > 0)
        /\ UNCHANGED <<sock, peer, sipr, seen, s_total_blinks>> /\ led' \in BOOLEAN
    <3>1. CASE BlinkOn
      BY <2>2, <3>1 DEF BlinkOn
    <3>2. CASE BlinkOff
      <4>1. exec' = [exec EXCEPT !.lit = FALSE, !.left = @ - 1] /\ led' = FALSE
            /\ UNCHANGED <<sock, peer, sipr, seen, s_total_blinks>>
        BY <3>2 DEF BlinkOff
      <4>2. exec'.lit = FALSE
        BY <2>2, <4>1
      <4>3. exec.left - 1 \in 0 .. BLINK_MAX
        BY <2>2, CommandsAssumption
      <4>4. exec' = [cmd |-> exec.cmd, left |-> exec.left - 1, lit |-> FALSE]
        BY <2>2, <4>1
      <4>5. exec' \in [cmd : Commands, left : 0 .. BLINK_MAX, lit : BOOLEAN] /\ exec'.cmd = exec.cmd
        BY <2>2, <4>3, <4>4
      <4> QED BY <4>1, <4>2, <4>5
    <3> QED BY <1>11, <3>1, <3>2
  <2>4. TypeOK'
    BY <1>1, <2>3 DEF TypeOK, ServerTypeOK, Executions
  <2>5. PeerInv' /\ SeenInv' /\ AnswerInv' /\ ExecInv'
    BY <2>1, <2>3 DEF IInv, PeerInv, SeenInv, AnswerInv, ExecInv
  <2>6. RepliesEarned' /\ ForgedRefused'
    BY <2>1, <2>3 DEF IInv, RepliesEarned, Earned, ForgedRefused
  <2> QED BY <2>4, <2>5, <2>6 DEF IInv
<1>12. CASE Respond
  <2> DEFINE a == Reply(exec.cmd, s_total_blinks)
  <2>1. /\ exec # NoCommand /\ exec.cmd \in ClientCommands /\ exec.cmd \in Commands
        /\ sock.sr \in Open \cup {"CLOSED"} /\ sock.tx = None
        /\ sock.sr \in Open => peer.req = exec.cmd
        /\ peer.got = None
    BY <1>12, SecureAssumption
       DEF Respond, IInv, ExecInv, AnswerInv, Open
  <2>2. /\ s_total_blinks' = TotalAfter(exec.cmd, s_total_blinks)
        /\ s_total_blinks' \in Ulongs /\ a \in Replies
    BY <1>1, <1>12, <2>1, TotalType, ReplyType DEF Respond
  <2>3. /\ sock' = disconnect(send(sock, a)) \/ sock' = disconnect(sock)
        /\ seen' = Idle /\ exec' = NoCommand /\ UNCHANGED <<peer, sipr, led>>
    BY <1>12 DEF Respond, Finished, encrypt_packet
  <2> HIDE DEF a
  <2>4. \/ sock' = sock /\ sock.sr = "CLOSED"
        \/ /\ sock.sr \in Open /\ sock' \in Sockets /\ sock'.sr = "CLOSING"
           /\ sock'.tx \in {None, a}
    <3>1. send(sock, a) \in Sockets
      BY <1>1, <2>2, CallTypes
    <3>2. CASE sock.sr \in Open
      <4>1. send(sock, a).sr = sock.sr /\ send(sock, a).tx = a
        BY <1>1, <3>2 DEF send, Sockets
      <4> QED BY <1>1, <2>1, <2>3, <3>1, <3>2, <4>1, CallTypes, DisconnectFacts
    <3>3. CASE sock.sr = "CLOSED"
      <4>1. send(sock, a) = sock
        BY <3>3 DEF send, Open
      <4>2. sock.sr \notin Open
        BY <3>3 DEF Open
      <4> QED BY <1>1, <2>3, <3>3, <4>1, <4>2, DisconnectFacts
    <3> QED BY <2>1, <3>2, <3>3
  <2>5. TypeOK'
    BY <1>1, <2>2, <2>3, <2>4 DEF TypeOK, ServerTypeOK, Executions
  <2>6. PeerInv' /\ SeenInv' /\ AnswerInv'
    BY <2>1, <2>3, <2>4
       DEF IInv, PeerInv, SeenInv, AnswerInv, Free, Open, Idle
  <2>10. ExecInv'
    BY <2>3, NoCommandFields, Zenon DEF ExecInv
  <2>7. sock'.tx # None => sock'.tx = a /\ peer.req = exec.cmd
    BY <2>1, <2>4
  <2>8. RepliesEarned'
    <3>1. \E t \in Ulongs : a = Reply(exec.cmd, t) /\ s_total_blinks' = TotalAfter(exec.cmd, t)
      BY <1>1, <2>2 DEF a
    <3> QED BY <2>1, <2>3, <2>7, <3>1 DEF RepliesEarned, Earned
  <2>9. ForgedRefused'
    BY <2>1, <2>3, <2>7, SecureAssumption DEF ForgedRefused
  <2> QED BY <2>5, <2>6, <2>8, <2>9, <2>10 DEF IInv
<1> QED BY <1>3, <1>4, <1>5, <1>6, <1>7, <1>8, <1>9, <1>10, <1>11, <1>12 DEF SecureCmd_Task

-----------------------------------------------------------------------------
LEMMA StepHolds == IInv /\ [Next]_vars => IInv'
<1> SUFFICES ASSUME IInv, [Next]_vars PROVE IInv'
  OBVIOUS
<1>1. CASE UNCHANGED vars
  BY <1>1 DEF vars, IInv, TypeOK, ServerTypeOK, PeerInv, SeenInv, AnswerInv,
              ExecInv, RepliesEarned, Earned, ForgedRefused
<1>2. CASE OtherTasks
  BY <1>2 DEF OtherTasks, IInv, TypeOK, ServerTypeOK, PeerInv, SeenInv, AnswerInv,
              ExecInv, RepliesEarned, Earned, ForgedRefused
<1> QED BY <1>1, <1>2, NetworkStep, TaskStep DEF Next

LEMMA Invariance == Spec => []IInv
  BY InitHolds, StepHolds, PTL DEF Spec

(* The variables keep their types: the blink counter of the Task stays a    *)
(* 32-bit number, a command never blinks more often than BLINK_MAX.         *)
THEOREM TypeCorrect == Spec => []TypeOK
<1>1. IInv => TypeOK
  BY DEF IInv
<1> QED BY <1>1, Invariance, PTL

(* A client gets the reply of its own command or none, wherever connections *)
(* are lost while SecureCmd_Task() is executing.                            *)
THEOREM RepliesAreEarned == Spec => []RepliesEarned
<1>1. IInv => RepliesEarned
  BY DEF IInv
<1> QED BY <1>1, Invariance, PTL

(* A packet that does not authenticate has no effect and no answer. *)
THEOREM ForgedAreRefused == Spec => []ForgedRefused
<1>1. IInv => ForgedRefused
  BY DEF IInv
<1> QED BY <1>1, Invariance, PTL

-----------------------------------------------------------------------------
(* One command per connection.                                              *)

(* A socket without a connection has nothing to read. *)
FreshInv == sock.sr \in Free => sock.in = <<>>

LEMMA HalfClosed ==
  ASSUME NEW sk \in Sockets
  PROVE  /\ recv_rest(sk).sr = sk.sr
         /\ disconnect(sk).in = sk.in
         /\ disconnect(sk).sr = sk.sr \/ disconnect(sk).sr = "CLOSING"
         /\ disconnect(sk).sr \notin Open
         /\ \A a : send(sk, a).sr = sk.sr /\ send(sk, a).in = sk.in
  BY DEF recv_rest, disconnect, send, Sockets, Open

(* Respond ends in disconnect(), with or without a reply. *)
LEMMA RespondSends ==
  ASSUME IInv, Respond
  PROVE  \E sk \in Sockets : sock' = disconnect(sk) /\ sk.sr = sock.sr /\ sk.in = sock.in
<1> DEFINE a == Reply(exec.cmd, s_total_blinks)
<1>1. a \in Replies /\ sock \in Sockets
  BY SecureAssumption, ReplyType DEF Respond, IInv, ExecInv, TypeOK, ServerTypeOK
<1>2. sock' = disconnect(send(sock, a)) \/ sock' = disconnect(sock)
  BY DEF Respond, Finished, encrypt_packet
<1> HIDE DEF a
<1> QED BY <1>1, <1>2, CallTypes, HalfClosed

LEMMA FreshStep == IInv /\ FreshInv /\ [Next]_vars => FreshInv'
<1> SUFFICES ASSUME IInv, FreshInv, [Next]_vars PROVE FreshInv'
  OBVIOUS
<1>0. sock \in Sockets /\ sock.sr \in Status
  BY DEF IInv, TypeOK, ServerTypeOK, Sockets
<1> USE DEF FreshInv
<1>1. CASE Reopen \/ ReceiveNothing \/ Lost \/ ChipReset \/ Closed
  BY <1>1 DEF Reopen, ReceiveNothing, Lost, ChipReset, Closed, socket, close
<1>2. CASE \/ GetStatus \/ Ignore \/ BlinkOn \/ BlinkOff \/ OtherTasks
           \/ Vanish \/ Addressed \/ UNCHANGED vars
  BY <1>2 DEF GetStatus, Ignore, BlinkOn, BlinkOff, OtherTasks, Vanish, Addressed, vars
<1>3. CASE Listen
  BY <1>0, <1>3 DEF Listen, listen, Sockets, Free
<1>4. CASE Connect \/ ClientSend \/ ClientSendHalf \/ ClientFin
  BY <1>0, <1>4 DEF Connect, ClientSend, ClientSendHalf, ClientFin, Speaking, Sockets, Free
<1>5. CASE Deliver
  BY <1>0, <1>5 DEF Deliver, Sockets
<1>6. CASE HangUp
  BY <1>0, <1>6, HalfClosed DEF HangUp, Free
<1>7. CASE ReceiveBad \/ ReceiveCommand
  <2>1. sock.sr \in Open /\ recv_rest(sock) \in Sockets /\ recv_rest(sock).sr = sock.sr
    BY <1>0, <1>7, RestType, HalfClosed DEF ReceiveBad, ReceiveCommand, recv_fails
  <2> QED BY <1>7, <2>1, HalfClosed DEF ReceiveBad, ReceiveCommand, Open, Free
<1>8. CASE Respond
  <2>1. PICK sk \in Sockets : sock' = disconnect(sk) /\ sk.sr = sock.sr /\ sk.in = sock.in
    BY <1>8, RespondSends
  <2> QED BY <2>1, HalfClosed DEF Free
<1> QED BY <1>1, <1>2, <1>3, <1>4, <1>5, <1>6, <1>7, <1>8
        DEF Next, SecureCmd_Task, Environment, Network, Chip

(* After a command its connection takes no other, and the next connection   *)
(* begins with an empty buffer, whatever clients send and lose meanwhile.   *)
THEOREM OneCommand == Spec => OneCommandPerConnection
<1>1. Init => FreshInv
  BY DEF Init, ServerInit, close, FreshInv
<1>2. ASSUME IInv, FreshInv, [Next]_vars, exec # NoCommand, exec' = NoCommand
      PROVE  sock'.sr \notin Open
  <2>0. exec.cmd \in ClientCommands /\ exec.cmd # None
    BY <1>2, SecureAssumption DEF IInv, ExecInv
  <2>1. ~BlinkOn /\ ~BlinkOff
    BY <1>2, <2>0 DEF BlinkOn, BlinkOff, NoCommand, IInv, TypeOK, Executions
  <2>2. Respond
    BY <1>2, <2>1 DEF Next, SecureCmd_Task, Environment, Chip, OtherTasks, vars, GetStatus, Reopen,
       Listen, HangUp, Ignore, ReceiveNothing, ReceiveBad, ReceiveCommand, Act
  <2> QED BY <1>2, <2>2, RespondSends, HalfClosed
<1>3. ASSUME IInv, FreshInv, [Next]_vars, sock.sr \notin Open, sock'.sr \in Open
      PROVE  exec' = NoCommand /\ sock'.in = <<>>
  <2>0. sock \in Sockets
    BY <1>3 DEF IInv, TypeOK, ServerTypeOK
  <2>1. sock.sr = "LISTEN" => exec = NoCommand /\ sock.in = <<>>
    BY <1>3 DEF IInv, ExecInv, FreshInv, Free, Open
  <2>2. Connect /\ exec' = exec
    <3>1. ~(\/ GetStatus \/ Reopen \/ Listen \/ Ignore \/ ReceiveNothing
             \/ BlinkOn \/ BlinkOff \/ OtherTasks \/ UNCHANGED vars)
      BY <1>3, <2>0 DEF GetStatus, Reopen, Listen, Ignore, ReceiveNothing, BlinkOn, BlinkOff,
         OtherTasks, vars, socket, close, listen, Sockets, Open
    <3>2. ~(HangUp \/ ReceiveBad \/ ReceiveCommand \/ Respond)
      BY <1>3, <2>0, RespondSends, HalfClosed DEF HangUp, ReceiveBad, ReceiveCommand,
         recv_fails
    <3>3. ~(\/ ClientSend \/ ClientSendHalf \/ ClientFin \/ Lost \/ ChipReset \/ Vanish
             \/ Deliver \/ Closed \/ Addressed)
      BY <1>3, <2>0 DEF ClientSend, ClientSendHalf, ClientFin, Lost, ChipReset, Vanish,
         Deliver, Closed, Addressed, Speaking, close, Sockets, Open
    <3> QED BY <1>3, <3>1, <3>2, <3>3
            DEF Next, SecureCmd_Task, Environment, Network, Chip
  <2> QED BY <2>0, <2>1, <2>2 DEF Connect, Sockets
<1> QED BY <1>1, <1>2, <1>3, FreshStep, Invariance, PTL DEF Spec, OneCommandPerConnection

-----------------------------------------------------------------------------
(* The LED while a command blinks.                                          *)

(* Between two blinks the LED is off; it may have been on before the first. *)
LightInv ==
  exec # NoCommand =>
    /\ exec.left <= Blinked(exec.cmd)
    /\ exec.lit = FALSE /\ exec.left # Blinked(exec.cmd) => led = FALSE

LEMMA LightStep == IInv /\ LightInv /\ [Next]_vars => LightInv'
<1> SUFFICES ASSUME IInv, LightInv, [Next]_vars PROVE LightInv'
  OBVIOUS
<1>0. exec # NoCommand =>
        /\ exec \in [cmd : Commands, left : 0 .. BLINK_MAX, lit : BOOLEAN]
        /\ Blinked(exec.cmd) \in Nat
  BY BlinkedType, CommandsAssumption DEF IInv, TypeOK, Executions
<1>1. CASE UNCHANGED <<exec, led>>
  BY <1>1 DEF LightInv
<1>2. CASE exec' = NoCommand
  BY <1>2 DEF LightInv
<1>3. CASE OtherTasks
  <2>1. exec' = NoCommand
    BY <1>3 DEF OtherTasks, IInv, ExecInv, Idle
  <2> QED BY <2>1, <1>2
<1>4. CASE ReceiveCommand
  <2> DEFINE cmd == decrypt_packet(recv_data(sock))
  <2>1. exec' = [cmd |-> cmd, left |-> Blinked(cmd), lit |-> FALSE]
        /\ sock.sr \in Open /\ cmd # None
    BY <1>4 DEF ReceiveCommand, recv_fails
  <2>2. cmd \in Commands
    BY <2>1, SecureAssumption DEF decrypt_packet, IInv, PeerInv, Free, Open, Requests
  <2> HIDE DEF cmd
  <2>3. exec'.cmd = cmd /\ exec'.left = Blinked(cmd) /\ Blinked(cmd) \in Nat
    BY <2>1, <2>2, BlinkedType, CommandsAssumption
  <2> QED BY <2>3 DEF LightInv
<1>5. CASE BlinkOn
  <2>1. exec # NoCommand
    BY <1>5 DEF BlinkOn, NoCommand
  <2>2. exec' = [exec EXCEPT !.lit = TRUE]
    BY <1>5 DEF BlinkOn
  <2>3. exec'.cmd = exec.cmd /\ exec'.left = exec.left /\ exec'.lit = TRUE
    BY <1>0, <2>1, <2>2
  <2> QED BY <2>1, <2>3 DEF LightInv
<1>6. CASE BlinkOff
  <2>1. exec # NoCommand /\ exec.left > 0
    BY <1>6, NoCommandFields, Zenon DEF BlinkOff, IInv, ExecInv
  <2>2. exec' = [exec EXCEPT !.lit = FALSE, !.left = @ - 1] /\ led' = FALSE
    BY <1>6 DEF BlinkOff
  <2>3. exec'.cmd = exec.cmd /\ exec'.left = exec.left - 1
    BY <1>0, <2>1, <2>2
  <2> QED BY <1>0, <2>1, <2>2, <2>3 DEF LightInv
<1> QED BY <1>1, <1>2, <1>3, <1>4, <1>5, <1>6
        DEF Next, SecureCmd_Task, Environment, Chip, vars, GetStatus, Reopen, Listen,
            HangUp, Ignore, ReceiveNothing, ReceiveBad, Respond, Act

LEMMA Lights == Spec => []LightInv
<1>1. Init => LightInv
  BY DEF Init, LightInv
<1> QED BY <1>1, LightStep, Invariance, PTL DEF Spec
=============================================================================
